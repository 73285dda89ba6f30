------------------------------- MODULE Sharing -------------------------------
(***************************************************************************)
(* What tasks share and count: open files, file system context, signal     *)
(* handlers and memory, over do_fork() with its failures, do_exit(),       *)
(* daemonize(), and the switch from task to task on one processor, which   *)
(* lets a task without memory run on that of the task before it.  A task   *)
(* made with CLONE_VFORK lets its parent sleep on a completion, which is   *)
(* on the parent's kernel stack, until it gives the memory up.             *)
(*                                                                         *)
(* A step is what the kernel does without sleeping.  Where it may sleep,   *)
(* Switch may come in between.                                             *)
(***************************************************************************)
EXTENDS Integers, FiniteSets

CONSTANTS Tasks, FirstTask,
          Idle,            \* the processor's own task, init_task of the kernel
          None,
          Structs,         \* the memory for structures, for each kind
          Clones           \* the sets of flags that do_fork() is called with

Kinds == {"files", "fs", "sig"}
AllTasks == Tasks \cup {Idle}

(* What the constants have to satisfy; Process assumes it. *)
SharersAssumption == /\ FirstTask \in Tasks /\ None \notin AllTasks /\ Idle \notin Tasks
                     /\ IsFiniteSet(Tasks)
StructsAssumption == Structs \subseteq Nat /\ 0 \in Structs /\ None \notin Structs

VARIABLES pc,              \* where each task is, see TypeOK
          child,           \* the task that t makes in do_fork()
          clone_flags,     \* the flags of that call
          pointer,         \* p->files, p->fs and p->sig
          refs,            \* the counts in those structures; 0 if it is free
          mm, active_mm,   \* the fields of each task
          mms,             \* mm_users and mm_count of each mm_struct
          lazy,            \* what start_lazy_tlb() returned to a task
          current,
          vfork_done,      \* the task whose completion a task holds
          done,            \* the completion on each task's stack
          lender,          \* history: the parent whose memory a task runs in
                           \* after vfork(), until it has its own or none
          early,           \* history: tasks that let their parent go early
          leaked           \* history: an mm_count that was not given back

vars == <<pc, child, clone_flags, pointer, refs, mm, active_mm, mms, lazy, current,
          vfork_done, done, lender, early, leaked>>

(* The copies of do_fork() in their order.  Parent: the next one. *)
Copies == <<"files", "fs", "sig", "mm", "namespace">>
InFork == {Copies[i] : i \in DOMAIN Copies} \cup {"link"}

NextCopy(copy) == CASE copy = "files" -> "fs"  [] copy = "fs" -> "sig"
                    [] copy = "sig" -> "mm"    [] copy = "mm" -> "namespace"
                    [] copy = "namespace" -> "link"

CloneFlag == [files |-> "FILES", fs |-> "FS", sig |-> "SIGHAND"]

(* The structures that the child has a count of its own for, by place. *)
CopiedBefore(place) == CASE place = "files" -> {}
                         [] place = "fs" -> {"files"}
                         [] place = "sig" -> {"files", "fs"}
                         [] OTHER -> Kinds

OrNone(S) == S \cup {None}

TypeOK ==
    /\ pc \in [Tasks -> {"free", "embryo", "user", "vfork", "lazy", "exit", "zombie"}
                        \cup InFork]
    /\ child \in [Tasks -> OrNone(Tasks)]
    /\ clone_flags \in [Tasks -> Clones \cup {{}}]
    /\ pointer \in [Kinds -> [AllTasks -> OrNone(Structs)]]
    /\ refs \in [Kinds -> [Structs -> Nat]]
    /\ mm \in [AllTasks -> OrNone(Structs)]
    /\ active_mm \in [AllTasks -> OrNone(Structs)]
    /\ mms \in [Structs -> [mm_users : Nat, mm_count : Nat]]
    /\ lazy \in [Tasks -> OrNone(Structs)]
    /\ current \in AllTasks
    /\ vfork_done \in [Tasks -> OrNone(Tasks)]
    /\ done \in [Tasks -> {0, 1}]
    /\ lender \in [Tasks -> OrNone(Tasks)]
    /\ early \subseteq Tasks /\ leaked \subseteq Structs

(* The first process was made by the idle task, with CLONE_FILES and       *)
(* CLONE_FS, and has executed a program.                                   *)
Init ==
    /\ pc = [t \in Tasks |-> IF t = FirstTask THEN "user" ELSE "free"]
    /\ child = [t \in Tasks |-> None]
    /\ clone_flags = [t \in Tasks |-> {}]
    /\ pointer = [k \in Kinds |-> [t \in AllTasks |->
                    IF t = FirstTask \/ (t = Idle /\ k # "sig") THEN 0 ELSE None]]
    /\ refs = [k \in Kinds |-> [s \in Structs |->
                    IF s # 0 THEN 0 ELSE IF k = "sig" THEN 1 ELSE 2]]
    /\ mm = [t \in AllTasks |-> IF t = FirstTask THEN 0 ELSE None]
    /\ active_mm = mm
    /\ mms = [s \in Structs |-> IF s = 0 THEN [mm_users |-> 1, mm_count |-> 1]
                                ELSE [mm_users |-> 0, mm_count |-> 0]]
    /\ lazy = [t \in Tasks |-> None]
    /\ current = FirstTask
    /\ vfork_done = [t \in Tasks |-> None]
    /\ done = [t \in Tasks |-> 0]
    /\ lender = [t \in Tasks |-> None]
    /\ early = {} /\ leaked = {}

Runs(t, place) == current = t /\ pc[t] = place

(* kmem_cache_alloc() gives memory that nobody uses, if there is any. *)
Lowest(S) == CHOOSE s \in S : \A r \in S : s =< r
FreeStructs(k) == {s \in Structs : refs[k][s] = 0}
FreeMms == {m \in Structs : mms[m].mm_count = 0}

------------------------------------------------------------------------------
(* Counts of memory: mm_users are those who run in it, mm_count one for    *)
(* all of them and one for each task that merely borrows the page tables.  *)

grab(ms, m) == [ms EXCEPT ![m].mm_count = @ + 1]
mmdrop(ms, m) == [ms EXCEPT ![m].mm_count = @ - 1]

mmput(ms, m) ==
    LET less == [ms EXCEPT ![m].mm_users = @ - 1]
    IN  IF less[m].mm_users = 0 THEN mmdrop(less, m) ELSE less

mm_init(ms, m) == [ms EXCEPT ![m] = [mm_users |-> 1, mm_count |-> 1]]

(* mm_release(), of the current task t: the parent may go on. *)
MmRelease(t) ==
    LET p == vfork_done[t]
    IN  /\ vfork_done' = [vfork_done EXCEPT ![t] = None]
        /\ done' = IF p = None THEN done ELSE [done EXCEPT ![p] = @ + 1]

(* What __exit_mm(tsk) does to the memory of tsk: the count stays with     *)
(* tsk->active_mm, for the switch to the next task to give up.             *)
Unmapped(tsk) ==
    IF mm[tsk] = None THEN mms ELSE mmput(grab(mms, mm[tsk]), mm[tsk])

(* __exit_files(), __exit_fs() and exit_sighand(): t gives up those of K. *)
GivenUp(t, K) ==
    [k \in Kinds |-> IF k \in K THEN [refs[k] EXCEPT ![pointer[k][t]] = @ - 1]
                     ELSE refs[k]]
Without(t, K) ==
    [k \in Kinds |-> IF k \in K THEN [pointer[k] EXCEPT ![t] = None] ELSE pointer[k]]

------------------------------------------------------------------------------
(* do_fork() *)

(* Lines 618-675: the structure c becomes a copy of t, pointers and all. *)
ForkStart(t, c, flags) ==
    /\ Runs(t, "user") /\ pc[c] = "free"
    /\ ~({"NEWNS", "FS"} \subseteq flags)
    /\ pc' = [pc EXCEPT ![t] = "files", ![c] = "embryo"]
    /\ child' = [child EXCEPT ![t] = c]
    /\ clone_flags' = [clone_flags EXCEPT ![t] = flags]
    /\ pointer' = [k \in Kinds |-> [pointer[k] EXCEPT ![c] = pointer[k][t]]]
    /\ mm' = [mm EXCEPT ![c] = mm[t]]
    /\ active_mm' = [active_mm EXCEPT ![c] = active_mm[t]]
    /\ vfork_done' = [vfork_done EXCEPT ![c] = IF "VFORK" \in flags THEN t ELSE None]
    /\ done' = [done EXCEPT ![t] = 0]
    /\ UNCHANGED <<refs, mms, lazy, current, lender, early, leaked>>

Shared(t, k) == CloneFlag[k] \in clone_flags[t]

(* copy_files(), copy_fs() and copy_sighand(): one more user, or a copy. *)
Copy(t, k) ==
    /\ Runs(t, k)
    /\ \/ /\ Shared(t, k)
          /\ refs' = [refs EXCEPT ![k][pointer[k][t]] = @ + 1]
          /\ UNCHANGED pointer
       \/ /\ ~Shared(t, k) /\ FreeStructs(k) # {}
          /\ LET s == Lowest(FreeStructs(k))
             IN  /\ refs' = [refs EXCEPT ![k][s] = 1]
                 /\ pointer' = [pointer EXCEPT ![k][child[t]] = s]
    /\ pc' = [pc EXCEPT ![t] = NextCopy(k)]
    /\ UNCHANGED <<child, clone_flags, mm, active_mm, mms, lazy, current, vfork_done,
                   done, lender, early, leaked>>

(* copy_mm(): a kernel thread has nothing to copy. *)
CopyMm(t) ==
    /\ Runs(t, "mm")
    /\ \E m \in OrNone(Structs) :
          /\ \/ mm[t] = None /\ m = None /\ mms' = mms
             \/ /\ mm[t] # None /\ "VM" \in clone_flags[t]
                /\ m = mm[t] /\ mms' = [mms EXCEPT ![m].mm_users = @ + 1]
             \/ /\ mm[t] # None /\ "VM" \notin clone_flags[t] /\ FreeMms # {}
                /\ m = Lowest(FreeMms) /\ mms' = mm_init(mms, m)
          /\ mm' = [mm EXCEPT ![child[t]] = m]
          /\ active_mm' = [active_mm EXCEPT ![child[t]] = m]
    /\ pc' = [pc EXCEPT ![t] = "namespace"]
    /\ UNCHANGED <<child, clone_flags, pointer, refs, lazy, current, vfork_done, done,
                   lender, early, leaked>>

CopyNamespace(t) ==
    /\ Runs(t, "namespace")
    /\ pc' = [pc EXCEPT ![t] = "link"]
    /\ UNCHANGED <<child, clone_flags, pointer, refs, mm, active_mm, mms, lazy, current,
                   vfork_done, done, lender, early, leaked>>

(* A copy fails: there is no memory for one.  There may be no pid either,  *)
(* before the first.                                                       *)
CanFail(t) ==
    \/ pc[t] = "files"
    \/ pc[t] \in {"fs", "sig"} /\ ~Shared(t, pc[t])
    \/ pc[t] = "mm" /\ mm[t] # None /\ "VM" \notin clone_flags[t]
    \/ pc[t] = "namespace" /\ "NEWNS" \in clone_flags[t]

(* MUTANT: a failure goes to the label above its own. *)
UndoneOneTooMany(place) ==
    IF place \in Kinds THEN CopiedBefore(NextCopy(place)) ELSE Kinds

(* The labels from bad_fork_cleanup_namespace on: what was copied before   *)
(* the failure is given up.                                                *)
Undone(place) == CopiedBefore(place)

(* exit_mm(p) is meant for the task in the making; the mm_release() in it  *)
(* acts on the current one, and the count that it leaves with p->active_mm *)
(* goes with p.  Lines 803-812 are one step: p is in no list, and the      *)
(* counts that they drop are of structures that the parent keeps or that   *)
(* only p has.                                                             *)
ForkFail(t) ==
    LET c == child[t]
        exit_mm == pc[t] = "namespace"
    IN  /\ current = t /\ pc[t] \in InFork /\ CanFail(t)
        /\ refs' = GivenUp(c, Undone(pc[t]))
        /\ pointer' = Without(c, Kinds)
        /\ IF exit_mm THEN MmRelease(t) /\ mms' = Unmapped(c)
           ELSE /\ vfork_done' = [vfork_done EXCEPT ![c] = None]
                /\ UNCHANGED <<done, mms>>
        /\ early' = IF exit_mm /\ vfork_done[t] # None THEN early \cup {t} ELSE early
        /\ leaked' = IF exit_mm /\ mm[c] # None THEN leaked \cup {mm[c]} ELSE leaked
        /\ mm' = [mm EXCEPT ![c] = None]
        /\ active_mm' = [active_mm EXCEPT ![c] = None]
        /\ pc' = [pc EXCEPT ![t] = "user", ![c] = "free"]
        /\ child' = [child EXCEPT ![t] = None]
        /\ clone_flags' = [clone_flags EXCEPT ![t] = {}]
        /\ UNCHANGED <<lazy, current, lender>>

(* Lines 785-798: the child is runnable, and the parent of a vfork waits. *)
ForkLink(t) ==
    LET c == child[t]
        vfork == "VFORK" \in clone_flags[t]
    IN  /\ Runs(t, "link")
        /\ pc' = [pc EXCEPT ![c] = "user", ![t] = IF vfork THEN "vfork" ELSE "user"]
        /\ lender' = IF vfork /\ "VM" \in clone_flags[t] /\ mm[c] # None
                     THEN [lender EXCEPT ![c] = t] ELSE lender
        /\ child' = [child EXCEPT ![t] = None]
        /\ clone_flags' = [clone_flags EXCEPT ![t] = {}]
        /\ UNCHANGED <<pointer, refs, mm, active_mm, mms, lazy, current, vfork_done, done,
                       early, leaked>>

(* MUTANT: one schedule() in place of the loop. *)
WaitsOnce(t) == TRUE

(* The loop of wait_for_completion() is left. *)
Completed(t) == done[t] > 0

(* wait_for_completion() returns, and do_fork() with it. *)
VforkReturn(t) ==
    /\ Runs(t, "vfork") /\ Completed(t)
    /\ done' = [done EXCEPT ![t] = @ - 1]
    /\ pc' = [pc EXCEPT ![t] = "user"]
    /\ UNCHANGED <<child, clone_flags, pointer, refs, mm, active_mm, mms, lazy, current,
                   vfork_done, lender, early, leaked>>

------------------------------------------------------------------------------
(* Giving up memory and the rest *)

(* __exit_mm() of the current task. *)
ExitMm(t) ==
    /\ MmRelease(t)
    /\ mms' = Unmapped(t)
    /\ mm' = [mm EXCEPT ![t] = None]
    /\ lender' = [lender EXCEPT ![t] = None]
    /\ early' = early \ {t}

(* do_exit(): first the memory ... *)
Exit(t) ==
    /\ Runs(t, "user") /\ t # FirstTask
    /\ ExitMm(t)
    /\ pc' = [pc EXCEPT ![t] = "exit"]
    /\ UNCHANGED <<child, clone_flags, pointer, refs, active_mm, lazy, current, leaked>>

(* ... then files, file system and handlers, in this order ... *)
ExitNext(t, k) ==
    /\ Runs(t, "exit")
    /\ pointer[k][t] # None
    /\ \A earlier \in CopiedBefore(k) : pointer[earlier][t] = None
    /\ refs' = GivenUp(t, {k})
    /\ pointer' = Without(t, {k})
    /\ UNCHANGED <<pc, child, clone_flags, mm, active_mm, mms, lazy, current, vfork_done,
                   done, lender, early, leaked>>

(* ... and then it is a zombie, until the switch still the current task. *)
ExitNotify(t) ==
    /\ Runs(t, "exit")
    /\ \A k \in Kinds : pointer[k][t] = None
    /\ pc' = [pc EXCEPT ![t] = "zombie"]
    /\ UNCHANGED <<child, clone_flags, pointer, refs, mm, active_mm, mms, lazy, current,
                   vfork_done, done, lender, early, leaked>>

(* release_task(), by the task that runs. *)
Release(t) ==
    /\ pc[t] = "zombie" /\ current # t
    /\ pc' = [pc EXCEPT ![t] = "free"]
    /\ UNCHANGED <<child, clone_flags, pointer, refs, mm, active_mm, mms, lazy, current,
                   vfork_done, done, lender, early, leaked>>

(* daemonize(): t becomes a kernel thread, with the idle task's files and  *)
(* file system.  It is one step: between the release of the old files and  *)
(* the idle task's, t has none for a while, and no property sees that.     *)
Daemonize(t) ==
    LET taken == {"files", "fs"}
    IN  /\ Runs(t, "user") /\ t # FirstTask
        /\ ExitMm(t)
        /\ refs' = [k \in Kinds |->
                       IF k \in taken
                       THEN [GivenUp(t, taken)[k] EXCEPT ![pointer[k][Idle]] = @ + 1]
                       ELSE refs[k]]
        /\ pointer' = [k \in Kinds |-> IF k \in taken
                       THEN [pointer[k] EXCEPT ![t] = pointer[k][Idle]] ELSE pointer[k]]
        /\ UNCHANGED <<pc, child, clone_flags, active_mm, lazy, current, leaked>>

(* exec(): as mm_release() wants it, then memory of its own.  It is copied *)
(* from nowhere, so the old one serves if t is its only user.              *)
Exec(t) ==
    /\ Runs(t, "user") /\ mm[t] # None
    /\ MmRelease(t)
    /\ lender' = [lender EXCEPT ![t] = None]
    /\ early' = early \ {t}
    /\ \/ mms[mm[t]].mm_users = 1 /\ UNCHANGED <<mm, active_mm, mms>>
       \/ /\ mms[mm[t]].mm_users > 1 /\ FreeMms # {}
          /\ LET m == Lowest(FreeMms)
             IN  /\ mm' = [mm EXCEPT ![t] = m]
                 /\ active_mm' = [active_mm EXCEPT ![t] = m]
                 /\ mms' = mmput(mm_init(mms, m), mm[t])
    /\ UNCHANGED <<pc, child, clone_flags, pointer, refs, lazy, current, leaked>>

(* start_lazy_tlb() and end_lazy_tlb(): t does without memory for a while. *)
StartLazy(t) ==
    /\ Runs(t, "user") /\ mm[t] # None
    /\ mms' = grab(mms, mm[t])
    /\ lazy' = [lazy EXCEPT ![t] = mm[t]]
    /\ mm' = [mm EXCEPT ![t] = None]
    /\ pc' = [pc EXCEPT ![t] = "lazy"]
    /\ UNCHANGED <<child, clone_flags, pointer, refs, active_mm, current, vfork_done, done,
                   lender, early, leaked>>

EndLazy(t) ==
    /\ Runs(t, "lazy")
    /\ mm' = [mm EXCEPT ![t] = lazy[t]]
    /\ active_mm' = [active_mm EXCEPT ![t] = lazy[t]]
    /\ mms' = mmdrop(mms, active_mm[t])
    /\ lazy' = [lazy EXCEPT ![t] = None]
    /\ pc' = [pc EXCEPT ![t] = "user"]
    /\ UNCHANGED <<child, clone_flags, pointer, refs, current, vfork_done, done, lender,
                   early, leaked>>

------------------------------------------------------------------------------
(* schedule() *)

CanRun(t) == \/ t = Idle
             \/ t \in Tasks /\ pc[t] \notin {"free", "embryo", "vfork", "zombie"}
             \/ t \in Tasks /\ pc[t] = "vfork" /\ Completed(t)

(* MUTANT: the borrower counts nothing. *)
Uncounted(prev, next) == mms

(* context_switch(), the counts: a task without memory borrows that of the *)
(* one before it, which gives back what it had borrowed itself.            *)
Switched(prev, next) ==
    LET oldmm == active_mm[prev]
        taken == IF mm[next] = None THEN grab(mms, oldmm) ELSE mms
    IN  IF mm[prev] = None THEN mmdrop(taken, oldmm) ELSE taken

Switch(next) ==
    LET prev == current
    IN  /\ next # prev /\ CanRun(next)
        /\ mms' = Switched(prev, next)
        /\ active_mm' =
              [t \in AllTasks |-> IF t = next /\ mm[next] = None THEN active_mm[prev]
                                 ELSE IF t = prev /\ mm[prev] = None THEN None
                                 ELSE active_mm[t]]
        /\ current' = next
        /\ UNCHANGED <<pc, child, clone_flags, pointer, refs, mm, lazy, vfork_done, done,
                       lender, early, leaked>>

Next ==
    \/ \E t \in Tasks :
          \/ \E c \in Tasks, flags \in Clones : ForkStart(t, c, flags)
          \/ \E k \in Kinds : Copy(t, k) \/ ExitNext(t, k)
          \/ CopyMm(t) \/ CopyNamespace(t) \/ ForkFail(t) \/ ForkLink(t)
          \/ VforkReturn(t) \/ Exit(t) \/ ExitNotify(t) \/ Release(t)
          \/ Daemonize(t) \/ Exec(t) \/ StartLazy(t) \/ EndLazy(t)
    \/ \E next \in AllTasks : Switch(next)

Spec == Init /\ [][Next]_vars

------------------------------------------------------------------------------
(* PROPERTIES *)

Parent(c) == CHOOSE t \in Tasks : child[t] = c
Alive == {t \in Tasks : pc[t] \notin {"free", "embryo", "zombie"}}

(* Who has a count of structure s: tasks, and those in the making as far   *)
(* as do_fork() has come.                                                  *)
Users(k, s) ==
    {t \in AllTasks :
        /\ pointer[k][t] = s
        /\ t \in Tasks /\ pc[t] = "embryo" => k \in CopiedBefore(pc[Parent(t)])}

(* Open files, file system context and signal handlers are freed with      *)
(* their last user and not before, wherever a fork failed: their counts    *)
(* are the numbers of their users, and a task that lives has all of them.  *)
SharingExact ==
    /\ \A k \in Kinds, s \in Structs : refs[k][s] = Cardinality(Users(k, s))
    /\ \A t \in Alive : pc[t] # "exit" => \A k \in Kinds : pointer[k][t] # None

(* Those whose mm and active_mm are not just copied from their parent. *)
HasOwnMm(t) == t \in Tasks /\ pc[t] = "embryo" => pc[Parent(t)] \in {"namespace", "link"}

RunsIn(m) == {t \in AllTasks : \/ mm[t] = m /\ HasOwnMm(t)
                               \/ t \in Tasks /\ lazy[t] = m}

Borrowers(m) == {t \in AllTasks : mm[t] = None /\ active_mm[t] = m /\ HasOwnMm(t)}

(* A task runs in its own memory ("BUG_ON(mm != tsk->active_mm)") or on    *)
(* page tables borrowed from a memory that is not freed: it stays as long  *)
(* as a task runs in it or borrows it, a zombie on its way out included,   *)
(* and goes with the last of them, but for a count that a failed fork      *)
(* leaves behind.                                                          *)
MemoryCounted ==
    /\ TypeOK
    /\ active_mm[current] # None
    /\ \A t \in AllTasks : mm[t] # None => active_mm[t] = mm[t]
    /\ \A m \in Structs : Borrowers(m) \subseteq {current}
    /\ \A m \in Structs :
          LET exact == Cardinality(Borrowers(m)) + (IF RunsIn(m) = {} THEN 0 ELSE 1)
          IN  /\ mms[m].mm_users = Cardinality(RunsIn(m))
              /\ mms[m].mm_count >= exact
              /\ m \notin leaked => mms[m].mm_count = exact

(* A completion is on the stack of a task that waits for it: the child     *)
(* that holds it will find it there.  A parent waits for one live child or *)
(* has been told to go on, so that it does not sleep for ever, and does    *)
(* not run while the child is in its memory.                               *)
VforkHandshake ==
    \A p \in Tasks :
        LET owing == {c \in Alive : vfork_done[c] = p}
        IN  /\ owing # {} => pc[p] = "vfork" /\ done[p] = 0
            /\ pc[p] = "vfork" => Cardinality(owing) + done[p] = 1
            /\ \A c \in Alive \ early : lender[c] = p => vfork_done[c] = p
==============================================================================
