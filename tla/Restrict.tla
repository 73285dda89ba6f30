------------------------------- MODULE Restrict -------------------------------
(***************************************************************************)
(* The system-call restrictions of HW1: who allocates, shares and frees    *)
(* the two arrays that every task_struct points to, restrictions_list and  *)
(* log_list, over fork, sc_restrict, the check made on every system call   *)
(* (syscall_check, called from entry.S), exit and the release of a zombie. *)
(*                                                                         *)
(* The kernel is not preempted, so a handler is one step but where it      *)
(* sleeps: in kmalloc(GFP_KERNEL), and in copy_from_user() when the page   *)
(* of the caller is not there.  sys_sc_restrict() and                      *)
(* sys_get_process_log() are cut at those points.  What the log holds is   *)
(* in ProcessLog; here it is a block and a counter.                        *)
(***************************************************************************)
EXTENDS Naturals, Sequences, FiniteSets

CONSTANTS Tasks,         \* slots for tasks; one of them runs at the start
          FirstTask,
          Blocks,        \* blocks of kernel memory
          Null,
          Syscalls,
          Lists,         \* lists that callers pass: sequences of Restrictions
          Fails,         \* may kmalloc() return NULL?
          MaxLogged      \* bound of the model: violations of one task

Levels == 0 .. 2
Restrictions == [syscall_num : Syscalls, restriction_threshold : Levels]

ASSUME TasksAssumption == FirstTask \in Tasks
ASSUME NullAssumption == Null \notin Blocks
ASSUME ListsAssumption == Lists \subseteq Seq(Restrictions)
ASSUME FlagsAssumption == Fails \in BOOLEAN

VARIABLES state,                      \* of each task slot
          proc_restriction_level, restrictions_list, restrictions_list_size,
          log_list, log_list_size,    \* the fields that HW1 added
          heap,                       \* what each block holds
          call,                       \* the call that a task is asleep in
          fault,                      \* a misuse of memory has happened
          policy,                     \* history: the list that the last
                                      \* sc_restrict() set, if it did
          unset,                      \* history: tasks whose last call of
                                      \* sc_restrict() got no list
          dangling,                   \* history: a call got no log
          crossed                     \* history: one call or release met
                                      \* another's call on the same task

fields == <<proc_restriction_level, restrictions_list, restrictions_list_size,
            log_list, log_list_size>>
vars == <<state, fields, heap, call, fault, policy, unset, dangling,
          crossed>>

Unused == [kind |-> "free"]
Uninitialised == [kind |-> "garbage"]
Log == [kind |-> "log"]
Scr(list) == [kind |-> "scr", list |-> list]

NoCall == [at |-> "none"]

TypeOK ==
    /\ state \in [Tasks -> {"free", "running", "zombie"}]
    /\ proc_restriction_level \in [Tasks -> Levels]
    /\ restrictions_list \in [Tasks -> Blocks \cup {Null}]
    /\ restrictions_list_size \in [Tasks -> Nat]
    /\ log_list \in [Tasks -> Blocks \cup {Null}]
    /\ log_list_size \in [Tasks -> Nat]
    /\ heap \in [Blocks -> {Unused, Uninitialised, Log} \cup {Scr(l) : l \in Lists}]
    /\ \A t \in Tasks : /\ call[t].at \in {"none", "list", "log", "copy", "buffer", "user"}
                        /\ call[t].at # "none" => state[t] = "running"
    /\ fault \in BOOLEAN
    /\ policy \in [Tasks -> Lists \cup {<<>>}]
    /\ unset \subseteq Tasks
    /\ {dangling, crossed} \subseteq BOOLEAN

Init ==
    /\ state = [t \in Tasks |-> IF t = FirstTask THEN "running" ELSE "free"]
    /\ proc_restriction_level = [t \in Tasks |-> 0]
    /\ restrictions_list = [t \in Tasks |-> Null]
    /\ restrictions_list_size = [t \in Tasks |-> 0]
    /\ log_list = [t \in Tasks |-> Null]
    /\ log_list_size = [t \in Tasks |-> 0]
    /\ heap = [b \in Blocks |-> Unused]
    /\ call = [t \in Tasks |-> NoCall]
    /\ fault = FALSE
    /\ policy = [t \in Tasks |-> <<>>]
    /\ unset = {}
    /\ dangling = FALSE
    /\ crossed = FALSE

------------------------------------------------------------------------------
(* Memory.  kfree() of a block that is not allocated is a fault. *)

kmalloc(b) == heap[b] = Unused /\ heap' = [heap EXCEPT ![b] = Uninitialised]

Freed(h, blocks) == [b \in Blocks |-> IF b \in blocks THEN Unused ELSE h[b]]
BadFree(blocks) == \E b \in blocks : heap[b] = Unused

(* u is asleep in sc_restrict() on t. *)
Restricting(u, t) == call[u].at \in {"list", "log", "copy"} /\ call[u].target = t
InProgress(t) == \E u \in Tasks : Restricting(u, t)

(* Another task is; t may run all the same.                                *)
InOthersCall(t) == \E u \in Tasks \ {t} : Restricting(u, t)

(* A task holds a pointer to t and will read t's log when it has memory. *)
LogAskedFor(t) == \E u \in Tasks : call[u].at = "buffer" /\ call[u].target = t

(* A task is on the processor, and stays there until it sleeps. *)
Runs(t) == state[t] = "running"

(* t is not in a handler: what it does next enters by system_call. *)
InUser(t) == Runs(t) /\ call[t].at = "none"

Exists(t) == state[t] # "free"

------------------------------------------------------------------------------
(* sys_sc_restrict(target, level, list, Len(list)) *)

(* MUTANT: the old list is not freed. *)
OldListKept(target) == {}

(* Lines 30-32, and what line 41 frees *)
OldList(target) == {restrictions_list[target]} \ {Null}

(* Lines 11-32, for a pid, a level and a size that are valid: the others   *)
(* are refused before anything changes.  The pointer to the freed list     *)
(* stays where it is while kmalloc() sleeps.  Nothing keeps another call   *)
(* off the target meanwhile: it frees that list again, or the new one.     *)
ScRestrictFree(t, target, level, list) ==
    /\ InUser(t) /\ Exists(target)
    /\ heap' = Freed(heap, OldList(target))
    /\ fault' = (fault \/ BadFree(OldList(target)))
    /\ call' = [call EXCEPT ![t] = [at |-> "list", target |-> target,
                                    level |-> level, list |-> list]]
    /\ policy' = [policy EXCEPT ![target] = <<>>]
    /\ crossed' = (crossed \/ InProgress(target))
    /\ UNCHANGED <<state, fields, unset, dangling>>

(* Lines 33-38 *)
ScRestrictList(t) ==
    /\ Runs(t) /\ call[t].at = "list"
    /\ \E b \in Blocks :
          /\ kmalloc(b)
          /\ restrictions_list' = [restrictions_list EXCEPT ![call[t].target] = b]
    /\ call' = [call EXCEPT ![t].at =
                   IF log_list[call[t].target] = Null THEN "log" ELSE "copy"]
    /\ UNCHANGED <<state, proc_restriction_level, restrictions_list_size,
                   log_list, log_list_size, fault, policy, unset, dangling,
                   crossed>>

(* Lines 34-36: -ENOMEM, with no list and the size of the old one. *)
ScRestrictNoList(t) ==
    /\ Fails /\ Runs(t) /\ call[t].at = "list"
    /\ restrictions_list' = [restrictions_list EXCEPT ![call[t].target] = Null]
    /\ call' = [call EXCEPT ![t] = NoCall]
    /\ unset' = unset \cup {call[t].target}
    /\ UNCHANGED <<state, proc_restriction_level, restrictions_list_size,
                   log_list, log_list_size, heap, fault, policy, dangling,
                   crossed>>

(* Line 39 *)
ScRestrictLog(t) ==
    /\ Runs(t) /\ call[t].at = "log"
    /\ \E b \in Blocks :
          /\ heap[b] = Unused
          /\ heap' = [heap EXCEPT ![b] = Log]
          /\ log_list' = [log_list EXCEPT ![call[t].target] = b]
    /\ call' = [call EXCEPT ![t].at = "copy"]
    /\ UNCHANGED <<state, proc_restriction_level, restrictions_list,
                   restrictions_list_size, log_list_size, fault, policy,
                   unset, dangling, crossed>>

(* Lines 40-43: -ENOMEM, with a pointer to a list that is freed. *)
ScRestrictNoLog(t) ==
    /\ Fails /\ Runs(t) /\ call[t].at = "log"
    /\ heap' = Freed(heap, OldList(call[t].target))
    /\ fault' = (fault \/ BadFree(OldList(call[t].target)))
    /\ call' = [call EXCEPT ![t] = NoCall]
    /\ dangling' = TRUE
    /\ UNCHANGED <<state, fields, policy, unset, crossed>>

(* MUTANT: line 49 is missing. *)
SizeForgotten(target, list) == restrictions_list_size

(* Line 49 *)
NewSize(target, list) ==
    [restrictions_list_size EXCEPT ![target] = Len(list)]

(* Lines 46-52 *)
ScRestrictCopy(t) ==
    LET c == call[t]
        b == restrictions_list[c.target]
    IN  /\ Runs(t) /\ c.at = "copy"
        /\ heap' = [heap EXCEPT ![b] = Scr(c.list)]
        /\ fault' = (fault \/ b = Null \/ heap[b] = Unused)
        /\ proc_restriction_level' =
              [proc_restriction_level EXCEPT ![c.target] = c.level]
        /\ restrictions_list_size' = NewSize(c.target, c.list)
        /\ call' = [call EXCEPT ![t] = NoCall]
        /\ policy' = [policy EXCEPT ![c.target] = c.list]
        /\ unset' = unset \ {c.target}
        /\ UNCHANGED <<state, restrictions_list, log_list, log_list_size,
                       dangling, crossed>>

(* sys_set_proc_restriction() *)
SetProcRestriction(t, target, level) ==
    /\ InUser(t) /\ Exists(target)
    /\ proc_restriction_level' = [proc_restriction_level EXCEPT ![target] = level]
    /\ UNCHANGED <<state, restrictions_list, restrictions_list_size, log_list,
                   log_list_size, heap, call, fault, policy, unset, dangling,
                   crossed>>

------------------------------------------------------------------------------
(* sys_get_process_log(target, size, user_mem) *)

(* Lines 76-91: kmalloc() may sleep. *)
GetProcessLog(t, target, size) ==
    /\ InUser(t) /\ Exists(target)
    /\ size =< log_list_size[target]
    /\ call' = [call EXCEPT ![t] = [at |-> "buffer", target |-> target, size |-> size]]
    /\ UNCHANGED <<state, fields, heap, fault, policy, unset, dangling, crossed>>

GetProcessLogNoMemory(t) ==
    /\ Fails /\ Runs(t) /\ call[t].at = "buffer"
    /\ call' = [call EXCEPT ![t] = NoCall]
    /\ UNCHANGED <<state, fields, heap, fault, policy, unset, dangling, crossed>>

(* Lines 91-116: the loops read the log of curr, the task that was found   *)
(* before kmalloc(), unless no record was asked for; copy_to_user() may    *)
(* sleep.                                                                  *)
GetProcessLogCopy(t) ==
    LET curr == call[t].target
        log == log_list[curr]
    IN  /\ Runs(t) /\ call[t].at = "buffer"
        /\ \E to_usr \in Blocks :
              /\ kmalloc(to_usr)
              /\ call' = [call EXCEPT ![t] = [at |-> "user", to_usr |-> to_usr]]
        /\ fault' = \/ fault
                    \/ ~Exists(curr)
                    \/ call[t].size > 0 /\ (log = Null \/ heap[log] # Log)
        /\ UNCHANGED <<state, fields, policy, unset, dangling, crossed>>

(* MUTANT: line 117 is missing. *)
BufferKept(to_usr) == {}

(* Line 117 *)
Buffer(to_usr) == {to_usr}

GetProcessLogReturn(t) ==
    /\ Runs(t) /\ call[t].at = "user"
    /\ heap' = Freed(heap, Buffer(call[t].to_usr))
    /\ fault' = (fault \/ BadFree(Buffer(call[t].to_usr)))
    /\ call' = [call EXCEPT ![t] = NoCall]
    /\ UNCHANGED <<state, fields, policy, unset, dangling, crossed>>

------------------------------------------------------------------------------
(* syscall_check(num, t) *)

(* The loop of line 12 reads the first restrictions_list_size entries. *)
ListReadable(t) ==
    /\ restrictions_list[t] # Null
    /\ heap[restrictions_list[t]].kind = "scr"
    /\ Len(heap[restrictions_list[t]].list) >= restrictions_list_size[t]

Entry(t, k) == heap[restrictions_list[t]].list[k]

(* The first entry for num decides (lines 13-28). *)
Forbidden(t, num) ==
    /\ log_list[t] # Null
    /\ \E k \in 1 .. restrictions_list_size[t] :
          /\ Entry(t, k).syscall_num = num
          /\ Entry(t, k).restriction_threshold > proc_restriction_level[t]
          /\ \A j \in 1 .. k - 1 : Entry(t, j).syscall_num # num

(* A system call of t that entry.S turns away: it is logged.  While         *)
(* another's sc_restrict() on t sleeps the check reads a list that is      *)
(* freed, or not written yet, and may find anything there.                 *)
SyscallForbidden(t, num) ==
    /\ InUser(t)
    /\ restrictions_list_size[t] >= 1
    /\ restrictions_list[t] # Null /\ log_list[t] # Null
    /\ ListReadable(t) => Forbidden(t, num)
    /\ log_list_size[t] < MaxLogged
    /\ log_list_size' = [log_list_size EXCEPT ![t] = @ + 1]
    /\ fault' = (fault \/ heap[log_list[t]] # Log)
    /\ UNCHANGED <<state, proc_restriction_level, restrictions_list,
                   restrictions_list_size, log_list, heap, call, policy,
                   unset, dangling, crossed>>

(* A system call whose check would read memory that is not the task's list.*)
SyscallFault(t) ==
    InUser(t) /\ restrictions_list_size[t] >= 1 /\ ~ListReadable(t)

(* Any other call passes the check and changes nothing here; one that      *)
(* follows a null pointer ends the task, as Exit() does.                   *)

------------------------------------------------------------------------------
(* MUTANT: the child keeps the copied pointers. *)
CopiedInChild(field, p, c, cleared) == [field EXCEPT ![c] = field[p]]

(* do_fork(): *p = *current, then lines 623-627 of fork.c clear the        *)
(* child's fields.                                                         *)
InChild(field, p, c, cleared) == [field EXCEPT ![c] = cleared]

Fork(p, c) ==
    /\ InUser(p) /\ state[c] = "free"
    /\ state' = [state EXCEPT ![c] = "running"]
    /\ proc_restriction_level' = [proc_restriction_level EXCEPT ![c] = 0]
    /\ restrictions_list' = InChild(restrictions_list, p, c, Null)
    /\ restrictions_list_size' = InChild(restrictions_list_size, p, c, 0)
    /\ log_list' = InChild(log_list, p, c, Null)
    /\ log_list_size' = [log_list_size EXCEPT ![c] = 0]
    /\ policy' = InChild(policy, p, c, <<>>)
    /\ unset' = unset \ {c}
    /\ UNCHANGED <<heap, call, fault, dangling, crossed>>

(* do_exit(): a zombie keeps its arrays.  FirstTask plays init's part and  *)
(* stays.                                                                  *)
Exit(t) ==
    /\ InUser(t) /\ t # FirstTask
    /\ state' = [state EXCEPT ![t] = "zombie"]
    /\ UNCHANGED <<fields, heap, call, fault, policy, unset, dangling, crossed>>

(* release_task(), lines 36-42 of exit.c *)
OwnBlocks(t) == {log_list[t], restrictions_list[t]} \ {Null}

(* Some task reaps t with wait4(), also while another holds a pointer to t *)
(* in a call.                                                              *)
ReleaseTask(t) ==
    /\ \E u \in Tasks \ {t} : InUser(u)
    /\ state[t] = "zombie"
    /\ heap' = Freed(heap, OwnBlocks(t))
    /\ fault' = (fault \/ BadFree(OwnBlocks(t)))
    /\ state' = [state EXCEPT ![t] = "free"]
    /\ crossed' = (crossed \/ InProgress(t) \/ LogAskedFor(t))
    /\ UNCHANGED <<fields, call, policy, unset, dangling>>

ScRestrict(t) ==
    \/ \E target \in Tasks, level \in Levels, list \in Lists :
          ScRestrictFree(t, target, level, list)
    \/ ScRestrictList(t) \/ ScRestrictNoList(t)
    \/ ScRestrictLog(t) \/ ScRestrictNoLog(t)
    \/ ScRestrictCopy(t)

Next ==
    \E t \in Tasks :
        \/ ScRestrict(t)
        \/ \E target \in Tasks, level \in Levels :
              SetProcRestriction(t, target, level)
        \/ \E target \in Tasks, size \in 0 .. MaxLogged : GetProcessLog(t, target, size)
        \/ GetProcessLogNoMemory(t) \/ GetProcessLogCopy(t) \/ GetProcessLogReturn(t)
        \/ \E num \in Syscalls : SyscallForbidden(t, num)
        \/ \E c \in Tasks : Fork(t, c)
        \/ Exit(t)
        \/ ReleaseTask(t)

Spec == Init /\ [][Next]_vars

------------------------------------------------------------------------------
(* PROPERTIES *)

(* What the code does not survive, in the terms of the properties:         *)
(*   unset     sc_restrict() on the task got no list, and kept the size of *)
(*             the old one, until it succeeds;                             *)
(*   dangling  it got no log, and left a pointer to a freed list;          *)
(*   crossed   it was called for a task while another call of it for the   *)
(*             same task slept, or a task was released that a sleeping     *)
(*             call works on.                                              *)
(* The properties say that nothing else misuses memory, whatever overlaps. *)
Intact == ~dangling /\ ~crossed

(* Every call of the check reads the list that belongs to the task, unless *)
(* another's call is about to replace it; no block is freed twice, and     *)
(* nothing is written to a freed one.                                      *)
MemorySafe ==
    Intact => /\ ~fault
              /\ \A t \in Tasks \ unset : SyscallFault(t) => InOthersCall(t)

Live == {t \in Tasks : Exists(t)}

(* The pointers that will be followed or freed: those of tasks, but for    *)
(* the list that a call in progress has freed and not yet replaced.        *)
Replacing(t) == \E u \in Tasks : call[u].at = "list" /\ call[u].target = t
Pointers == {<<t, restrictions_list[t], "list">> : t \in {u \in Live : ~Replacing(u)}}
            \cup {<<t, log_list[t], "log">> : t \in Live}
            \cup {<<t, call[t].to_usr, "buffer">> : t \in {u \in Live : call[u].at = "user"}}

(* Each allocated block is pointed to by exactly one field of one task, or *)
(* is the buffer of one call: a fork shares nothing, an override, an exit, *)
(* a release and an answer leak nothing, though the target of a call runs, *)
(* forks, is asked for its log and exits while the call sleeps.            *)
(* Nothing is freed twice, nor read or written when it is free.            *)
OneOwner ==
    /\ TypeOK /\ MemorySafe
    /\ Intact =>
          \A b \in Blocks : Cardinality({p \in Pointers : p[2] = b})
                               = IF heap[b] = Unused THEN 0 ELSE 1

PolicyForbids(t, num) ==
    \E k \in 1 .. Len(policy[t]) :
        /\ policy[t][k].syscall_num = num
        /\ policy[t][k].restriction_threshold > proc_restriction_level[t]
        /\ \A j \in 1 .. k - 1 : policy[t][j].syscall_num # num

(* What a task may call follows from the list of the last sc_restrict() on *)
(* it and its level alone: nothing of an overridden list, of a parent or   *)
(* of an earlier task in the same slot shows.                              *)
EnforcesPolicy ==
    Intact =>
        \A t \in Live \ unset, num \in Syscalls :
            ~InProgress(t) =>
                ((restrictions_list_size[t] >= 1 /\ Forbidden(t, num))
                    <=> PolicyForbids(t, num))
==============================================================================
