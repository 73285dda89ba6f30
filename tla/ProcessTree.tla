------------------------------ MODULE ProcessTree ------------------------------
(***************************************************************************)
(* The tree of processes that the restrictions of HW1 and the policies of  *)
(* HW2 hang on: do_fork() and get_pid() of fork.c, do_exit(), sys_wait4()  *)
(* and release_task() of exit.c, sys_setpgid() and sys_setsid() of sys.c.  *)
(*                                                                         *)
(* One processor, and a kernel that is not preempted: a handler is cut     *)
(* only where it sleeps.  do_fork() sleeps while it copies the parent's    *)
(* memory, do_exit() while it gives up what the task holds, sys_wait4()    *)
(* for a child and while it writes the status to the caller's memory.      *)
(***************************************************************************)
EXTENDS Integers, FiniteSets, FiniteSetsExt

CONSTANTS Tasks,         \* task structures
          Reaper,        \* child_reaper: init
          PID_MAX,       \* 0x8000
          FIRST_PID,     \* 300: where get_pid() starts again
          LastPid,       \* the last pid given to tasks that are gone
          Forks,         \* what callers of do_fork() ask for: [flags, signal]
          Waits,         \* what callers of sys_wait4() ask for: [pid, options]
          Traces,        \* is ptrace() used?
          MaxForks       \* bound of the model: calls of do_fork()

ASSUME ReaperAssumption == Reaper \in Tasks
ASSUME PidAssumption == /\ PID_MAX \in Nat /\ FIRST_PID \in Nat
                        /\ 1 < FIRST_PID /\ FIRST_PID < PID_MAX
                        /\ LastPid \in 1 .. PID_MAX - 1
ASSUME CallersAssumption ==
    /\ MaxForks \in Nat
    /\ Forks \subseteq [flags : SUBSET {"CLONE_PARENT", "CLONE_THREAD", "CLONE_PTRACE"},
                        signal : {"SIGCHLD", "other"}]
    /\ Traces \in BOOLEAN

Pids == 1 .. PID_MAX - 1
InitPid == 1

VARIABLES task,          \* the fields of each task structure
          call,          \* where each task is in the kernel
          last_pid, next_safe,
          forks,         \* how many calls of do_fork() there were
          released,      \* release_task() was called for a task that was
                         \* not a zombie any more
          excused        \* history: what happened that the properties do
                         \* not cover

vars == <<task, call, last_pid, next_safe, forks, released, excused>>

User == [at |-> "user"]

Linked(T) == {t \in Tasks : T[t].state \notin {"free", "embryo"}}
AllLinked == Linked(task)

Ids(T, who) == UNION {{T[t].pid, T[t].pgrp, T[t].tgid, T[t].session} : t \in who}

(* exit_code is kept of stopped tasks: "zero" when the stop was reported,   *)
(* else "told" or "untold": was the present parent notified of the stop?   *)
TypeOK ==
    /\ task \in [Tasks -> [state : {"free", "embryo", "running", "stopped", "zombie"},
                           pid : Pids, tgid : Pids, pgrp : Pids, session : Pids,
                           leader : BOOLEAN, exiting : BOOLEAN,
                           exit_signal : {"SIGCHLD", "other"},
                           exit_code : {"zero", "told", "untold"},
                           ptraced : BOOLEAN, p_pptr : Tasks, p_opptr : Tasks]]
    /\ \A t \in Tasks :
          /\ call[t].at \in {"user", "fork", "asleep", "woken", "status", "report"}
          /\ call[t].at # "user" => task[t].state = "running"
          /\ call[t].at = "fork" => task[call[t].child].state = "embryo"
    /\ last_pid \in Pids
    /\ next_safe \in FIRST_PID .. PID_MAX
    /\ forks \in 0 .. MaxForks
    /\ released \in BOOLEAN
    /\ excused \subseteq {"exhausted", "unseen", "moved", "retyped", "handed", "shared"}

Unused == [state |-> "free", pid |-> InitPid, tgid |-> InitPid, pgrp |-> InitPid,
           session |-> InitPid, leader |-> FALSE, exiting |-> FALSE,
           exit_signal |-> "SIGCHLD", exit_code |-> "zero", ptraced |-> FALSE, p_pptr |-> Reaper, p_opptr |-> Reaper]

(* init runs, and leads a session of its own; others came and went. *)
Init ==
    /\ task = [t \in Tasks |-> IF t = Reaper
                               THEN [Unused EXCEPT !.state = "running", !.leader = TRUE]
                               ELSE Unused]
    /\ call = [t \in Tasks |-> User]
    /\ last_pid = LastPid
    /\ next_safe = PID_MAX
    /\ forks = 0
    /\ released = FALSE
    /\ excused = {}

(* t is about to enter the kernel. *)
InUser(t) == /\ task[t].state = "running" /\ ~task[t].exiting
             /\ call[t] = User

(* init forks and waits; it does nothing else to the tree, and stays.      *)
Program(t) == InUser(t) /\ t # Reaper

------------------------------------------------------------------------------
(* get_pid() *)

(* The ids that lines 109-112 and 122-129 compare with. *)
InUse(T, who) == Ids(T, who)

(* The pids that lines 99-121 try, in their order: past the last one the   *)
(* search starts again above the pids of the daemons.                      *)
Tried(k) == LET n == last_pid + 1 + k
            IN  IF n < PID_MAX THEN n
                ELSE FIRST_PID + ((n - PID_MAX) % (PID_MAX - FIRST_PID))

(* The scan of the task list: the number of the first pid tried that is    *)
(* not among ids.  The search ends when it is back at its beginning.       *)
FirstFree(ids) ==
    {k \in 0 .. PID_MAX : /\ Tried(k) \notin ids
                          /\ \A j \in 0 .. k - 1 : Tried(j) \in ids
                          /\ \A j \in 1 .. k : Tried(j) # last_pid}

(* Lines 105 and 122-129 *)
SafeAbove(p, ids) == Min({PID_MAX} \cup {id \in ids : id > p})

(* MUTANT: next_safe itself is taken to be safe. *)
QuickOneTooFar == last_pid + 1 < PID_MAX /\ last_pid + 1 <= next_safe

(* Line 103: between last_pid and next_safe no id is in use, and the task  *)
(* list is not looked at.                                                  *)
Quick == last_pid + 1 < PID_MAX /\ last_pid + 1 < next_safe

(* What get_pid() returns and leaves: nothing when there is no pid left.   *)
Found(ids) ==
    IF Quick THEN {[pid |-> last_pid + 1, safe |-> next_safe]}
    ELSE {[pid |-> Tried(k), safe |-> SafeAbove(Tried(k), ids)] : k \in FirstFree(ids)}

Embryos == {t \in Tasks : task[t].state = "embryo"}
GetPid == Found(InUse(task, AllLinked))

------------------------------------------------------------------------------
(* do_fork() *)

(* Lines 618-728: the copy of the parent, with a pid, that no list shows.  *)
Embryo(t, pid, clone) ==
    [task[t] EXCEPT !.state = "embryo", !.pid = pid, !.leader = FALSE,
                    !.exit_signal = clone.signal,
                    !.ptraced = @ /\ "CLONE_PTRACE" \in clone.flags]

(* The history notes an answer that the ids of other embryos would change. *)
ForkStart(t, c, clone) ==
    /\ InUser(t) /\ task[c].state = "free" /\ forks < MaxForks
    /\ forks' = forks + 1
    /\ \E f \in GetPid :
          /\ task' = [task EXCEPT ![c] = Embryo(t, f.pid, clone)]
          /\ last_pid' = f.pid
          /\ next_safe' = f.safe
          /\ excused' = IF f \in Found(Ids(task, AllLinked \cup Embryos))
                        THEN excused ELSE excused \cup {"unseen"}
    /\ call' = [call EXCEPT ![t] = [at |-> "fork", child |-> c, flags |-> clone.flags]]
    /\ UNCHANGED released

(* Lines 138-141: no pid is left.  next_safe is what the scan made of it,  *)
(* and may be beyond an id that is in use.                                 *)
ForkNoPid(t) ==
    /\ InUser(t) /\ GetPid = {}
    /\ \E safe \in {PID_MAX} \cup {id \in InUse(task, AllLinked) : id > last_pid} :
          next_safe' = Max({safe, FIRST_PID})
    /\ excused' = excused \cup {"exhausted"}
    /\ UNCHANGED <<task, call, last_pid, forks, released>>

(* Lines 803-822: a copy failed. *)
ForkFail(t) ==
    /\ call[t].at = "fork"
    /\ task' = [task EXCEPT ![call[t].child] = Unused]
    /\ call' = [call EXCEPT ![t] = User]
    /\ UNCHANGED <<last_pid, next_safe, forks, released, excused>>

(* Lines 761-777: the parents are those that t has now. *)
Born(t, c) ==
    LET flags == call[t].flags
        father == "CLONE_PARENT" \notin flags
    IN  [task[c] EXCEPT
            !.state = "running",
            !.tgid = IF "CLONE_THREAD" \in flags THEN task[t].tgid ELSE task[c].pid,
            !.p_opptr = IF father THEN t ELSE task[t].p_opptr,
            !.p_pptr = IF father /\ ~task[c].ptraced THEN t ELSE task[t].p_pptr]

ForkLink(t) ==
    /\ call[t].at = "fork"
    /\ task' = [task EXCEPT ![call[t].child] = Born(t, call[t].child)]
    /\ call' = [call EXCEPT ![t] = User]
    /\ UNCHANGED <<last_pid, next_safe, forks, released, excused>>

------------------------------------------------------------------------------
(* Process groups and sessions *)

(* A stopped task changes, or its parent, while somebody waits and is not  *)
(* told.                                                                   *)
Untold(exit_code) ==
    IF exit_code = "told" /\ \E t \in Tasks : call[t].at = "asleep"
    THEN "untold" ELSE exit_code

(* Lines 847-884 of sys.c, for a child that has not called exec. *)
MaySetPgid(t, p, pgid) ==
    /\ t \in {p, task[p].p_pptr, task[p].p_opptr}
    /\ p # t => task[p].session = task[t].session
    /\ ~task[p].leader
    /\ pgid # task[p].pid =>
          \E q \in AllLinked : task[q].pgrp = pgid /\ task[q].session = task[t].session

SetPgid(t, p, pgid) ==
    /\ Program(t) /\ p \in AllLinked
    /\ MaySetPgid(t, p, pgid)
    /\ task' = [task EXCEPT ![p].pgrp = pgid, ![p].exit_code = Untold(@)]
    /\ excused' = IF task[p].pgrp # pgid /\ (call[p] # User \/ task[p].state = "zombie")
                  THEN excused \cup {"moved"} ELSE excused
    /\ UNCHANGED <<call, last_pid, next_safe, forks, released>>

(* MUTANT: the session is the only one that is asked for. *)
NoSuchSession(t) == \A q \in AllLinked : task[q].session # task[t].pid

(* Lines 945-948 of sys.c *)
MaySetSid(t) == \A q \in AllLinked : task[q].pgrp # task[t].pid

SetSid(t) ==
    /\ Program(t) /\ MaySetSid(t)
    /\ task' = [task EXCEPT ![t].leader = TRUE, ![t].session = task[t].pid,
                            ![t].pgrp = task[t].pid]
    /\ UNCHANGED <<call, last_pid, next_safe, forks, released, excused>>

------------------------------------------------------------------------------
(* Signals and tracing, as far as exit.c sees them. *)

Group(T, t) == {s \in Linked(T) : T[s].tgid = T[t].tgid}

(* MUTANT: the other threads of the parent are not woken. *)
NotifiedParentOnly(T, parents) ==
    [t \in Tasks |-> IF call[t].at = "asleep" /\ t \in parents
                     THEN [call[t] EXCEPT !.at = "woken"] ELSE call[t]]

(* do_notify_parent() wakes the threads of the parents that sleep in       *)
(* sys_wait4().                                                            *)
Notified(T, parents) ==
    [t \in Tasks |-> IF call[t].at = "asleep" /\ \E p \in parents : t \in Group(T, p)
                     THEN [call[t] EXCEPT !.at = "woken"] ELSE call[t]]

(* The parent's handler of SIGCHLD has no SA_NOCLDSTOP. *)
Stop(t) ==
    /\ Program(t)
    /\ task' = [task EXCEPT ![t].state = "stopped", ![t].exit_code = "told"]
    /\ call' = Notified(task, {task[t].p_pptr})
    /\ UNCHANGED <<last_pid, next_safe, forks, released, excused>>

Running(task_t) == [task_t EXCEPT !.state = "running", !.exit_code = "zero"]

Continued(T, groups) ==
    [t \in Tasks |-> IF T[t].state = "stopped" /\ T[t].pgrp \in groups
                     THEN Running(T[t]) ELSE T[t]]

Continue(t) ==
    /\ task[t].state = "stopped"
    /\ task' = [task EXCEPT ![t] = Running(@)]
    /\ UNCHANGED <<call, last_pid, next_safe, forks, released, excused>>

(* A tracer takes the place of the parent, not of the original one. *)
PtraceAttach(t, c) ==
    /\ Traces /\ Program(t) /\ c \notin {t, Reaper}
    /\ task[c].state \in {"running", "stopped"} /\ ~task[c].exiting
    /\ ~task[c].ptraced
    /\ task' = [task EXCEPT ![c].p_pptr = t, ![c].ptraced = TRUE,
                            ![c].exit_code = Untold(@)]
    /\ UNCHANGED <<call, last_pid, next_safe, forks, released, excused>>

PtraceDetach(t, c) ==
    /\ InUser(t) /\ task[c].state = "stopped"
    /\ task[c].ptraced /\ task[c].p_pptr = t
    /\ task' = [task EXCEPT ![c] = [Running(@) EXCEPT !.p_pptr = task[c].p_opptr,
                                                     !.ptraced = FALSE]]
    /\ UNCHANGED <<call, last_pid, next_safe, forks, released, excused>>

------------------------------------------------------------------------------
(* do_exit() *)

(* Line 511; then tsk gives up its memory and files, and may sleep. *)
ExitStart(t) ==
    /\ Program(t)
    /\ task' = [task EXCEPT ![t].exiting = TRUE]
    /\ UNCHANGED <<call, last_pid, next_safe, forks, released, excused>>

(* MUTANT: a thread that exits itself is taken for a reaper. *)
AnyThread(t) == LET others == Group(task, t) \ {t}
                IN  IF others = {} THEN {Reaper} ELSE others

(* Lines 225-233: the next thread that is not exiting, or init. *)
ReapersOf(t) == LET others == {s \in Group(task, t) \ {t} : ~task[s].exiting}
                IN  IF others = {} THEN {Reaper} ELSE others

(* Lines 235-251 of forget_original_parent() *)
Forgotten(t, reaper) ==
    [p \in Tasks |->
        IF p \in AllLinked /\ task[p].p_opptr = t
        THEN [task[p] EXCEPT !.exit_signal = "SIGCHLD",
                             !.exit_code = Untold(@),
                             !.p_opptr = IF p = reaper THEN Reaper ELSE reaper]
        ELSE task[p]]

(* Lines 102-110: p ties its group to a parent in the session. *)
Connected(T, p, pgrp) ==
    LET father == T[T[p].p_pptr]
    IN  /\ T[p].pgrp = pgrp /\ T[p].state # "zombie" /\ father.pid # InitPid
        /\ father.pgrp # pgrp /\ father.session = T[p].session

WillBecomeOrphaned(T, pgrp, ignored) ==
    \A p \in Linked(T) \ ignored : ~Connected(T, p, pgrp)

HasStoppedJobs(T, pgrp) ==
    \E p \in Linked(T) : T[p].pgrp = pgrp /\ T[p].state = "stopped"

(* MUTANT: t, that is not a zombie yet, holds its own group. *)
OwnGroupHeld(T, t) ==
    LET father == T[T[t].p_pptr]
    IN  IF /\ father.pgrp # T[t].pgrp /\ father.session = T[t].session
           /\ WillBecomeOrphaned(T, T[t].pgrp, {})
        THEN {T[t].pgrp} ELSE {}

(* Lines 424-430.  Case i: t was the only connection of its group. *)
OwnGroup(T, t) ==
    LET father == T[T[t].p_pptr]
    IN  IF /\ father.pgrp # T[t].pgrp /\ father.session = T[t].session
           /\ WillBecomeOrphaned(T, T[t].pgrp, {t})
        THEN {T[t].pgrp} ELSE {}

Children(T, t) == {p \in Linked(T) : T[p].p_pptr = t}

(* Lines 467-475: the children go to their original parents. *)
Released(T, t) ==
    [p \in Tasks |-> IF p \in Children(T, t)
                     THEN [T[p] EXCEPT !.p_pptr = T[p].p_opptr, !.ptraced = FALSE,
                                       !.exit_code = Untold(@)]
                     ELSE T[p]]

(* Lines 486-494.  Case ii: t was the only connection of a child's group.  *)
(* When the last child of a group is given away the check is of the group  *)
(* as it stays.                                                            *)
ChildGroups(T, t) ==
    {T[p].pgrp : p \in {c \in Children(T, t) : /\ T[c].pgrp # T[t].pgrp
                                               /\ T[c].session = T[t].session}}

Stayed(T, groups) == {g \in groups : WillBecomeOrphaned(T, g, {})}

(* t forgets a zombie that another traces and that reports by SIGCHLD from *)
(* now on: a tracer that waits for such zombies is not told.               *)
Retyped(t) ==
    IF \E p \in AllLinked : /\ task[p].state = "zombie" /\ task[p].exit_signal # "SIGCHLD"
                           /\ task[p].p_opptr = t /\ task[p].p_pptr # t
    THEN {"retyped"} ELSE {}

(* t gives a zombie away, from a caller of sys_wait4() that has found it    *)
(* and will release it, to a thread group that may find it too.            *)
Handed(T, t) ==
    IF \E s \in Tasks : /\ call[s].at = "status" /\ T[call[s].child].p_pptr = t
                        /\ T[call[s].child].p_opptr \notin Group(T, s)
    THEN {"handed"} ELSE {}

(* exit_notify(), without a sleep, and schedule() for good.  Lines 448-452 *)
(* depend on what was executed: signal is what they leave.                 *)
ExitNotify(t) ==
    /\ task[t].state = "running" /\ task[t].exiting
    /\ \E reaper \in ReapersOf(t), signal \in {"SIGCHLD", task[t].exit_signal} :
          LET T1 == Forgotten(t, reaper)
              T2 == Continued(T1, OwnGroup(T1, t))
              T3 == [T2 EXCEPT ![t].state = "zombie", ![t].exit_signal = signal]
              T4 == Released(T3, t)
              dead == {p \in Children(T3, t) : T3[p].state = "zombie"}
          IN  /\ task' = Continued(T4, Stayed(T4, ChildGroups(T3, t)))
              /\ call' = Notified(T4, {T3[t].p_pptr} \cup {T4[p].p_pptr : p \in dead})
              /\ excused' = excused \cup Retyped(t) \cup Handed(T1, t)
    /\ UNCHANGED <<last_pid, next_safe, forks, released>>

------------------------------------------------------------------------------
(* sys_wait4() *)

(* Lines 594-603 *)
Asked(t, p, want) ==
    \/ want.pid = -1
    \/ want.pid > 0 /\ task[p].pid = want.pid
    \/ want.pid = 0 /\ task[p].pgrp = task[t].pgrp
    \/ want.pid < -1 /\ task[p].pgrp = -want.pid

(* Lines 609-611 *)
KindAsked(p, want) ==
    \/ "__WALL" \in want.options
    \/ (task[p].exit_signal # "SIGCHLD") <=> ("__WCLONE" \in want.options)

(* MUTANT: the tasks that somebody traces are reaped by both parents. *)
MatchingOriginal(t, want) ==
    LET parents == IF "__WNOTHREAD" \in want.options THEN {t} ELSE Group(task, t)
    IN  {p \in AllLinked : /\ {task[p].p_pptr, task[p].p_opptr} \cap parents # {}
                           /\ Asked(t, p, want) /\ KindAsked(p, want)}

(* Lines 591-613: the children that flag is set for. *)
Matching(t, want) ==
    LET parents == IF "__WNOTHREAD" \in want.options THEN {t} ELSE Group(task, t)
    IN  {p \in AllLinked : /\ task[p].p_pptr \in parents
                           /\ Asked(t, p, want) /\ KindAsked(p, want)}

Zombies(t, want) == {p \in Matching(t, want) : task[p].state = "zombie"}

(* Lines 614-618 *)
Reportable(t, want) ==
    {p \in Matching(t, want) :
        /\ task[p].state = "stopped" /\ task[p].exit_code # "zero"
        /\ "WUNTRACED" \in want.options \/ task[p].ptraced}

(* t finds a zombie that another thread of its group has found, and has    *)
(* not released yet: nothing in the scan tells.                            *)
Shared(t, p) ==
    IF \E s \in Group(task, t) \ {t} : call[s].at = "status" /\ call[s].child = p
    THEN {"shared"} ELSE {}

(* The scan finds a child, and the copies to the caller may sleep. *)
Scan(t, want) ==
    LET found == Zombies(t, want) \cup Reportable(t, want)
    IN  \/ \E p \in Zombies(t, want) :
              /\ call' = [call EXCEPT ![t] = [at |-> "status", child |-> p]]
              /\ excused' = excused \cup Shared(t, p)
        \/ \E p \in Reportable(t, want) :
              /\ call' = [call EXCEPT ![t] = [at |-> "report", child |-> p]]
              /\ UNCHANGED excused
        \/ /\ found = {} /\ Matching(t, want) # {}
           /\ "WNOHANG" \notin want.options
           /\ call' = [call EXCEPT ![t] = [at |-> "asleep", want |-> want]]
           /\ UNCHANGED excused
        \/ /\ found = {}
           /\ Matching(t, want) = {} \/ "WNOHANG" \in want.options
           /\ call' = [call EXCEPT ![t] = User]
           /\ UNCHANGED excused

(* Lines 585-667 *)
Wait4(t, want) ==
    /\ InUser(t)
    /\ Scan(t, want)
    /\ UNCHANGED <<task, last_pid, next_safe, forks, released>>

(* Line 665 *)
Repeat(t) ==
    /\ call[t].at = "woken"
    /\ Scan(t, call[t].want)
    /\ UNCHANGED <<task, last_pid, next_safe, forks, released>>

(* Lines 661-663, and 620-623 or 634-637 when the copy to the caller fails. *)
Wait4Fails(t) ==
    /\ call[t].at \in {"asleep", "woken", "status", "report"}
    /\ call' = [call EXCEPT ![t] = User]
    /\ UNCHANGED <<task, last_pid, next_safe, forks, released, excused>>

(* Lines 623-627, whatever has become of the child while the copy slept.   *)
Report(t) ==
    /\ call[t].at = "report"
    /\ task' = [task EXCEPT ![call[t].child].exit_code = "zero"]
    /\ call' = [call EXCEPT ![t] = User]
    /\ UNCHANGED <<last_pid, next_safe, forks, released, excused>>

(* Line 638 *)
OwnChild(p) == task[p].p_opptr = task[p].p_pptr

(* Lines 637-646: the real parent is told, or the zombie is released.      *)
(* When that zombie is gone by then, memory of another task or of none is  *)
(* released; released notes it, and nothing is claimed from there on.      *)
Reap(t) ==
    LET p == call[t].child
    IN  /\ call[t].at = "status"
        /\ IF OwnChild(p)
           THEN /\ task' = [task EXCEPT ![p] = IF @.state = "zombie" THEN Unused ELSE @]
                /\ call' = [call EXCEPT ![t] = User]
                /\ released' = (released \/ task[p].state # "zombie")
           ELSE LET T == [task EXCEPT ![p].p_pptr = task[p].p_opptr]
                IN  /\ task' = T
                    /\ call' = [Notified(T, {T[p].p_pptr}) EXCEPT ![t] = User]
                    /\ UNCHANGED released
        /\ UNCHANGED <<last_pid, next_safe, forks, excused>>

Next ==
    \E t \in Tasks :
        \/ \E c \in Tasks, clone \in Forks : ForkStart(t, c, clone)
        \/ ForkNoPid(t) \/ ForkFail(t) \/ ForkLink(t)
        \/ \E p \in Tasks, pgid \in Pids : SetPgid(t, p, pgid)
        \/ SetSid(t)
        \/ Stop(t) \/ Continue(t)
        \/ \E c \in Tasks : PtraceAttach(t, c) \/ PtraceDetach(t, c)
        \/ ExitStart(t) \/ ExitNotify(t)
        \/ \E want \in Waits : Wait4(t, want)
        \/ Repeat(t) \/ Wait4Fails(t) \/ Report(t) \/ Reap(t)

Spec == Init /\ [][Next]_vars

------------------------------------------------------------------------------
(* PROPERTIES *)

(* A task that lives or waits to be reaped has parents that live: when a   *)
(* parent dies, its children go to a thread that is not dying, or to init. *)
Fathered ==
    \A t \in AllLinked :
        /\ task[t].p_opptr \in AllLinked /\ task[task[t].p_opptr].state # "zombie"
        /\ task[t].p_pptr \in AllLinked /\ task[task[t].p_pptr].state # "zombie"

(* That holds until the wrong task is released, as all that follows.       *)
ParentsLive == ~released => Fathered

(* No two tasks have the same pid, as long as some pid is free.            *)
PidsUnique ==
    /\ TypeOK
    /\ ~released /\ excused \cap {"exhausted", "unseen"} = {} =>
          \A t, u \in AllLinked : task[t].pid = task[u].pid => t = u

(* A process group is never part of two sessions (sys_setpgid() and        *)
(* sys_setsid() ask for that), and no pid is given out that is the id of a *)
(* group or of a session still: a task joins neither by its pid.           *)
GroupsInSessions ==
    ~released /\ excused \cap {"exhausted", "unseen", "moved"} = {} =>
        \A t, u \in AllLinked :
            task[t].pgrp = task[u].pgrp => task[t].session = task[u].session

(* No zombie is released twice, nor a task that is none, whoever waits:    *)
(* the tracer, the real parent and init never release the same zombie, and *)
(* the threads of one group do only where two of them find it before the   *)
(* first has released it (lines 631-646), or where a tracer exits that     *)
(* another thread of its group has found it for (lines 467-475).           *)
ReleasedOnce == excused \cap {"handed", "shared"} = {} => ~released

(* A caller of sys_wait4() does not sleep while there is a zombie for it,  *)
(* nor while a child is stopped whose stop it asked for and was told of.   *)
NoChildMissed ==
    excused \cap {"moved", "retyped", "handed", "shared"} = {} =>
        \A t \in Tasks : call[t].at = "asleep" =>
            /\ Zombies(t, call[t].want) = {}
            /\ \A p \in Reportable(t, call[t].want) : task[p].exit_code = "untold"

(* A process group is orphaned when the parent of each member is a member  *)
(* too, or is not of the session; init does not count.  When an exit       *)
(* leaves such a group, members that are stopped are woken (POSIX 3.2.2.2, *)
(* lines 412-419 and 455-462).                                             *)
Held(T, g) ==
    \E t \in Linked(T) :
        LET father == T[T[t].p_pptr]
        IN  /\ T[t].pgrp = g /\ T[t].state # "zombie"
            /\ father.pgrp # g /\ father.session = T[t].session
            /\ T[t].p_pptr # Reaper

LeftStopped(T) ==
    {g \in Pids : ~Held(T, g) /\ \E t \in Linked(T) : T[t].pgrp = g /\ T[t].state = "stopped"}

NoJobLeftStopped ==
    [][\A t \in Tasks :
          ~released /\ task[t].state = "running" /\ task'[t].state = "zombie" =>
              LeftStopped(task') \subseteq LeftStopped(task)]_vars
==============================================================================
