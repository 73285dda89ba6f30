------------------------------ MODULE Credentials ------------------------------
(***************************************************************************)
(* The credentials of processes: the set*id() calls of sys.c with the      *)
(* capabilities that follow from them, prctl(PR_SET_KEEPCAPS), and the     *)
(* processes that each user is charged for by do_fork(), set_user(),       *)
(* release_task() and reparent_to_init().                                  *)
(*                                                                         *)
(* A call is one step: the kernel is not preempted, and the calls change   *)
(* the current task and atomic counters only.  A call that fails changes   *)
(* nothing: set_user() comes before all other changes.  do_fork() sleeps   *)
(* between the charge and the link.                                        *)
(*                                                                         *)
(* issecure() is FALSE, as it is unless the kernel is built with other     *)
(* securebits.  mm->dumpable is left out.                                  *)
(***************************************************************************)
EXTENDS Integers, FiniteSets

CONSTANTS Tasks, FirstTask,
          None,
          Uids, Gids,
          Caps,            \* the capabilities, among them the following
          CAP_SETUID, CAP_SETGID, CAP_SYS_RESOURCE,
          CAP_FS_MASK,     \* those that go with fsuid
          NPROC            \* rlim[RLIMIT_NPROC].rlim_cur

Root == 0
NoId == -1                 \* (uid_t) -1: leave it as it is

ASSUME TasksAssumption == FirstTask \in Tasks /\ None \notin Tasks
ASSUME FiniteAssumption == IsFiniteSet(Tasks)
ASSUME IdsAssumption == /\ Uids \subseteq Nat /\ Root \in Uids
                        /\ Gids \subseteq Nat /\ Root \in Gids
ASSUME CapsAssumption == /\ {CAP_SETUID, CAP_SETGID, CAP_SYS_RESOURCE} \subseteq Caps
                         /\ CAP_FS_MASK \subseteq Caps
ASSUME NprocAssumption == NPROC \in Nat

VARIABLES task,            \* the credentials in each task_struct
          child,           \* the task that t makes in do_fork()
          processes,       \* of each user_struct
          count,           \* __count of each user_struct
          reach,           \* history: the ids that t can have, by what it
                           \* had when it lost its last capability
          kept,            \* history: tasks that may have capabilities
                           \* without a root id, because they asked for it
          miscounted       \* history: a thread of another user than root
                           \* was made one of root

vars == <<task, child, processes, count, reach, kept, miscounted>>

TypeOK ==
    /\ task \in [Tasks -> [state : {"free", "embryo", "live", "zombie"},
                           uid : Uids, euid : Uids, suid : Uids, fsuid : Uids,
                           gid : Gids, egid : Gids, sgid : Gids, fsgid : Gids,
                           effective : SUBSET Caps, permitted : SUBSET Caps,
                           keep_capabilities : BOOLEAN, user : Uids]]
    /\ child \in [Tasks -> Tasks \cup {None}]
    /\ processes \in [Uids -> Int]
    /\ count \in [Uids -> Int]
    /\ reach \in [Tasks -> [uids : SUBSET Uids, gids : SUBSET Gids]]
    /\ kept \subseteq Tasks
    /\ miscounted \in BOOLEAN

(* INIT_TASK: the first process is root's, with all capabilities. *)
InitTask ==
    [state |-> "live", uid |-> Root, euid |-> Root, suid |-> Root, fsuid |-> Root,
     gid |-> Root, egid |-> Root, sgid |-> Root, fsgid |-> Root,
     effective |-> Caps, permitted |-> Caps, keep_capabilities |-> FALSE,
     user |-> Root]

Unused == [InitTask EXCEPT !.state = "free"]

Everything == [uids |-> Uids, gids |-> Gids]

Init ==
    /\ task = [t \in Tasks |-> IF t = FirstTask THEN InitTask ELSE Unused]
    /\ child = [t \in Tasks |-> None]
    /\ processes = [u \in Uids |-> IF u = Root THEN 1 ELSE 0]
    /\ count = [u \in Uids |-> IF u = Root THEN 1 ELSE 0]
    /\ reach = [t \in Tasks |-> Everything]
    /\ kept = {}
    /\ miscounted = FALSE

UidsOf(p) == {p.uid, p.euid, p.suid, p.fsuid}
GidsOf(p) == {p.gid, p.egid, p.sgid, p.fsgid}

(* t is in user mode, and about to make a call. *)
Calls(t) == task[t].state = "live" /\ child[t] = None

capable(t, cap) == cap \in task[t].effective

ReachNow(p) == IF p.permitted # {} THEN Everything
               ELSE [uids |-> UidsOf(p), gids |-> GidsOf(p)]

(* The history of a task that becomes p: a task without capabilities stays *)
(* where it was.                                                           *)
ReachAfter(t, p) == IF task[t].permitted = {} /\ p.permitted = {}
                    THEN reach[t] ELSE ReachNow(p)

Becomes(t, p) ==
    /\ task' = [task EXCEPT ![t] = p]
    /\ reach' = [reach EXCEPT ![t] = ReachAfter(t, p)]

------------------------------------------------------------------------------
(* User ids *)

Ids3(p) == {p.uid, p.euid, p.suid}
Rootless(p) == Root \notin Ids3(p)

(* MUTANT: a root id other than the effective one is not looked at. *)
DropsFromEffective(old, new) ==
    old.euid = Root /\ Rootless(new) /\ ~new.keep_capabilities

(* Lines 495-497: the last root id is given up. *)
Drops(old, new) ==
    Root \in Ids3(old) /\ Rootless(new) /\ ~new.keep_capabilities

(* cap_emulate_setxuid(): new is old with other ids. *)
cap_emulate_setxuid(old, new) ==
    LET permitted == IF Drops(old, new) THEN {} ELSE old.permitted
        effective ==
            IF old.euid # Root /\ new.euid = Root THEN permitted
            ELSE IF Drops(old, new) \/ (old.euid = Root /\ new.euid # Root) THEN {}
            ELSE old.effective
    IN  [new EXCEPT !.permitted = permitted, !.effective = effective]

(* MUTANT: the old user keeps the charge. *)
ChargedTwice(from, to, f) == [f EXCEPT ![to] = @ + 1]

(* set_user(): one user less, the other one more. *)
Moved(from, to, f) == [[f EXCEPT ![to] = @ + 1] EXCEPT ![from] = @ - 1]

(* set_user() is called when the real id changes.  alloc_uid() takes a     *)
(* reference, and free_uid() gives the one to the old user back.           *)
SetUser(t, new) ==
    IF new.uid = task[t].uid THEN UNCHANGED <<processes, count>>
    ELSE /\ processes' = Moved(task[t].user, new.uid, processes)
         /\ count' = Moved(task[t].user, new.uid, count)

(* The end of setreuid(), setuid() and setresuid(): fsuid follows euid.    *)
SetUids(t, uid, euid, suid) ==
    LET p == task[t]
        new == [p EXCEPT !.uid = uid, !.euid = euid, !.suid = suid, !.fsuid = euid,
                         !.user = IF uid = p.uid THEN @ ELSE uid]
    IN  /\ Becomes(t, cap_emulate_setxuid(p, new))
        /\ SetUser(t, new)
        /\ UNCHANGED <<child, kept, miscounted>>

Or(asked, old) == IF asked = NoId THEN old ELSE asked

SetReUid(t, ruid, euid) ==
    LET p == task[t]
        new_euid == Or(euid, p.euid)
    IN  /\ Calls(t)
        /\ ruid \in {NoId, p.uid, p.euid} \/ capable(t, CAP_SETUID)
        /\ euid \in {NoId, p.uid, p.euid, p.suid} \/ capable(t, CAP_SETUID)
        /\ SetUids(t, Or(ruid, p.uid), new_euid,
                   IF ruid # NoId \/ (euid # NoId /\ euid # p.uid)
                   THEN new_euid ELSE p.suid)

SetUid(t, uid) ==
    LET p == task[t]
    IN  /\ Calls(t)
        /\ \/ capable(t, CAP_SETUID) /\ SetUids(t, uid, uid, uid)
           \/ /\ ~capable(t, CAP_SETUID) /\ uid \in {p.uid, p.suid}
              /\ SetUids(t, p.uid, uid, p.suid)

(* MUTANT: only the id of root is guarded. *)
OnlyRootGuarded(t, id) == id # Root \/ id \in Ids3(task[t]) \/ capable(t, CAP_SETUID)

(* Lines 652-662 *)
MaySet(t, id) == id \in {NoId} \cup Ids3(task[t]) \/ capable(t, CAP_SETUID)

SetResUid(t, ruid, euid, suid) ==
    LET p == task[t]
    IN  /\ Calls(t)
        /\ MaySet(t, ruid) /\ MaySet(t, euid) /\ MaySet(t, suid)
        /\ SetUids(t, Or(ruid, p.uid), Or(euid, p.euid), Or(suid, p.suid))

(* Lines 773-781: only the capabilities about files go with fsuid. *)
FsCapabilities(old, fsuid) ==
    IF old.fsuid = Root /\ fsuid # Root THEN old.effective \ CAP_FS_MASK
    ELSE IF old.fsuid # Root /\ fsuid = Root
         THEN old.effective \cup (old.permitted \cap CAP_FS_MASK)
    ELSE old.effective

SetFsUid(t, uid) ==
    LET p == task[t]
    IN  /\ Calls(t)
        /\ uid \in UidsOf(p) \/ capable(t, CAP_SETUID)
        /\ Becomes(t, [p EXCEPT !.fsuid = uid, !.effective = FsCapabilities(p, uid)])
        /\ UNCHANGED <<child, processes, count, kept, miscounted>>

------------------------------------------------------------------------------
(* Group ids *)

SetGids(t, gid, egid, sgid) ==
    /\ Becomes(t, [task[t] EXCEPT !.gid = gid, !.egid = egid, !.sgid = sgid,
                                  !.fsgid = egid])
    /\ UNCHANGED <<child, processes, count, kept, miscounted>>

SetReGid(t, rgid, egid) ==
    LET p == task[t]
        new_egid == Or(egid, p.egid)
    IN  /\ Calls(t)
        /\ rgid \in {NoId, p.gid, p.egid} \/ capable(t, CAP_SETGID)
        /\ egid \in {NoId, p.gid, p.egid, p.sgid} \/ capable(t, CAP_SETGID)
        /\ SetGids(t, Or(rgid, p.gid), new_egid,
                   IF rgid # NoId \/ (egid # NoId /\ egid # p.gid)
                   THEN new_egid ELSE p.sgid)

SetGid(t, gid) ==
    LET p == task[t]
    IN  /\ Calls(t)
        /\ \/ capable(t, CAP_SETGID) /\ SetGids(t, gid, gid, gid)
           \/ /\ ~capable(t, CAP_SETGID) /\ gid \in {p.gid, p.sgid}
              /\ SetGids(t, p.gid, gid, p.sgid)

SetResGid(t, rgid, egid, sgid) ==
    LET p == task[t]
        mine == {NoId, p.gid, p.egid, p.sgid}
    IN  /\ Calls(t)
        /\ {rgid, egid, sgid} \subseteq mine \/ capable(t, CAP_SETGID)
        /\ SetGids(t, Or(rgid, p.gid), Or(egid, p.egid), Or(sgid, p.sgid))

SetFsGid(t, gid) ==
    /\ Calls(t)
    /\ gid \in GidsOf(task[t]) \/ capable(t, CAP_SETGID)
    /\ Becomes(t, [task[t] EXCEPT !.fsgid = gid])
    /\ UNCHANGED <<child, processes, count, kept, miscounted>>

------------------------------------------------------------------------------
(* Capabilities *)

(* prctl(PR_SET_KEEPCAPS) *)
KeepCaps(t, keep) ==
    /\ Calls(t)
    /\ Becomes(t, [task[t] EXCEPT !.keep_capabilities = keep])
    /\ kept' = IF keep THEN kept \cup {t} ELSE kept
    /\ UNCHANGED <<child, processes, count, miscounted>>

(* capset(): a process raises, lowers or gives up its capabilities. *)
CapSet(t, effective, permitted) ==
    /\ Calls(t)
    /\ effective \subseteq permitted /\ permitted \subseteq task[t].permitted
    /\ Becomes(t, [task[t] EXCEPT !.effective = effective, !.permitted = permitted])
    /\ UNCHANGED <<child, processes, count, kept, miscounted>>

(* exec() of a program that belongs to uid and gid, if it is set-id: root  *)
(* ids give capabilities.                                                  *)
Exec(t, uid, gid) ==
    LET p == task[t]
        euid == Or(uid, p.euid)
        egid == Or(gid, p.egid)
        new == [p EXCEPT !.euid = euid, !.suid = euid, !.fsuid = euid,
                         !.egid = egid, !.sgid = egid, !.fsgid = egid,
                         !.keep_capabilities = FALSE,
                         !.permitted = IF Root \in {p.uid, euid} THEN Caps ELSE {},
                         !.effective = IF euid = Root THEN Caps ELSE {}]
    IN  /\ Calls(t)
        /\ task' = [task EXCEPT ![t] = new]
        /\ reach' = [reach EXCEPT ![t] = ReachNow(new)]
        /\ kept' = kept \ {t}
        /\ UNCHANGED <<child, processes, count, miscounted>>

(* reparent_to_init() of a kernel thread.  The count of the user is not    *)
(* looked after.                                                           *)
ReparentToInit(t) ==
    LET p == task[t]
    IN  /\ Calls(t)
        /\ Becomes(t, [p EXCEPT !.effective = Caps, !.permitted = Caps,
                                !.keep_capabilities = FALSE, !.user = Root])
        /\ kept' = kept \cup {t}
        /\ miscounted' = (miscounted \/ p.user # Root)
        /\ UNCHANGED <<child, processes, count>>

------------------------------------------------------------------------------
(* Processes *)

(* Lines 633-638 of fork.c, with the sign of the change. *)
Charged(u, n, f) == [f EXCEPT ![u] = @ + n]

(* Lines 618-641 of fork.c: a copy of t, that its user is charged for.     *)
(* CAP_SYS_RESOURCE stands for CAP_SYS_ADMIN, too, either of which will do *)
(* and neither of which the model uses for anything else.                  *)
ForkStart(t, c) ==
    LET p == task[t]
    IN  /\ Calls(t) /\ task[c].state = "free"
        /\ processes[p.user] < NPROC \/ capable(t, CAP_SYS_RESOURCE)
        /\ task' = [task EXCEPT ![c] = [p EXCEPT !.state = "embryo"]]
        /\ child' = [child EXCEPT ![t] = c]
        /\ processes' = Charged(p.user, 1, processes)
        /\ count' = Charged(p.user, 1, count)
        /\ reach' = [reach EXCEPT ![c] = reach[t]]
        /\ kept' = IF t \in kept THEN kept \cup {c} ELSE kept \ {c}
        /\ UNCHANGED miscounted

(* A task structure is given back, with what its user was charged. *)
Freed(c) ==
    /\ task' = [task EXCEPT ![c] = Unused]
    /\ processes' = Charged(task[c].user, -1, processes)
    /\ count' = Charged(task[c].user, -1, count)
    /\ reach' = [reach EXCEPT ![c] = Everything]
    /\ kept' = kept \ {c}

(* Lines 799-819 of fork.c: a copy failed. *)
ForkFail(t) ==
    /\ child[t] # None
    /\ Freed(child[t])
    /\ child' = [child EXCEPT ![t] = None]
    /\ UNCHANGED miscounted

ForkLink(t) ==
    /\ child[t] # None
    /\ task' = [task EXCEPT ![child[t]].state = "live"]
    /\ child' = [child EXCEPT ![t] = None]
    /\ UNCHANGED <<processes, count, reach, kept, miscounted>>

Exit(t) ==
    /\ Calls(t) /\ t # FirstTask
    /\ task' = [task EXCEPT ![t].state = "zombie"]
    /\ UNCHANGED <<child, processes, count, reach, kept, miscounted>>

(* release_task() *)
Release(t) ==
    /\ task[t].state = "zombie"
    /\ Freed(t)
    /\ UNCHANGED <<child, miscounted>>

AskedUids == Uids \cup {NoId}
AskedGids == Gids \cup {NoId}

(* The calls of process t about itself. *)
IdCall(t) ==
    \/ \E r, e \in AskedUids : SetReUid(t, r, e)
    \/ \E u \in Uids : SetUid(t, u) \/ SetFsUid(t, u)
    \/ \E r, e, s \in AskedUids : SetResUid(t, r, e, s)
    \/ \E r, e \in AskedGids : SetReGid(t, r, e)
    \/ \E g \in Gids : SetGid(t, g) \/ SetFsGid(t, g)
    \/ \E r, e, s \in AskedGids : SetResGid(t, r, e, s)
    \/ \E keep \in BOOLEAN : KeepCaps(t, keep)

Next ==
    \E t \in Tasks :
        \/ IdCall(t)
        \/ \E e, p \in {{}, task[t].permitted} : CapSet(t, e, p)
        \/ \E u \in AskedUids, g \in AskedGids : Exec(t, u, g)
        \/ ReparentToInit(t)
        \/ \E c \in Tasks : ForkStart(t, c)
        \/ ForkFail(t) \/ ForkLink(t) \/ Exit(t) \/ Release(t)

Spec == Init /\ [][Next]_vars

------------------------------------------------------------------------------
(* PROPERTIES *)

Present == {t \in Tasks : task[t].state # "free"}

(* Effective capabilities are permitted ones, and a process none of whose  *)
(* three user ids is root's has none at all and does not use files as root *)
(* ("fsuid == 0 and {r,e,s}uid != 0 should never happen", lines 477-478).  *)
(* Processes that asked to keep their capabilities are excepted.           *)
PowerlessWithoutRoot ==
    \A t \in Present :
        /\ task[t].effective \subseteq task[t].permitted
        /\ Rootless(task[t]) /\ t \notin kept =>
              task[t].permitted = {} /\ task[t].fsuid # Root

(* "This makes it possible for a setuid program to completely drop its     *)
(* privileges": from the loss of the last capability to the next exec, the *)
(* ids of a process are among those that it had then.                      *)
IdsWithinReach ==
    \A t \in Present :
        /\ UidsOf(task[t]) \subseteq reach[t].uids
        /\ GidsOf(task[t]) \subseteq reach[t].gids

ChargedTo(u) == {t \in Present : task[t].user = u}

(* A user is charged for its processes, those in the making and those that *)
(* are not reaped yet, whatever failed and whatever ids were set.  Its     *)
(* user_struct has one reference for each, so that it lives as long.       *)
ChargesExact ==
    ~miscounted =>
        \A u \in Uids : /\ processes[u] = Cardinality(ChargedTo(u))
                        /\ count[u] = Cardinality(ChargedTo(u))
==============================================================================
