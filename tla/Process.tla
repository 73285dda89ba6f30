------------------------------- MODULE Process -------------------------------
(***************************************************************************)
(* The life of processes, composed of two modules: Credentials, with whom  *)
(* a process acts for and whom it is charged to, and Sharing, with what it *)
(* shares with others.  do_fork(), do_exit() and release_task() do their   *)
(* work on both: the child is one and the same, the charge comes before    *)
(* the copies, and is given back behind the last label of a failed fork.   *)
(* Calls are made by the current task of Sharing.                          *)
(***************************************************************************)
EXTENDS Credentials

CONSTANTS Idle, Structs, Clones

VARIABLES pc, clone_flags, pointer, refs, mm, active_mm, mms, lazy, current,
          vfork_done, done, lender, early, leaked

sharing == INSTANCE Sharing

ASSUME SharingAssumption == sharing!SharersAssumption /\ sharing!StructsAssumption

sharingVars == <<pc, clone_flags, pointer, refs, mm, active_mm, mms, lazy, current,
                 vfork_done, done, lender, early, leaked>>

processVars == <<vars, sharingVars>>

(* t is in user mode, where it makes calls. *)
InUser(t) == current = t /\ pc[t] = "user"

(* The calls that change credentials only. *)
CredentialCall(t) ==
    /\ InUser(t)
    /\ \/ IdCall(t)
       \/ \E e, p \in {{}, task[t].permitted} : CapSet(t, e, p)
       \/ ReparentToInit(t)
    /\ UNCHANGED sharingVars

ForkStarts(t, c, flags) == ForkStart(t, c) /\ sharing!ForkStart(t, c, flags)
ForkFails(t) == ForkFail(t) /\ sharing!ForkFail(t)
ForkLinks(t) == ForkLink(t) /\ sharing!ForkLink(t)

(* do_exit() keeps the credentials of a zombie for release_task(). *)
Exits(t) == Exit(t) /\ sharing!ExitNotify(t)
Releases(t) == Release(t) /\ sharing!Release(t)

Executes(t, uid, gid) == InUser(t) /\ Exec(t, uid, gid) /\ sharing!Exec(t)

(* What is about sharing only. *)
SharingStep(t) ==
    /\ \/ \E k \in sharing!Kinds : sharing!Copy(t, k) \/ sharing!ExitNext(t, k)
       \/ sharing!CopyMm(t) \/ sharing!CopyNamespace(t)
       \/ sharing!VforkReturn(t)
       \/ sharing!Exit(t) \/ sharing!Daemonize(t)
       \/ sharing!StartLazy(t) \/ sharing!EndLazy(t)
    /\ UNCHANGED vars

ProcessInit == Init /\ sharing!Init

ProcessStep ==
    \/ \E t \in Tasks :
          \/ SharingStep(t)
          \/ \E c \in Tasks, flags \in Clones : ForkStarts(t, c, flags)
          \/ ForkFails(t) \/ ForkLinks(t) \/ Exits(t) \/ Releases(t)
          \/ Executes(t, NoId, NoId)
    \/ \E next \in sharing!AllTasks : sharing!Switch(next) /\ UNCHANGED vars

CredentialStep ==
    \E t \in Tasks :
        \/ CredentialCall(t)
        \/ \E u \in AskedUids, g \in AskedGids : Executes(t, u, g)

ProcessNext == ProcessStep \/ CredentialStep

ProcessSpec == ProcessInit /\ [][ProcessNext]_processVars

------------------------------------------------------------------------------
(* PROPERTIES, besides those of Credentials *)

(* Files, file system context and handlers are freed with their last user, *)
(* the tasks in the making counted as far as they are made.                *)
SharingExact == sharing!SharingExact

(* The page tables in use are those of memory that is not freed. *)
MemoryCounted == sharing!MemoryCounted

(* A parent sleeps for its vfork child exactly while that needs it to. *)
VforkHandshake == sharing!VforkHandshake
==============================================================================
