-------------------------- MODULE ProcessTreeProofs --------------------------
(***************************************************************************)
(* Proofs about ProcessTree, for any number of tasks, any range of pids    *)
(* and any calls: every task has parents that live, pids are unique, a     *)
(* process group is in one session, a zombie is released once, and nobody  *)
(* sleeps in sys_wait4() while there is a child for it.                    *)
(***************************************************************************)
EXTENDS ProcessTree, WellFoundedInduction, TLAPS

Flags == {"CLONE_PARENT", "CLONE_THREAD", "CLONE_PTRACE"}
Excuses == {"exhausted", "unseen", "moved", "retyped", "handed", "shared"}

TaskStruct == [state : {"free", "embryo", "running", "stopped", "zombie"},
               pid : Pids, tgid : Pids, pgrp : Pids, session : Pids,
               leader : BOOLEAN, exiting : BOOLEAN,
               exit_signal : {"SIGCHLD", "other"},
               exit_code : {"zero", "told", "untold"},
               ptraced : BOOLEAN, p_pptr : Tasks, p_opptr : Tasks]

Calls == {User} \cup [at : {"fork"}, child : Tasks, flags : SUBSET Flags]
                \cup [at : {"asleep", "woken"}, want : Waits]
                \cup [at : {"status", "report"}, child : Tasks]

Shapes ==
    /\ task \in [Tasks -> TaskStruct]
    /\ call \in [Tasks -> Calls]
    /\ last_pid \in Pids
    /\ next_safe \in FIRST_PID .. PID_MAX
    /\ forks \in 0 .. MaxForks
    /\ released \in BOOLEAN
    /\ excused \subseteq Excuses

(* Who is in the kernel runs and is not about to die; init always runs.    *)
Places ==
    /\ \A t \in Tasks : call[t] # User => task[t].state = "running" /\ ~task[t].exiting
    /\ \A t \in Tasks : task[t].state = "zombie" => task[t].exiting
    /\ task[Reaper].state = "running" /\ ~task[Reaper].exiting

(* Each embryo is the child of one call of do_fork(). *)
Forking ==
    /\ \A t \in Tasks : call[t].at = "fork" => task[call[t].child].state = "embryo"
    /\ \A t, u \in Tasks : call[t].at = "fork" /\ call[u].at = "fork"
                           /\ call[t].child = call[u].child => t = u
    /\ \A c \in Embryos : \E t \in Tasks : call[t].at = "fork" /\ call[t].child = c

Base == Shapes /\ Places /\ Forking /\ Fathered

Living == {t \in Tasks : task[t].state # "free"}

------------------------------------------------------------------------------
(* Facts about get_pid() *)

LEMMA LeastNat ==
    ASSUME NEW S \in SUBSET Nat, S # {}
    PROVE  \E m \in S : \A n \in S : m <= n
<1> DEFINE R == OpToRel(<, Nat)
<1>1. IsWellFoundedOn(R, Nat)
  BY NatLessThanWellFounded
<1> HIDE DEF R
<1>2. PICK x \in S : \A y \in S : ~ (<<y, x>> \in R)
  BY <1>1, WFMin
<1>3. \A y \in S : y < x => <<y, x>> \in R
  BY DEF R, OpToRel
<1>4. \A y \in S : ~ (y < x)
  BY <1>2, <1>3
<1>5. \A y \in S : x <= y
  BY <1>4
<1> QED  BY <1>5

LEMMA PidsAreNat == Pids \subseteq Nat /\ \A p \in Pids : 1 <= p /\ p < PID_MAX
BY PidAssumption DEF Pids

(* Min() of the community modules, of the ids above a pid: no id lies      *)
(* between the two.                                                        *)
LEMMA SafeAboveBound ==
    ASSUME NEW ids \in SUBSET Pids, NEW p \in Pids
    PROVE  /\ SafeAbove(p, ids) \in p + 1 .. PID_MAX
           /\ \A id \in ids : id > p => id >= SafeAbove(p, ids)
<1> DEFINE S == {PID_MAX} \cup {id \in ids : id > p}
<1>1. S \in SUBSET Nat /\ S # {}
  BY PidsAreNat, PidAssumption
<1>2. \E m \in S : \A n \in S : m <= n
  BY <1>1, LeastNat
<1>3. Min(S) \in S /\ \A n \in S : Min(S) <= n
  BY <1>2 DEF Min
<1>4. SafeAbove(p, ids) = Min(S)
  BY DEF SafeAbove
<1> HIDE DEF S
<1>5. Min(S) \in Nat /\ p < Min(S) /\ Min(S) <= PID_MAX
  BY <1>3, PidsAreNat, PidAssumption DEF S
<1>6. \A id \in ids : id > p => id >= Min(S)
  BY <1>3, <1>5, PidsAreNat DEF S
<1> QED  BY <1>4, <1>5, <1>6, PidsAreNat, PidAssumption

LEMMA TriedRange ==
    ASSUME Shapes, NEW k \in Nat
    PROVE  /\ Tried(k) \in Pids
           /\ last_pid + 1 + k >= FIRST_PID => Tried(k) >= FIRST_PID
<1> DEFINE n == last_pid + 1 + k
           d == PID_MAX - FIRST_PID
<1>1. n \in Nat /\ n >= 1 /\ d \in Nat \ {0}
  BY PidAssumption DEF Shapes, Pids
<1>2. CASE n < PID_MAX
  BY <1>1, <1>2, PidAssumption DEF Tried, Pids
<1>3. CASE n >= PID_MAX
  <2>1. (n - PID_MAX) \in Nat
    BY <1>1, <1>3, PidAssumption
  <2>2. (n - PID_MAX) % d \in 0 .. d - 1
    <3> HIDE DEF n, d
    <3>1. ASSUME NEW a \in Nat PROVE a % d \in 0 .. d - 1
      BY <1>1
    <3> QED  BY <2>1, <3>1
  <2>3. Tried(k) = FIRST_PID + ((n - PID_MAX) % d)
    BY <1>1, <1>3, PidAssumption DEF Tried
  <2> QED  BY <2>2, <2>3, PidAssumption DEF Pids
<1> QED  BY <1>1, <1>2, <1>3, PidAssumption

(* The answer of get_pid(), and no id among ids is in the gap it leaves,   *)
(* when none was in the gap before.                                        *)
LEMMA FoundPid ==
    ASSUME Shapes, NEW ids \in SUBSET Pids, NEW f \in Found(ids)
    PROVE  /\ f.pid \in Pids /\ f.safe \in FIRST_PID .. PID_MAX
           /\ (\A id \in ids : ~(last_pid < id /\ id < next_safe)) =>
                 /\ f.pid \notin ids
                 /\ \A id \in ids : ~(f.pid < id /\ id < f.safe)
<1>1. CASE Quick
  BY <1>1, PidAssumption DEF Found, Quick, Shapes, Pids
<1>2. CASE ~Quick
  <2>1. PICK k \in FirstFree(ids) :
           f = [pid |-> Tried(k), safe |-> SafeAbove(Tried(k), ids)]
    BY <1>2 DEF Found
  <2>2. k \in Nat /\ Tried(k) \notin ids
    BY <2>1, PidAssumption DEF FirstFree
  <2>3. last_pid + 1 >= FIRST_PID
    BY <1>2, PidAssumption DEF Quick, Shapes, Pids
  <2>4. Tried(k) \in Pids /\ Tried(k) >= FIRST_PID
    BY <2>2, <2>3, TriedRange, PidAssumption DEF Shapes, Pids
  <2>5. SafeAbove(Tried(k), ids) \in Tried(k) + 1 .. PID_MAX
        /\ \A id \in ids : id > Tried(k) => id >= SafeAbove(Tried(k), ids)
    BY <2>4, SafeAboveBound
  <2> QED  BY <2>1, <2>2, <2>4, <2>5, PidAssumption DEF Pids
<1> QED  BY <1>1, <1>2

------------------------------------------------------------------------------
(* Base is inductive *)

LEMMA InitBase == Init => Base
<1> SUFFICES ASSUME Init PROVE Base
  OBVIOUS
<1> USE PidAssumption, CallersAssumption, ReaperAssumption
<1>1. InitPid \in Pids
  BY DEF InitPid, Pids
<1>2. \A t \in Tasks : /\ task[t] \in TaskStruct
                       /\ ~task[t].exiting /\ call[t] = User
                       /\ task[t].state = IF t = Reaper THEN "running" ELSE "free"
                       /\ task[t].p_pptr = Reaper /\ task[t].p_opptr = Reaper
  BY <1>1 DEF Init, Unused, TaskStruct
<1>3. Shapes
  <2>1. task \in [Tasks -> TaskStruct] /\ call \in [Tasks -> Calls]
    BY <1>2 DEF Init, Calls
  <2>2. last_pid \in Pids /\ next_safe \in FIRST_PID .. PID_MAX
    BY DEF Init, Pids
  <2>3. forks \in 0 .. MaxForks /\ excused \subseteq Excuses
    BY DEF Init
  <2>4. released \in BOOLEAN
    BY DEF Init
  <2> QED  BY <2>1, <2>2, <2>3, <2>4 DEF Shapes
<1>4. Places /\ Forking
  BY <1>2 DEF Places, Forking, User, Embryos
<1>5. Fathered
  BY <1>2 DEF Fathered, AllLinked, Linked
<1> QED  BY <1>3, <1>4, <1>5 DEF Base

(* A call of a task: which fields there are. *)
LEMMA CallFields ==
    ASSUME Shapes, NEW t \in Tasks
    PROVE  /\ call[t].at = "user" <=> call[t] = User
           /\ call[t].at = "fork" => call[t].child \in Tasks /\ call[t].flags \in SUBSET Flags
           /\ call[t].at \in {"asleep", "woken"} =>
                 call[t].want \in Waits /\ call[t] = [at |-> call[t].at, want |-> call[t].want]
           /\ call[t].at \in {"status", "report"} => call[t].child \in Tasks
           /\ call[t].at \in {"user", "fork", "asleep", "woken", "status", "report"}
BY DEF Shapes, Calls, User

LEMMA UnusedType == Unused \in TaskStruct
BY PidAssumption, ReaperAssumption DEF Unused, TaskStruct, InitPid, Pids

LEMMA IdsArePids ==
    ASSUME Shapes, NEW who \in SUBSET Tasks
    PROVE  Ids(task, who) \in SUBSET Pids
BY DEF Shapes, TaskStruct, Ids

LEMMA ForkStartBase ==
    ASSUME Base, NEW t \in Tasks, NEW c \in Tasks, NEW clone \in Forks, ForkStart(t, c, clone)
    PROVE  Base'
<1> USE DEF Base
<1>1. PICK f \in GetPid :
          /\ task' = [task EXCEPT ![c] = Embryo(t, f.pid, clone)]
          /\ last_pid' = f.pid
          /\ next_safe' = f.safe
          /\ excused' = IF f \in Found(Ids(task, AllLinked \cup Embryos))
                        THEN excused ELSE excused \cup {"unseen"}
  BY DEF ForkStart
<1>2. f.pid \in Pids /\ f.safe \in FIRST_PID .. PID_MAX
  BY IdsArePids, FoundPid DEF GetPid, InUse, AllLinked, Linked
<1>3. /\ clone.flags \in SUBSET Flags /\ clone.signal \in {"SIGCHLD", "other"}
      /\ t # c /\ task[t].state = "running" /\ ~task[t].exiting
      /\ task[c].state = "free" /\ call[t] = User
      /\ call' = [call EXCEPT ![t] = [at |-> "fork", child |-> c, flags |-> clone.flags]]
      /\ forks < MaxForks /\ forks' = forks + 1 /\ released' = released
  BY CallersAssumption DEF ForkStart, InUser, Flags
<1>4. /\ task'[c] \in TaskStruct /\ task'[c].state = "embryo"
      /\ ~task'[c].exiting
      /\ \A p \in Tasks \ {c} : task'[p] = task[p]
  BY <1>1, <1>2, <1>3, ZenonT(60) DEF Shapes, TaskStruct, Embryo
<1>5. \A p \in Tasks \ {t} : call'[p] = call[p]
  BY <1>3 DEF Shapes
<1>6. call'[t] = [at |-> "fork", child |-> c, flags |-> clone.flags]
  BY <1>3 DEF Shapes
<1>7. Shapes'
  <2>1. task' \in [Tasks -> TaskStruct]
    BY <1>1, <1>4 DEF Shapes
  <2>2. call' \in [Tasks -> Calls]
    BY <1>3 DEF Shapes, Calls
  <2> QED  BY <2>1, <2>2, <1>1, <1>2, <1>3, CallersAssumption DEF Shapes, Excuses
<1>8. Places'
  BY <1>3, <1>4, <1>5, ReaperAssumption DEF Places
<1>9. Forking'
  <2>1. \A p \in Tasks : call[p].at = "fork" => call[p].child \in Tasks \ {c}
    BY <1>3, CallFields DEF Forking
  <2> QED  BY <1>3, <1>4, <1>5, <1>6, <2>1 DEF Forking, Embryos, User
<1>10. Fathered'
  BY <1>3, <1>4 DEF Fathered, AllLinked, Linked
<1> QED  BY <1>7, <1>8, <1>9, <1>10

LEMMA ForkNoPidBase ==
    ASSUME Base, NEW t \in Tasks, ForkNoPid(t)
    PROVE  Base'
<1> USE DEF Base
<1>1. PICK safe \in {PID_MAX} \cup {id \in InUse(task, AllLinked) : id > last_pid} :
          next_safe' = Max({safe, FIRST_PID})
  BY DEF ForkNoPid
<1>2. safe \in 1 .. PID_MAX
  BY <1>1, IdsArePids, PidAssumption DEF InUse, AllLinked, Linked, Pids
<1>3. Max({safe, FIRST_PID}) \in FIRST_PID .. PID_MAX
  <2>1. \E x \in {safe, FIRST_PID} : \A y \in {safe, FIRST_PID} : x >= y
    BY <1>2, PidAssumption
  <2> QED  BY <2>1, <1>2, PidAssumption DEF Max
<1>4. Shapes'
  BY <1>1, <1>3 DEF ForkNoPid, Shapes, Excuses
<1> QED  BY <1>4 DEF ForkNoPid, Places, Forking, Fathered, Embryos, AllLinked, Linked

LEMMA ForkFailBase ==
    ASSUME Base, NEW t \in Tasks, ForkFail(t)
    PROVE  Base'
<1> USE DEF Base
<1> DEFINE c == call[t].child
<1>1. /\ c \in Tasks /\ task[c].state = "embryo" /\ call[t].at = "fork"
      /\ task' = [task EXCEPT ![c] = Unused] /\ call' = [call EXCEPT ![t] = User]
      /\ UNCHANGED <<last_pid, next_safe, forks, released, excused>>
  BY CallFields DEF ForkFail, Forking
<1> HIDE DEF c
<1>2. /\ task'[c] = Unused /\ \A p \in Tasks \ {c} : task'[p] = task[p]
      /\ call'[t] = User /\ \A p \in Tasks \ {t} : call'[p] = call[p]
  BY <1>1 DEF Shapes
<1>3. Shapes'
  BY <1>1, UnusedType DEF Shapes, Calls
<1>4. Places'
  BY <1>1, <1>2, ReaperAssumption DEF Places, Unused
<1>5. Forking'
  <2>1. \A p \in Tasks \ {t} : call[p].at = "fork" => call[p].child \in Tasks \ {c}
    BY <1>1, CallFields DEF Forking, c
  <2> QED  BY <1>1, <1>2, <2>1 DEF Forking, Embryos, User, Unused, c
<1>6. Fathered'
  BY <1>1, <1>2 DEF Fathered, AllLinked, Linked, Unused
<1> QED  BY <1>3, <1>4, <1>5, <1>6

LEMMA ForkLinkBase ==
    ASSUME Base, NEW t \in Tasks, ForkLink(t)
    PROVE  Base'
<1> USE DEF Base
<1> DEFINE c == call[t].child
<1>1. /\ c \in Tasks /\ task[c].state = "embryo" /\ call[t].at = "fork"
      /\ task' = [task EXCEPT ![c] = Born(t, c)] /\ call' = [call EXCEPT ![t] = User]
      /\ UNCHANGED <<last_pid, next_safe, forks, released, excused>>
      /\ task[t].state = "running" /\ ~task[t].exiting
  BY CallFields DEF ForkLink, Forking, Places, User
<1> HIDE DEF c
<1>2. /\ Born(t, c) \in TaskStruct /\ Born(t, c).state = "running"
      /\ Born(t, c).p_opptr \in {t, task[t].p_opptr}
      /\ Born(t, c).p_pptr \in {t, task[t].p_pptr}
  BY <1>1, ZenonT(60) DEF Shapes, TaskStruct, Born
<1>3. /\ task'[c] = Born(t, c) /\ \A p \in Tasks \ {c} : task'[p] = task[p]
      /\ call'[t] = User /\ \A p \in Tasks \ {t} : call'[p] = call[p]
  BY <1>1 DEF Shapes
<1>4. Shapes'
  BY <1>1, <1>2 DEF Shapes, Calls
<1>5. Places'
  BY <1>1, <1>2, <1>3, ReaperAssumption DEF Places
<1>6. Forking'
  <2>1. \A p \in Tasks \ {t} : call[p].at = "fork" => call[p].child \in Tasks \ {c}
    BY <1>1, CallFields DEF Forking, c
  <2> QED  BY <1>1, <1>2, <1>3, <2>1 DEF Forking, Embryos, User, c
<1>7. Fathered'
  BY <1>1, <1>2, <1>3 DEF Fathered, AllLinked, Linked
<1> QED  BY <1>4, <1>5, <1>6, <1>7

(* What a handler may do to a task that it neither creates nor removes. *)
Gentle(p) ==
    /\ \/ task'[p].state = task[p].state
       \/ {task[p].state, task'[p].state} \subseteq {"running", "stopped"}
    /\ task[p].exiting => task'[p].exiting
    /\ task'[p].exiting = task[p].exiting \/ call'[p] = User
    /\ \/ task'[p].p_opptr = task[p].p_opptr \/ task[p].state \in {"free", "embryo"}
       \/ task[task'[p].p_opptr].state \in {"running", "stopped"}
    /\ \/ task'[p].p_pptr = task[p].p_pptr \/ task[p].state \in {"free", "embryo"}
       \/ task[task'[p].p_pptr].state \in {"running", "stopped"}
    /\ call'[p] = call[p] \/ (call[p].at # "fork" /\ call'[p].at # "fork")
    /\ call'[p] = call[p] \/ call'[p] = User \/ (task[p].state = "running" /\ ~task[p].exiting)
    /\ task'[p].state = task[p].state \/ call'[p] = User
    /\ p = Reaper => task'[p].state = "running" /\ ~task'[p].exiting

LEMMA BaseKept ==
    ASSUME Base, Shapes', \A p \in Tasks : Gentle(p)
    PROVE  Base'
<1> USE ReaperAssumption DEF Base, Gentle
<1>1. Places'
  <2>1. ASSUME NEW p \in Tasks, call'[p] # User
        PROVE  task'[p].state = "running" /\ ~task'[p].exiting
    BY <2>1 DEF Places
  <2>2. ASSUME NEW p \in Tasks, task'[p].state = "zombie" PROVE task'[p].exiting
    BY <2>2 DEF Places
  <2> QED  BY <2>1, <2>2 DEF Places
<1>2. Forking'
  <2>1. \A p \in Tasks : call'[p].at = "fork" => call[p].at = "fork" /\ call'[p] = call[p]
    OBVIOUS
  <2>2. \A p \in Tasks : call[p].at = "fork" => call'[p].at = "fork" /\ call'[p] = call[p]
    OBVIOUS
  <2>3. \A p \in Tasks : (task'[p].state = "embryo") <=> (task[p].state = "embryo")
    OBVIOUS
  <2>4. \A p \in Tasks : call[p].at = "fork" => call[p].child \in Tasks
    BY CallFields
  <2> QED  BY <2>1, <2>2, <2>3, <2>4 DEF Forking, Embryos
<1>3. Fathered'
  <2>1. ASSUME NEW p \in Tasks, task'[p].state \notin {"free", "embryo"}
        PROVE  /\ task[task'[p].p_opptr].state \notin {"free", "embryo", "zombie"}
               /\ task[task'[p].p_pptr].state \notin {"free", "embryo", "zombie"}
    BY <2>1 DEF Fathered, AllLinked, Linked
  <2>2. \A p \in Tasks : task'[p].p_opptr \in Tasks /\ task'[p].p_pptr \in Tasks
    BY DEF Shapes, TaskStruct
  <2>3. \A p \in Tasks : task[p].state \notin {"free", "embryo", "zombie"}
                         => task'[p].state \notin {"free", "embryo", "zombie"}
    OBVIOUS
  <2> QED  BY <2>1, <2>2, <2>3 DEF Fathered, AllLinked, Linked
<1> QED  BY <1>1, <1>2, <1>3

(* do_notify_parent() only wakes. *)
LEMMA NotifiedCalls ==
    ASSUME Shapes, NEW T, NEW parents
    PROVE  /\ Notified(T, parents) \in [Tasks -> Calls]
           /\ \A p \in Tasks : \/ Notified(T, parents)[p] = call[p]
                               \/ /\ call[p].at = "asleep"
                                  /\ Notified(T, parents)[p].at = "woken"
                                  /\ Notified(T, parents)[p].want = call[p].want
<1>1. ASSUME NEW p \in Tasks
      PROVE  \/ Notified(T, parents)[p] = call[p]
             \/ /\ call[p].at = "asleep"
                /\ Notified(T, parents)[p].at = "woken"
                /\ Notified(T, parents)[p].want = call[p].want
                /\ Notified(T, parents)[p] \in Calls
  <2>1. CASE call[p].at = "asleep"
    <3>1. call[p].want \in Waits /\ call[p] = [at |-> "asleep", want |-> call[p].want]
      BY <2>1, CallFields
    <3>2. PICK w \in Waits : w = call[p].want
      BY <3>1
    <3>3. [call[p] EXCEPT !.at = "woken"] = [at |-> "woken", want |-> w]
      BY <3>1, <3>2
    <3>4. \/ Notified(T, parents)[p] = call[p]
          \/ Notified(T, parents)[p] = [at |-> "woken", want |-> w]
      BY <2>1, <3>3 DEF Notified
    <3> QED  BY <2>1, <3>2, <3>4 DEF Calls
  <2>2. CASE call[p].at # "asleep"
    BY <2>2 DEF Notified
  <2> QED  BY <2>1, <2>2
<1>2. Notified(T, parents) = [p \in Tasks |-> Notified(T, parents)[p]]
  BY DEF Notified
<1> QED  BY <1>1, <1>2 DEF Shapes

LEMMA UntoldType ==
    ASSUME NEW e \in {"zero", "told", "untold"}
    PROVE  Untold(e) \in {"zero", "told", "untold"}
BY DEF Untold

(* What each handler does to the record of one task. *)
LEMMA SetPgidEffect ==
    ASSUME Shapes, NEW t \in Tasks, NEW p \in Tasks, NEW pgid \in Pids, SetPgid(t, p, pgid)
    PROVE  /\ task'[p] = [task[p] EXCEPT !.pgrp = pgid, !.exit_code = Untold(task[p].exit_code)]
           /\ \A q \in Tasks \ {p} : task'[q] = task[q]
           /\ Shapes'
<1>1. /\ task' = [task EXCEPT ![p].pgrp = pgid, ![p].exit_code = Untold(@)]
      /\ UNCHANGED <<call, last_pid, next_safe, forks, released>>
  BY DEF SetPgid
<1>2. excused' \subseteq excused \cup {"moved"}
  BY DEF SetPgid
<1>3. /\ task[p] \in TaskStruct /\ task \in [Tasks -> TaskStruct]
      /\ Untold(task[p].exit_code) \in {"zero", "told", "untold"}
  BY UntoldType DEF Shapes, TaskStruct
<1>4. [task[p] EXCEPT !.pgrp = pgid, !.exit_code = Untold(task[p].exit_code)] \in TaskStruct
  BY <1>3 DEF TaskStruct
<1>5. /\ task'[p] = [task[p] EXCEPT !.pgrp = pgid, !.exit_code = Untold(task[p].exit_code)]
      /\ \A q \in Tasks \ {p} : task'[q] = task[q]
  BY <1>1, <1>3 DEF TaskStruct
<1>6. task' \in [Tasks -> TaskStruct]
  BY <1>1, <1>3, <1>4, <1>5
<1> QED  BY <1>1, <1>2, <1>5, <1>6 DEF Shapes, Excuses

LEMMA SetSidEffect ==
    ASSUME Shapes, NEW t \in Tasks, SetSid(t)
    PROVE  /\ task'[t] = [task[t] EXCEPT !.leader = TRUE, !.session = task[t].pid,
                                         !.pgrp = task[t].pid]
           /\ \A q \in Tasks \ {t} : task'[q] = task[q]
           /\ Shapes'
<1>1. /\ task' = [task EXCEPT ![t].leader = TRUE, ![t].session = task[t].pid,
                              ![t].pgrp = task[t].pid]
      /\ UNCHANGED <<call, last_pid, next_safe, forks, released, excused>>
  BY DEF SetSid
<1>2. task[t] \in TaskStruct /\ task \in [Tasks -> TaskStruct]
  BY DEF Shapes
<1>3. [task[t] EXCEPT !.leader = TRUE, !.session = task[t].pid, !.pgrp = task[t].pid] \in TaskStruct
  BY <1>2 DEF TaskStruct
<1>4. /\ task'[t] = [task[t] EXCEPT !.leader = TRUE, !.session = task[t].pid,
                                    !.pgrp = task[t].pid]
      /\ \A q \in Tasks \ {t} : task'[q] = task[q]
  BY <1>1, <1>2 DEF TaskStruct
<1>5. task' \in [Tasks -> TaskStruct]
  BY <1>1, <1>2, <1>3, <1>4
<1> QED  BY <1>1, <1>4, <1>5 DEF Shapes

LEMMA ExitStartEffect ==
    ASSUME Shapes, NEW t \in Tasks, ExitStart(t)
    PROVE  /\ task'[t] = [task[t] EXCEPT !.exiting = TRUE]
           /\ \A q \in Tasks \ {t} : task'[q] = task[q]
           /\ Shapes'
<1>1. /\ task' = [task EXCEPT ![t].exiting = TRUE]
      /\ UNCHANGED <<call, last_pid, next_safe, forks, released, excused>>
  BY DEF ExitStart
<1>2. task[t] \in TaskStruct /\ task \in [Tasks -> TaskStruct]
  BY DEF Shapes
<1>3. [task[t] EXCEPT !.exiting = TRUE] \in TaskStruct
  BY <1>2 DEF TaskStruct
<1> QED  BY <1>1, <1>2, <1>3 DEF Shapes

LEMMA StopEffect ==
    ASSUME Shapes, NEW t \in Tasks, Stop(t)
    PROVE  /\ task'[t] = [task[t] EXCEPT !.state = "stopped", !.exit_code = "told"]
           /\ \A q \in Tasks \ {t} : task'[q] = task[q]
           /\ call' = Notified(task, {task[t].p_pptr})
           /\ Shapes'
<1>1. /\ task' = [task EXCEPT ![t].state = "stopped", ![t].exit_code = "told"]
      /\ call' = Notified(task, {task[t].p_pptr})
      /\ UNCHANGED <<last_pid, next_safe, forks, released, excused>>
  BY DEF Stop
<1>2. task[t] \in TaskStruct /\ task \in [Tasks -> TaskStruct]
  BY DEF Shapes
<1>3. [task[t] EXCEPT !.state = "stopped", !.exit_code = "told"] \in TaskStruct
  BY <1>2 DEF TaskStruct
<1>4. /\ task'[t] = [task[t] EXCEPT !.state = "stopped", !.exit_code = "told"]
      /\ \A q \in Tasks \ {t} : task'[q] = task[q]
  BY <1>1, <1>2 DEF TaskStruct
<1>5. task' \in [Tasks -> TaskStruct]
  BY <1>1, <1>2, <1>3, <1>4
<1>6. call' \in [Tasks -> Calls]
  BY <1>1, NotifiedCalls
<1> QED  BY <1>1, <1>4, <1>5, <1>6 DEF Shapes

LEMMA ContinueEffect ==
    ASSUME Shapes, NEW t \in Tasks, Continue(t)
    PROVE  /\ task'[t] = [task[t] EXCEPT !.state = "running", !.exit_code = "zero"]
           /\ \A q \in Tasks \ {t} : task'[q] = task[q]
           /\ Shapes'
<1>1. /\ task' = [task EXCEPT ![t] = [task[t] EXCEPT !.state = "running", !.exit_code = "zero"]]
      /\ UNCHANGED <<call, last_pid, next_safe, forks, released, excused>>
  BY DEF Continue, Running
<1>3. task[t] \in TaskStruct /\ task \in [Tasks -> TaskStruct]
  BY DEF Shapes
<1>4. [task[t] EXCEPT !.state = "running", !.exit_code = "zero"] \in TaskStruct
  BY <1>3 DEF TaskStruct
<1> QED  BY <1>1, <1>3, <1>4 DEF Shapes, Excuses

LEMMA AttachEffect ==
    ASSUME Shapes, NEW t \in Tasks, NEW c \in Tasks, PtraceAttach(t, c)
    PROVE  /\ task'[c] = [task[c] EXCEPT !.p_pptr = t, !.ptraced = TRUE,
                                         !.exit_code = Untold(task[c].exit_code)]
           /\ \A q \in Tasks \ {c} : task'[q] = task[q]
           /\ Shapes'
<1>1. /\ task' = [task EXCEPT ![c].p_pptr = t, ![c].ptraced = TRUE,
                              ![c].exit_code = Untold(@)]
      /\ UNCHANGED <<call, last_pid, next_safe, forks, released, excused>>
  BY DEF PtraceAttach
<1>2. /\ task[c] \in TaskStruct /\ task \in [Tasks -> TaskStruct]
      /\ Untold(task[c].exit_code) \in {"zero", "told", "untold"}
  BY UntoldType DEF Shapes, TaskStruct
<1>3. [task[c] EXCEPT !.p_pptr = t, !.ptraced = TRUE,
                      !.exit_code = Untold(task[c].exit_code)] \in TaskStruct
  BY <1>2 DEF TaskStruct
<1>4. /\ task'[c] = [task[c] EXCEPT !.p_pptr = t, !.ptraced = TRUE,
                                    !.exit_code = Untold(task[c].exit_code)]
      /\ \A q \in Tasks \ {c} : task'[q] = task[q]
  BY <1>1, <1>2 DEF TaskStruct
<1>5. task' \in [Tasks -> TaskStruct]
  BY <1>1, <1>2, <1>3, <1>4
<1> QED  BY <1>1, <1>4, <1>5 DEF Shapes

LEMMA DetachEffect ==
    ASSUME Shapes, NEW t \in Tasks, NEW c \in Tasks, PtraceDetach(t, c)
    PROVE  /\ task'[c] = [task[c] EXCEPT !.state = "running", !.exit_code = "zero",
                                         !.p_pptr = task[c].p_opptr, !.ptraced = FALSE]
           /\ \A q \in Tasks \ {c} : task'[q] = task[q]
           /\ Shapes'
<1>1. /\ task' = [task EXCEPT ![c] = [Running(task[c]) EXCEPT !.p_pptr = task[c].p_opptr,
                                                              !.ptraced = FALSE]]
      /\ UNCHANGED <<call, last_pid, next_safe, forks, released, excused>>
  BY DEF PtraceDetach
<1>3. task[c] \in TaskStruct /\ task \in [Tasks -> TaskStruct]
  BY DEF Shapes
<1>4. [Running(task[c]) EXCEPT !.p_pptr = task[c].p_opptr, !.ptraced = FALSE]
      = [task[c] EXCEPT !.state = "running", !.exit_code = "zero",
                        !.p_pptr = task[c].p_opptr, !.ptraced = FALSE]
  BY <1>3 DEF Running, TaskStruct
<1>5. [task[c] EXCEPT !.state = "running", !.exit_code = "zero",
                      !.p_pptr = task[c].p_opptr, !.ptraced = FALSE] \in TaskStruct
  BY <1>3 DEF TaskStruct
<1> QED  BY <1>1, <1>3, <1>4, <1>5 DEF Shapes, Excuses

LEMMA ReportEffect ==
    ASSUME Shapes, NEW t \in Tasks, Report(t)
    PROVE  /\ call[t].child \in Tasks
           /\ task'[call[t].child] = [task[call[t].child] EXCEPT !.exit_code = "zero"]
           /\ \A q \in Tasks \ {call[t].child} : task'[q] = task[q]
           /\ call' = [call EXCEPT ![t] = User]
           /\ Shapes'
<1> DEFINE c == call[t].child
<1>1. /\ c \in Tasks
      /\ task' = [task EXCEPT ![c].exit_code = "zero"]
      /\ call' = [call EXCEPT ![t] = User]
      /\ UNCHANGED <<last_pid, next_safe, forks, released, excused>>
  BY CallFields DEF Report
<1> HIDE DEF c
<1>2. task[c] \in TaskStruct /\ task \in [Tasks -> TaskStruct]
  BY <1>1 DEF Shapes
<1>3. [task[c] EXCEPT !.exit_code = "zero"] \in TaskStruct
  BY <1>2 DEF TaskStruct
<1>4. Shapes'
  BY <1>1, <1>2, <1>3 DEF Shapes, Calls
<1> QED  BY <1>1, <1>2, <1>4 DEF c

(* The scan of sys_wait4() changes nothing but the caller's place, and     *)
(* what it notes of a zombie that another thread has found.                *)
LEMMA ScanEffect ==
    ASSUME Shapes, NEW t \in Tasks, NEW want \in Waits, Scan(t, want)
    PROVE  \E d \in Calls :
              /\ call' = [call EXCEPT ![t] = d]
              /\ \/ d = User /\ excused' = excused
                 \/ /\ d = [at |-> "asleep", want |-> want] /\ excused' = excused
                    /\ Zombies(t, want) = {} /\ Reportable(t, want) = {}
                 \/ \E p \in Zombies(t, want) :
                       d = [at |-> "status", child |-> p] /\ excused' = excused \cup Shared(t, p)
                 \/ \E p \in Reportable(t, want) :
                       d = [at |-> "report", child |-> p] /\ excused' = excused
<1> DEFINE found == Zombies(t, want) \cup Reportable(t, want)
<1>1. found \subseteq Tasks
  BY DEF Zombies, Reportable, Matching, AllLinked, Linked
<1>2. ASSUME NEW p \in Zombies(t, want),
             call' = [call EXCEPT ![t] = [at |-> "status", child |-> p]],
             excused' = excused \cup Shared(t, p)
      PROVE  \E d \in Calls :
                 call' = [call EXCEPT ![t] = d] /\ d = [at |-> "status", child |-> p]
  <2>1. [at |-> "status", child |-> p] \in Calls
    BY <1>1 DEF Calls
  <2> QED  BY <1>2, <2>1
<1>3. ASSUME NEW p \in Reportable(t, want),
             call' = [call EXCEPT ![t] = [at |-> "report", child |-> p]]
      PROVE  \E d \in Calls :
                 call' = [call EXCEPT ![t] = d] /\ d = [at |-> "report", child |-> p]
  <2>1. [at |-> "report", child |-> p] \in Calls
    BY <1>1 DEF Calls
  <2> QED  BY <1>3, <2>1
<1>4. [at |-> "asleep", want |-> want] \in Calls /\ User \in Calls
  BY DEF Calls
<1>5. \/ \E p \in Zombies(t, want) :
            /\ call' = [call EXCEPT ![t] = [at |-> "status", child |-> p]]
            /\ excused' = excused \cup Shared(t, p)
      \/ \E p \in Reportable(t, want) :
            /\ call' = [call EXCEPT ![t] = [at |-> "report", child |-> p]]
            /\ excused' = excused
      \/ /\ found = {} /\ excused' = excused
         /\ call' = [call EXCEPT ![t] = [at |-> "asleep", want |-> want]]
      \/ call' = [call EXCEPT ![t] = User] /\ excused' = excused
  BY DEF Scan
<1>6. found = {} => Zombies(t, want) = {} /\ Reportable(t, want) = {}
  OBVIOUS
<1> HIDE DEF found
<1> QED  BY <1>2, <1>3, <1>4, <1>5, <1>6

------------------------------------------------------------------------------
LEMMA JobsBase ==
    ASSUME Base, NEW t \in Tasks,
           \/ \E p \in Tasks, pgid \in Pids : SetPgid(t, p, pgid)
           \/ SetSid(t) \/ ExitStart(t) \/ Stop(t) \/ Continue(t)
           \/ \E c \in Tasks : PtraceAttach(t, c) \/ PtraceDetach(t, c)
    PROVE  Base'
<1>1. /\ Shapes /\ Places /\ Fathered
      /\ \A p \in Tasks : task[p] \in TaskStruct
      /\ \A p \in Tasks : call[p].at # "user" <=> call[p] # User
  BY CallFields DEF Base, Shapes
<1>2. ASSUME NEW p \in Tasks, NEW pgid \in Pids, SetPgid(t, p, pgid)
      PROVE  Base'
  <2>1. call' = call
    BY <1>1, <1>2 DEF SetPgid
  <2>3. /\ task'[p] = [task[p] EXCEPT !.pgrp = pgid, !.exit_code = Untold(task[p].exit_code)]
        /\ \A q \in Tasks \ {p} : task'[q] = task[q]
        /\ Shapes'
    BY <1>1, <1>2, SetPgidEffect
  <2>4. /\ task'[p].state = task[p].state
        /\ task'[p].exiting = task[p].exiting
        /\ task'[p].p_opptr = task[p].p_opptr
        /\ task'[p].p_pptr = task[p].p_pptr
    BY <1>1, <2>3 DEF TaskStruct
  <2>5. ASSUME NEW q \in Tasks PROVE Gentle(q)
    <3>1. CASE q = p
      BY <1>1, <2>1, <2>4, <3>1 DEF Gentle, Places, User
    <3>2. CASE q # p
      BY <1>1, <2>1, <2>3, <3>2 DEF Gentle, Places, User
    <3> QED  BY <3>1, <3>2
  <2> QED  BY <2>3, <2>5, BaseKept
<1>3. ASSUME SetSid(t)
      PROVE  Base'
  <2>1. call' = call
    BY <1>1, <1>3 DEF SetSid
  <2>3. /\ task'[t] = [task[t] EXCEPT !.leader = TRUE, !.session = task[t].pid,
                                      !.pgrp = task[t].pid]
        /\ \A q \in Tasks \ {t} : task'[q] = task[q]
        /\ Shapes'
    BY <1>1, <1>3, SetSidEffect
  <2>4. /\ task'[t].state = task[t].state
        /\ task'[t].exiting = task[t].exiting
        /\ task'[t].p_opptr = task[t].p_opptr
        /\ task'[t].p_pptr = task[t].p_pptr
    BY <1>1, <2>3 DEF TaskStruct
  <2>5. ASSUME NEW q \in Tasks PROVE Gentle(q)
    <3>1. CASE q = t
      BY <1>1, <2>1, <2>4, <3>1 DEF Gentle, Places, User
    <3>2. CASE q # t
      BY <1>1, <2>1, <2>3, <3>2 DEF Gentle, Places, User
    <3> QED  BY <3>1, <3>2
  <2> QED  BY <2>3, <2>5, BaseKept
<1>4. ASSUME ExitStart(t)
      PROVE  Base'
  <2>1. call' = call /\ call[t] = User /\ t # Reaper
    BY <1>1, <1>4 DEF ExitStart, Program, InUser
  <2>3. /\ task'[t] = [task[t] EXCEPT !.exiting = TRUE]
        /\ \A q \in Tasks \ {t} : task'[q] = task[q]
        /\ Shapes'
    BY <1>1, <1>4, ExitStartEffect
  <2>4. /\ task'[t].state = task[t].state
        /\ task'[t].exiting = TRUE
        /\ task'[t].p_opptr = task[t].p_opptr
        /\ task'[t].p_pptr = task[t].p_pptr
    BY <1>1, <2>3 DEF TaskStruct
  <2>5. ASSUME NEW q \in Tasks PROVE Gentle(q)
    <3>1. CASE q = t
      BY <1>1, <2>1, <2>4, <3>1 DEF Gentle, Places, User
    <3>2. CASE q # t
      BY <1>1, <2>1, <2>3, <3>2 DEF Gentle, Places, User
    <3> QED  BY <3>1, <3>2
  <2> QED  BY <2>3, <2>5, BaseKept
<1>5. ASSUME Stop(t)
      PROVE  Base'
  <2>1. call[t] = User /\ t # Reaper /\ task[t].state = "running"
    BY <1>1, <1>5 DEF Stop, Program, InUser
  <2>2. \A q \in Tasks : \/ call'[q] = call[q]
                         \/ call[q].at = "asleep" /\ call'[q].at = "woken"
    <3>1. call' = Notified(task, {task[t].p_pptr})
      BY <1>5 DEF Stop
    <3> DEFINE N == Notified(task, {task[t].p_pptr})
    <3>4. \A q \in Tasks : N[q] = call[q] \/ (call[q].at = "asleep" /\ N[q].at = "woken")
      BY <1>1, NotifiedCalls
    <3> HIDE DEF N
    <3>3. call' = N
      BY <3>1 DEF N
    <3> QED  BY <3>3, <3>4
  <2>3. /\ task'[t] = [task[t] EXCEPT !.state = "stopped", !.exit_code = "told"]
        /\ \A q \in Tasks \ {t} : task'[q] = task[q]
        /\ Shapes'
    BY <1>1, <1>5, StopEffect
  <2>4. /\ task'[t].state = "stopped"
        /\ task'[t].exiting = task[t].exiting
        /\ task'[t].p_opptr = task[t].p_opptr
        /\ task'[t].p_pptr = task[t].p_pptr
    BY <1>1, <2>3 DEF TaskStruct
  <2>5. ASSUME NEW q \in Tasks PROVE Gentle(q)
    <3>1. CASE q = t
      BY <1>1, <2>1, <2>2, <2>4, <3>1 DEF Gentle, Places, User
    <3>2. CASE q # t
      BY <1>1, <2>1, <2>2, <2>3, <3>2 DEF Gentle, Places, User
    <3> QED  BY <3>1, <3>2
  <2> QED  BY <2>3, <2>5, BaseKept
<1>6. ASSUME Continue(t)
      PROVE  Base'
  <2>1. call' = call /\ task[t].state = "stopped"
    BY <1>1, <1>6 DEF Continue
  <2>3. /\ task'[t] = [task[t] EXCEPT !.state = "running", !.exit_code = "zero"]
        /\ \A q \in Tasks \ {t} : task'[q] = task[q]
        /\ Shapes'
    BY <1>1, <1>6, ContinueEffect
  <2>4. /\ task'[t].state = "running"
        /\ task'[t].exiting = task[t].exiting
        /\ task'[t].p_opptr = task[t].p_opptr
        /\ task'[t].p_pptr = task[t].p_pptr
    BY <1>1, <2>3 DEF TaskStruct
  <2>5. ASSUME NEW q \in Tasks PROVE Gentle(q)
    <3>1. CASE q = t
      BY <1>1, <2>1, <2>4, <3>1 DEF Gentle, Places, User
    <3>2. CASE q # t
      BY <1>1, <2>1, <2>3, <3>2 DEF Gentle, Places, User
    <3> QED  BY <3>1, <3>2
  <2> QED  BY <2>3, <2>5, BaseKept
<1>7. ASSUME NEW c \in Tasks, PtraceAttach(t, c)
      PROVE  Base'
  <2>1. call' = call /\ task[t].state = "running"
    BY <1>1, <1>7 DEF PtraceAttach, Program, InUser
  <2>3. /\ task'[c] = [task[c] EXCEPT !.p_pptr = t, !.ptraced = TRUE,
                                      !.exit_code = Untold(task[c].exit_code)]
        /\ \A q \in Tasks \ {c} : task'[q] = task[q]
        /\ Shapes'
    BY <1>1, <1>7, AttachEffect
  <2>4. /\ task'[c].state = task[c].state
        /\ task'[c].exiting = task[c].exiting
        /\ task'[c].p_opptr = task[c].p_opptr
        /\ task'[c].p_pptr = t
    BY <1>1, <2>3 DEF TaskStruct
  <2>5. ASSUME NEW q \in Tasks PROVE Gentle(q)
    <3>1. CASE q = c
      BY <1>1, <2>1, <2>4, <3>1 DEF Gentle, Places, User
    <3>2. CASE q # c
      BY <1>1, <2>1, <2>3, <3>2 DEF Gentle, Places, User
    <3> QED  BY <3>1, <3>2
  <2> QED  BY <2>3, <2>5, BaseKept
<1>8. ASSUME NEW c \in Tasks, PtraceDetach(t, c)
      PROVE  Base'
  <2>1. call' = call /\ task[c].state = "stopped"
    BY <1>1, <1>8 DEF PtraceDetach
  <2>2. task[task[c].p_opptr].state \in {"running", "stopped"}
    BY <1>1, <2>1 DEF Fathered, AllLinked, Linked, TaskStruct
  <2>3. /\ task'[c] = [task[c] EXCEPT !.state = "running", !.exit_code = "zero",
                                      !.p_pptr = task[c].p_opptr, !.ptraced = FALSE]
        /\ \A q \in Tasks \ {c} : task'[q] = task[q]
        /\ Shapes'
    BY <1>1, <1>8, DetachEffect
  <2>4. /\ task'[c].state = "running"
        /\ task'[c].exiting = task[c].exiting
        /\ task'[c].p_opptr = task[c].p_opptr
        /\ task'[c].p_pptr = task[c].p_opptr
    BY <1>1, <2>3 DEF TaskStruct
  <2>5. ASSUME NEW q \in Tasks PROVE Gentle(q)
    <3>1. CASE q = c
      BY <1>1, <2>1, <2>2, <2>4, <3>1 DEF Gentle, Places, User
    <3>2. CASE q # c
      BY <1>1, <2>1, <2>2, <2>3, <3>2 DEF Gentle, Places, User
    <3> QED  BY <3>1, <3>2
  <2> QED  BY <2>3, <2>5, BaseKept
<1> QED  BY <1>2, <1>3, <1>4, <1>5, <1>6, <1>7, <1>8

LEMMA WaitBase ==
    ASSUME Base, NEW t \in Tasks,
           \/ \E want \in Waits : Wait4(t, want)
           \/ Repeat(t) \/ Wait4Fails(t) \/ Report(t)
    PROVE  Base'
<1>1. /\ Shapes /\ Places /\ task[Reaper].state = "running"
      /\ \A p \in Tasks : task[p] \in TaskStruct
      /\ \A p \in Tasks : call[p].at # "user" <=> call[p] # User
  BY CallFields DEF Base, Shapes, Places
<1>2. ASSUME NEW d \in Calls, call' = [call EXCEPT ![t] = d], d.at # "fork", call[t].at # "fork",
             task[t].state = "running", ~task[t].exiting,
             UNCHANGED <<task, last_pid, next_safe, forks, released>>, excused' \subseteq Excuses
      PROVE  Base'
  <2>1. Shapes'
    BY <1>1, <1>2 DEF Shapes
  <2>2. call'[t] = d /\ \A q \in Tasks \ {t} : call'[q] = call[q]
    BY <1>1, <1>2 DEF Shapes
  <2>3. \A q \in Tasks : Gentle(q)
    BY <1>1, <1>2, <2>2 DEF Gentle, Places
  <2> QED  BY <2>1, <2>3, BaseKept
<1>3. ASSUME NEW want \in Waits, Scan(t, want), task[t].state = "running", ~task[t].exiting, call[t].at # "fork",
             UNCHANGED <<task, last_pid, next_safe, forks, released>>
      PROVE  Base'
  <2>1. PICK d \in Calls :
              /\ call' = [call EXCEPT ![t] = d]
              /\ \/ d = User /\ excused' = excused
                 \/ /\ d = [at |-> "asleep", want |-> want] /\ excused' = excused
                    /\ Zombies(t, want) = {} /\ Reportable(t, want) = {}
                 \/ \E p \in Zombies(t, want) :
                       d = [at |-> "status", child |-> p] /\ excused' = excused \cup Shared(t, p)
                 \/ \E p \in Reportable(t, want) :
                       d = [at |-> "report", child |-> p] /\ excused' = excused
    BY <1>1, <1>3, ScanEffect
  <2>2. d.at # "fork"
    BY <2>1 DEF User
  <2>3. excused' \subseteq Excuses
    BY <1>1, <2>1 DEF Shared, Shapes, Excuses
  <2> QED  BY <1>2, <1>3, <2>1, <2>2, <2>3
<1>4. ASSUME NEW want \in Waits, Wait4(t, want) PROVE Base'
  BY <1>3, <1>4 DEF Wait4, InUser, User
<1>5. ASSUME Repeat(t) PROVE Base'
  <2>1. /\ call[t].at = "woken" /\ call[t].want \in Waits
        /\ task[t].state = "running" /\ ~task[t].exiting
    BY <1>1, <1>5, CallFields DEF Repeat, Places, User
  <2> QED  BY <1>3, <1>5, <2>1 DEF Repeat
<1>6. ASSUME Wait4Fails(t) PROVE Base'
  <2>1. /\ task[t].state = "running" /\ ~task[t].exiting
        /\ User \in Calls /\ User.at = "user" /\ excused' \subseteq Excuses
    BY <1>1, <1>6 DEF Wait4Fails, Places, User, Calls, Shapes
  <2> QED  BY <1>2, <1>6, <2>1 DEF Wait4Fails
<1>7. ASSUME Report(t) PROVE Base'
  <2> DEFINE c == call[t].child
  <2>1. /\ call'[t] = User /\ \A q \in Tasks \ {t} : call'[q] = call[q]
        /\ call[t].at = "report"
    BY <1>1, <1>7 DEF Report, Shapes
  <2>2. /\ c \in Tasks /\ task'[c] = [task[c] EXCEPT !.exit_code = "zero"]
        /\ \A q \in Tasks \ {c} : task'[q] = task[q]
        /\ Shapes'
    BY <1>1, <1>7, ReportEffect
  <2> HIDE DEF c
  <2>3. /\ task'[c].state = task[c].state /\ task'[c].exiting = task[c].exiting
        /\ task'[c].p_opptr = task[c].p_opptr /\ task'[c].p_pptr = task[c].p_pptr
    BY <1>1, <2>2 DEF TaskStruct
  <2>4. ASSUME NEW q \in Tasks PROVE Gentle(q)
    <3>1. call'[q] = call[q] \/ (call'[q] = User /\ call[q].at # "fork")
      BY <2>1
    <3>2. CASE q = c
      BY <1>1, <2>3, <3>1, <3>2 DEF Gentle, Places, User
    <3>3. CASE q # c
      BY <1>1, <2>2, <3>1, <3>3 DEF Gentle, Places, User
    <3> QED  BY <3>2, <3>3
  <2> QED  BY <2>2, <2>4, BaseKept
<1> QED  BY <1>4, <1>5, <1>6, <1>7

LEMMA ReapEffect ==
    ASSUME Shapes, NEW t \in Tasks, Reap(t), NEW p, p = call[t].child
    PROVE  /\ p \in Tasks /\ call[t].at = "status" /\ Shapes' /\ excused' = excused
           /\ \A q \in Tasks \ {p} : task'[q] = task[q]
           /\ call'[t] = User
           /\ OwnChild(p) => /\ \A q \in Tasks \ {t} : call'[q] = call[q]
                             /\ task'[p] = IF task[p].state = "zombie" THEN Unused ELSE task[p]
                             /\ released' = (released \/ task[p].state # "zombie")
           /\ ~OwnChild(p) =>
                 /\ task'[p] = [task[p] EXCEPT !.p_pptr = task[p].p_opptr]
                 /\ released' = released
                 /\ \A q \in Tasks \ {t} :
                       call'[q] = Notified([task EXCEPT ![p].p_pptr = task[p].p_opptr],
                                           {task[p].p_opptr})[q]
<1>1. /\ p \in Tasks /\ call[t].at = "status" /\ UNCHANGED <<last_pid, next_safe, forks, excused>>
      /\ task \in [Tasks -> TaskStruct] /\ call \in [Tasks -> Calls] /\ task[p] \in TaskStruct
      /\ User \in Calls
  BY CallFields DEF Reap, Shapes, Calls
<1>2. CASE OwnChild(p)
  <2>1. /\ task' = [task EXCEPT ![p] = IF task[p].state = "zombie" THEN Unused ELSE task[p]]
        /\ call' = [call EXCEPT ![t] = User]
    BY <1>2 DEF Reap
  <2>2. released' = (released \/ task[p].state # "zombie")
    BY <1>2 DEF Reap
  <2>3. (IF task[p].state = "zombie" THEN Unused ELSE task[p]) \in TaskStruct
    BY <1>1, UnusedType
  <2>4. task' \in [Tasks -> TaskStruct] /\ call' \in [Tasks -> Calls]
    BY <1>1, <2>1, <2>3
  <2>5. released' \in BOOLEAN
    BY <2>2, SMTT(60)
  <2> QED  BY <1>1, <1>2, <2>1, <2>2, <2>4, <2>5 DEF Shapes
<1>3. CASE ~OwnChild(p)
  <2> DEFINE T == [task EXCEPT ![p].p_pptr = task[p].p_opptr]
             N == Notified(T, {task[p].p_opptr})
  <2>1. /\ task' = T /\ released' = released
        /\ call' = [Notified(T, {T[p].p_pptr}) EXCEPT ![t] = User]
    BY <1>3 DEF Reap
  <2>2. T[p].p_pptr = task[p].p_opptr
    BY <1>1 DEF TaskStruct
  <2>3. /\ T \in [Tasks -> TaskStruct] /\ T[p] = [task[p] EXCEPT !.p_pptr = task[p].p_opptr]
        /\ \A q \in Tasks \ {p} : T[q] = task[q]
    BY <1>1 DEF TaskStruct
  <2>4. N \in [Tasks -> Calls]
    BY NotifiedCalls
  <2>5. call' = [N EXCEPT ![t] = User]
    BY <2>1, <2>2
  <2> HIDE DEF T, N
  <2>6. /\ call' \in [Tasks -> Calls] /\ call'[t] = User
        /\ \A q \in Tasks \ {t} : call'[q] = N[q]
    BY <1>1, <2>4, <2>5
  <2>7. /\ task' \in [Tasks -> TaskStruct]
        /\ task'[p] = [task[p] EXCEPT !.p_pptr = task[p].p_opptr]
        /\ \A q \in Tasks \ {p} : task'[q] = task[q]
    BY <2>1, <2>3
  <2>8. Shapes'
    BY <1>1, <2>1, <2>6, <2>7 DEF Shapes
  <2> QED  BY <1>1, <1>3, <2>1, <2>6, <2>7, <2>8 DEF T, N
<1> QED  BY <1>2, <1>3

LEMMA ReapBase ==
    ASSUME Base, NEW t \in Tasks, Reap(t)
    PROVE  Base'
<1> DEFINE p == call[t].child
<1>1. /\ Shapes /\ Places /\ Fathered /\ Forking
      /\ \A q \in Tasks : task[q] \in TaskStruct
      /\ \A q \in Tasks : call[q].at # "user" <=> call[q] # User
  BY CallFields DEF Base, Shapes
<1>2. /\ p \in Tasks /\ call[t].at = "status" /\ Shapes'
      /\ \A q \in Tasks \ {p} : task'[q] = task[q]
      /\ call'[t] = User
  BY <1>1, ReapEffect, ZenonT(60)
<1>3. CASE OwnChild(p) /\ task[p].state = "zombie"
  <2>1. /\ \A q \in Tasks \ {t} : call'[q] = call[q]
        /\ task'[p] = Unused
    BY <1>1, <1>3, ReapEffect
  <2> HIDE DEF p
  <2>2. call[p] = User /\ p # Reaper
    BY <1>1, <1>2, <1>3 DEF Places
  <2>3. task'[p].state = "free" /\ ~task'[p].exiting
    BY <2>1 DEF Unused
  <2>4. Places'
    BY <1>1, <1>2, <1>3, <2>1, <2>2, <2>3, ReaperAssumption DEF Places
  <2>5. Forking'
    <3>1. \A q \in Tasks : call[q].at = "fork" => call[q].child \in Tasks \ {p}
      BY <1>1, <1>3, CallFields DEF Forking
    <3>2. \A q \in Tasks : call'[q].at = "fork" <=> call[q].at = "fork"
      BY <1>2, <2>1 DEF User
    <3>3. \A q \in Tasks : call[q].at = "fork" => call'[q] = call[q]
      BY <1>2, <2>1
    <3>4. \A q \in Tasks : task'[q].state = "embryo" <=> task[q].state = "embryo"
      BY <1>2, <1>3, <2>3
    <3> QED  BY <1>1, <3>1, <3>2, <3>3, <3>4 DEF Forking, Embryos
  <2>6. Fathered'
    BY <1>1, <1>2, <1>3, <2>3 DEF Fathered, AllLinked, Linked
  <2> QED  BY <1>2, <2>4, <2>5, <2>6 DEF Base
<1>4. CASE OwnChild(p) /\ task[p].state # "zombie"
  <2>1. /\ \A q \in Tasks \ {t} : call'[q] = call[q]
        /\ task'[p] = task[p]
    BY <1>1, <1>4, ReapEffect
  <2>2. \A q \in Tasks : task'[q] = task[q] /\ call[t].at # "fork"
    BY <1>2, <2>1
  <2>3. \A q \in Tasks : Gentle(q)
    BY <1>1, <1>2, <2>1, <2>2 DEF Gentle, Places, User
  <2> QED  BY <1>2, <2>3, BaseKept
<1>5. CASE ~OwnChild(p)
  <2> DEFINE N == Notified([task EXCEPT ![p].p_pptr = task[p].p_opptr], {task[p].p_opptr})
  <2>1. /\ task'[p] = [task[p] EXCEPT !.p_pptr = task[p].p_opptr]
        /\ \A q \in Tasks \ {t} : call'[q] = N[q]
    BY <1>1, <1>5, ReapEffect
  <2>2. \A q \in Tasks : N[q] = call[q] \/ (call[q].at = "asleep" /\ N[q].at = "woken")
    BY <1>1, NotifiedCalls
  <2> HIDE DEF p, N
  <2>3. \A q \in Tasks : \/ call'[q] = call[q]
                         \/ (call[q].at # "user" /\ call[q].at # "fork" /\ call'[q].at # "fork")
    BY <1>2, <2>1, <2>2 DEF User
  <2>4. /\ task'[p].state = task[p].state /\ task'[p].exiting = task[p].exiting
        /\ task'[p].p_opptr = task[p].p_opptr /\ task'[p].p_pptr = task[p].p_opptr
    BY <1>1, <1>2, <2>1 DEF TaskStruct
  <2>5. \/ task[p].state \in {"free", "embryo"}
        \/ task[task[p].p_opptr].state \in {"running", "stopped"}
    BY <1>1, <1>2 DEF Fathered, AllLinked, Linked, TaskStruct
  <2>6. ASSUME NEW q \in Tasks PROVE Gentle(q)
    <3>1. CASE q = p
      BY <1>1, <2>3, <2>4, <2>5, <3>1 DEF Gentle, Places
    <3>2. CASE q # p
      BY <1>1, <1>2, <2>3, <3>2 DEF Gentle, Places
    <3> QED  BY <3>1, <3>2
  <2> QED  BY <1>2, <2>6, BaseKept
<1> QED  BY <1>3, <1>4, <1>5

------------------------------------------------------------------------------
(* exit_notify(), step by step: the tasks are forgotten, the dying task's  *)
(* group may be woken, the task dies, its children are given away, and     *)
(* their groups may be woken.                                              *)
Mourned(t, reaper) == Continued(Forgotten(t, reaper), OwnGroup(Forgotten(t, reaper), t))
Died(t, reaper, signal) ==
    [Mourned(t, reaper) EXCEPT ![t].state = "zombie", ![t].exit_signal = signal]
Left(t, reaper, signal) == Released(Died(t, reaper, signal), t)
Final(t, reaper, signal) ==
    Continued(Left(t, reaper, signal),
              Stayed(Left(t, reaper, signal), ChildGroups(Died(t, reaper, signal), t)))
Told(t, reaper, signal) ==
    {Died(t, reaper, signal)[t].p_pptr}
    \cup {Left(t, reaper, signal)[p].p_pptr :
             p \in {c \in Children(Died(t, reaper, signal), t) :
                       Died(t, reaper, signal)[c].state = "zombie"}}

SameIds(r, s) ==
    /\ r.pid = s.pid /\ r.tgid = s.tgid /\ r.pgrp = s.pgrp /\ r.session = s.session
    /\ r.leader = s.leader /\ r.exiting = s.exiting

Excusing(t, reaper) ==
    excused' = excused \cup Retyped(t) \cup Handed(Forgotten(t, reaper), t)

LEMMA ExitSteps ==
    ASSUME NEW t \in Tasks, ExitNotify(t)
    PROVE  \E reaper \in ReapersOf(t), signal \in {"SIGCHLD", task[t].exit_signal} :
              /\ task' = Final(t, reaper, signal)
              /\ call' = Notified(Left(t, reaper, signal), Told(t, reaper, signal))
              /\ Excusing(t, reaper)
BY DEF ExitNotify, Mourned, Died, Left, Final, Told, Excusing

LEMMA ForgottenFields ==
    ASSUME Shapes, NEW t \in Tasks, NEW reaper \in Tasks
    PROVE  /\ Forgotten(t, reaper) \in [Tasks -> TaskStruct]
           /\ \A p \in Tasks :
                 LET r == Forgotten(t, reaper)[p]
                     s == task[p]
                 IN  /\ SameIds(r, s)
                     /\ r.state = s.state /\ r.p_pptr = s.p_pptr /\ r.ptraced = s.ptraced
                     /\ p \notin AllLinked \/ s.p_opptr # t => r = s
                     /\ p \in AllLinked /\ s.p_opptr = t =>
                           /\ r.p_opptr = IF p = reaper THEN Reaper ELSE reaper
                           /\ r.exit_signal = "SIGCHLD"
                           /\ r.exit_code = Untold(s.exit_code)
<1>1. ASSUME NEW p \in Tasks
      PROVE  LET r == Forgotten(t, reaper)[p]
                 s == task[p]
             IN  /\ r \in TaskStruct
                 /\ SameIds(r, s)
                 /\ r.state = s.state /\ r.p_pptr = s.p_pptr /\ r.ptraced = s.ptraced
                 /\ p \notin AllLinked \/ s.p_opptr # t => r = s
                 /\ p \in AllLinked /\ s.p_opptr = t =>
                       /\ r.p_opptr = IF p = reaper THEN Reaper ELSE reaper
                       /\ r.exit_signal = "SIGCHLD"
                       /\ r.exit_code = Untold(s.exit_code)
  <2>1. task[p] \in TaskStruct /\ Untold(task[p].exit_code) \in {"zero", "told", "untold"}
    BY UntoldType DEF Shapes, TaskStruct
  <2>2. CASE p \in AllLinked /\ task[p].p_opptr = t
    BY <2>1, <2>2, ReaperAssumption DEF Forgotten, TaskStruct, SameIds
  <2>3. CASE ~(p \in AllLinked /\ task[p].p_opptr = t)
    BY <2>1, <2>3 DEF Forgotten, SameIds
  <2> QED  BY <2>2, <2>3
<1>2. Forgotten(t, reaper) = [p \in Tasks |-> Forgotten(t, reaper)[p]]
  BY DEF Forgotten
<1> QED  BY <1>1, <1>2

LEMMA ContinuedFields ==
    ASSUME NEW T \in [Tasks -> TaskStruct], NEW groups
    PROVE  /\ Continued(T, groups) \in [Tasks -> TaskStruct]
           /\ \A p \in Tasks :
                 LET r == Continued(T, groups)[p]
                 IN  \/ r = T[p]
                     \/ /\ T[p].state = "stopped" /\ r.state = "running"
                        /\ SameIds(r, T[p]) /\ r.p_pptr = T[p].p_pptr
                        /\ r.p_opptr = T[p].p_opptr /\ r.ptraced = T[p].ptraced
                        /\ r.exit_signal = T[p].exit_signal /\ r.exit_code = "zero"
<1>1. ASSUME NEW p \in Tasks
      PROVE  LET r == Continued(T, groups)[p]
             IN  /\ r \in TaskStruct
                 /\ \/ r = T[p]
                    \/ /\ T[p].state = "stopped" /\ r.state = "running"
                       /\ SameIds(r, T[p]) /\ r.p_pptr = T[p].p_pptr
                       /\ r.p_opptr = T[p].p_opptr /\ r.ptraced = T[p].ptraced
                       /\ r.exit_signal = T[p].exit_signal /\ r.exit_code = "zero"
  <2>1. T[p] \in TaskStruct
    OBVIOUS
  <2>2. CASE T[p].state = "stopped" /\ T[p].pgrp \in groups
    BY <2>1, <2>2 DEF Continued, Running, TaskStruct, SameIds
  <2>3. CASE ~(T[p].state = "stopped" /\ T[p].pgrp \in groups)
    BY <2>1, <2>3 DEF Continued
  <2> QED  BY <2>2, <2>3
<1>2. Continued(T, groups) = [p \in Tasks |-> Continued(T, groups)[p]]
  BY DEF Continued
<1> QED  BY <1>1, <1>2

LEMMA ReleasedFields ==
    ASSUME NEW T \in [Tasks -> TaskStruct], NEW t \in Tasks
    PROVE  /\ Released(T, t) \in [Tasks -> TaskStruct]
           /\ \A p \in Tasks :
                 LET r == Released(T, t)[p]
                     s == T[p]
                 IN  /\ p \notin Children(T, t) => r = s
                     /\ p \in Children(T, t) =>
                           /\ SameIds(r, s) /\ r.state = s.state
                           /\ r.p_opptr = s.p_opptr /\ r.p_pptr = s.p_opptr
                           /\ ~r.ptraced /\ r.exit_signal = s.exit_signal
                           /\ r.exit_code = Untold(s.exit_code)
<1>1. ASSUME NEW p \in Tasks
      PROVE  LET r == Released(T, t)[p]
                 s == T[p]
             IN  /\ r \in TaskStruct
                 /\ p \notin Children(T, t) => r = s
                 /\ p \in Children(T, t) =>
                       /\ SameIds(r, s) /\ r.state = s.state
                       /\ r.p_opptr = s.p_opptr /\ r.p_pptr = s.p_opptr
                       /\ ~r.ptraced /\ r.exit_signal = s.exit_signal
                       /\ r.exit_code = Untold(s.exit_code)
  <2>1. T[p] \in TaskStruct /\ Untold(T[p].exit_code) \in {"zero", "told", "untold"}
    BY UntoldType DEF TaskStruct
  <2>2. CASE p \in Children(T, t)
    BY <2>1, <2>2 DEF Released, TaskStruct, SameIds
  <2>3. CASE p \notin Children(T, t)
    BY <2>1, <2>3 DEF Released
  <2> QED  BY <2>2, <2>3
<1>2. Released(T, t) = [p \in Tasks |-> Released(T, t)[p]]
  BY DEF Released
<1> QED  BY <1>1, <1>2

(* What exit_notify() of t makes of the record of p.  Whoever is in the    *)
(* care of t (own) or below it (child) gets another parent.                *)
ExitOf(r, p, t, reaper, signal) ==
    LET s == task[p]
        own == p \in AllLinked /\ s.p_opptr = t
        child == p \in AllLinked /\ s.p_pptr = t
    IN  /\ SameIds(r, s)
        /\ p = t => r.state = "zombie" /\ r.exit_signal = signal
        /\ p # t => /\ r.state = s.state \/ (s.state = "stopped" /\ r.state = "running")
                    /\ r.exit_signal = IF own THEN "SIGCHLD" ELSE s.exit_signal
        /\ r.p_opptr = IF own THEN (IF p = reaper THEN Reaper ELSE reaper) ELSE s.p_opptr
        /\ r.p_pptr = IF child THEN r.p_opptr ELSE s.p_pptr
        /\ ~child => r.ptraced = s.ptraced
        /\ child => ~r.ptraced
        /\ r.state = "stopped" =>
              r.exit_code = IF own \/ child THEN Untold(s.exit_code) ELSE s.exit_code

LEMMA UntoldTwice == \A e : Untold(Untold(e)) = Untold(e)
BY DEF Untold

LEMMA ExitRecords ==
    ASSUME Shapes, NEW t \in Tasks, NEW reaper \in Tasks, NEW signal \in {"SIGCHLD", "other"},
           task[t].state = "running"
    PROVE  /\ Final(t, reaper, signal) \in [Tasks -> TaskStruct]
           /\ \A p \in Tasks : ExitOf(Final(t, reaper, signal)[p], p, t, reaper, signal)
           /\ \A p \in Tasks : /\ ExitOf(Left(t, reaper, signal)[p], p, t, reaper, signal)
                               /\ Left(t, reaper, signal)[p].p_pptr = Final(t, reaper, signal)[p].p_pptr
           /\ \A p \in Tasks : p \in Children(Died(t, reaper, signal), t) <=>
                                  p \in AllLinked /\ task[p].p_pptr = t
           /\ \A p \in Tasks :
                 /\ Died(t, reaper, signal)[p].p_pptr = task[p].p_pptr
                 /\ SameIds(Died(t, reaper, signal)[p], task[p])
                 /\ (Died(t, reaper, signal)[p].state = "zombie") <=> (p = t \/ task[p].state = "zombie")
<1> DEFINE F == Forgotten(t, reaper)
           M == Mourned(t, reaper)
           D == Died(t, reaper, signal)
           L == Left(t, reaper, signal)
           R == Final(t, reaper, signal)
           own(p) == p \in AllLinked /\ task[p].p_opptr = t
           child(p) == p \in AllLinked /\ task[p].p_pptr = t
<1>1. F \in [Tasks -> TaskStruct]
  BY ForgottenFields
<1>2. M \in [Tasks -> TaskStruct]
  BY <1>1, ContinuedFields DEF Mourned
<1>3. /\ D \in [Tasks -> TaskStruct]
      /\ D[t] = [M[t] EXCEPT !.state = "zombie", !.exit_signal = signal]
      /\ \A p \in Tasks \ {t} : D[p] = M[p]
  <2>1. [M[t] EXCEPT !.state = "zombie", !.exit_signal = signal] \in TaskStruct
    BY <1>2 DEF TaskStruct
  <2>2. D = [M EXCEPT ![t] = [M[t] EXCEPT !.state = "zombie", !.exit_signal = signal]]
    BY <1>2 DEF Died, TaskStruct
  <2> QED  BY <1>2, <2>1, <2>2
<1>4. L \in [Tasks -> TaskStruct]
  BY <1>3, ReleasedFields DEF Left
<1>5. R \in [Tasks -> TaskStruct]
  BY <1>4, ContinuedFields DEF Final
<1>6. ASSUME NEW p \in Tasks
      PROVE  /\ SameIds(F[p], task[p])
             /\ F[p].state = task[p].state /\ F[p].p_pptr = task[p].p_pptr
             /\ F[p].ptraced = task[p].ptraced
             /\ F[p].p_opptr = IF own(p) THEN (IF p = reaper THEN Reaper ELSE reaper)
                               ELSE task[p].p_opptr
             /\ F[p].exit_signal = IF own(p) THEN "SIGCHLD" ELSE task[p].exit_signal
             /\ F[p].exit_code = IF own(p) THEN Untold(task[p].exit_code) ELSE task[p].exit_code
  <2>1. CASE own(p)
    BY <2>1, ForgottenFields
  <2>2. CASE ~own(p)
    <3>1. F[p] = task[p]
      BY <2>2, ForgottenFields
    <3> QED  BY <2>2, <3>1 DEF SameIds
  <2> QED  BY <2>1, <2>2
<1>7. ASSUME NEW p \in Tasks
      PROVE  \/ M[p] = F[p]
             \/ /\ F[p].state = "stopped" /\ M[p].state = "running"
                /\ SameIds(M[p], F[p]) /\ M[p].p_pptr = F[p].p_pptr
                /\ M[p].p_opptr = F[p].p_opptr /\ M[p].ptraced = F[p].ptraced
                /\ M[p].exit_signal = F[p].exit_signal
  BY <1>1, ContinuedFields DEF Mourned
<1>8. ASSUME NEW p \in Tasks
      PROVE  /\ p \notin Children(D, t) => L[p] = D[p]
             /\ p \in Children(D, t) =>
                   /\ SameIds(L[p], D[p]) /\ L[p].state = D[p].state
                   /\ L[p].p_opptr = D[p].p_opptr /\ L[p].p_pptr = D[p].p_opptr
                   /\ ~L[p].ptraced /\ L[p].exit_signal = D[p].exit_signal
                   /\ L[p].exit_code = Untold(D[p].exit_code)
  BY <1>3, ReleasedFields DEF Left
<1>9. ASSUME NEW p \in Tasks
      PROVE  \/ R[p] = L[p]
             \/ /\ L[p].state = "stopped" /\ R[p].state = "running"
                /\ SameIds(R[p], L[p]) /\ R[p].p_pptr = L[p].p_pptr
                /\ R[p].p_opptr = L[p].p_opptr /\ R[p].ptraced = L[p].ptraced
                /\ R[p].exit_signal = L[p].exit_signal
  BY <1>4, ContinuedFields DEF Final
<1> HIDE DEF F, M, D, L, R
<1>10. ASSUME NEW p \in Tasks
       PROVE  /\ SameIds(D[p], task[p])
              /\ D[p].p_pptr = task[p].p_pptr /\ D[p].ptraced = task[p].ptraced
              /\ D[p].p_opptr = F[p].p_opptr
              /\ p = t => D[p].state = "zombie" /\ D[p].exit_signal = signal
              /\ p # t => /\ \/ D[p].state = task[p].state
                             \/ (task[p].state = "stopped" /\ D[p].state = "running")
                          /\ D[p].exit_signal = F[p].exit_signal
              /\ D[p].state = "stopped" => D[p].exit_code = F[p].exit_code
  <2>1. /\ SameIds(M[p], task[p])
        /\ M[p].p_pptr = task[p].p_pptr /\ M[p].ptraced = task[p].ptraced
        /\ M[p].p_opptr = F[p].p_opptr /\ M[p].exit_signal = F[p].exit_signal
        /\ \/ M[p].state = task[p].state
           \/ (task[p].state = "stopped" /\ M[p].state = "running")
        /\ M[p].state = "stopped" => M[p].exit_code = F[p].exit_code
    BY <1>6, <1>7 DEF SameIds
  <2>2. CASE p = t
    <3>1. M[t] \in TaskStruct
      BY <1>2
    <3>2. /\ SameIds(D[t], M[t])
          /\ D[t].p_pptr = M[t].p_pptr /\ D[t].ptraced = M[t].ptraced
          /\ D[t].p_opptr = M[t].p_opptr
          /\ D[t].state = "zombie" /\ D[t].exit_signal = signal
      BY <1>3, <3>1 DEF SameIds, TaskStruct
    <3>3. SameIds(D[t], task[t])
      BY <2>1, <2>2, <3>2 DEF SameIds
    <3> QED  BY <2>1, <2>2, <3>2, <3>3
  <2>3. CASE p # t
    BY <1>3, <2>1, <2>3
  <2> QED  BY <2>2, <2>3
<1>11. \A p \in Tasks : p \in Children(D, t) <=> child(p)
  BY <1>10 DEF Children, AllLinked, Linked
<1>12. \A p \in Tasks : D[p].state = "zombie" <=> (p = t \/ task[p].state = "zombie")
  BY <1>10
<1>13. ASSUME NEW p \in Tasks
       PROVE  ExitOf(L[p], p, t, reaper, signal)
  <2>1. CASE child(p)
    <3>1. /\ SameIds(L[p], D[p]) /\ L[p].state = D[p].state
          /\ L[p].p_opptr = D[p].p_opptr /\ L[p].p_pptr = D[p].p_opptr
          /\ ~L[p].ptraced /\ L[p].exit_signal = D[p].exit_signal
          /\ L[p].exit_code = Untold(D[p].exit_code)
      BY <1>8, <1>11, <2>1
    <3>2. L[p].state = "stopped" => L[p].exit_code = Untold(task[p].exit_code)
      <4>1. F[p].exit_code \in {task[p].exit_code, Untold(task[p].exit_code)}
        BY <1>6
      <4>2. Untold(F[p].exit_code) = Untold(task[p].exit_code)
        BY <4>1, UntoldTwice
      <4>3. L[p].state = "stopped" => D[p].exit_code = F[p].exit_code
        BY <1>10, <3>1
      <4> QED  BY <3>1, <4>2, <4>3
    <3> QED  BY <1>6, <1>10, <2>1, <3>1, <3>2 DEF ExitOf, SameIds
  <2>2. CASE ~child(p)
    <3>1. L[p] = D[p]
      BY <1>8, <1>11, <2>2
    <3> QED  BY <1>6, <1>10, <2>2, <3>1 DEF ExitOf, SameIds
  <2> QED  BY <2>1, <2>2
<1>14. ASSUME NEW p \in Tasks
       PROVE  ExitOf(R[p], p, t, reaper, signal) /\ R[p].p_pptr = L[p].p_pptr
  <2>1. CASE R[p] = L[p]
    BY <1>13, <2>1
  <2>2. CASE R[p] # L[p]
    <3>1. ExitOf(L[p], p, t, reaper, signal)
      BY <1>13
    <3> QED  BY <1>9, <2>2, <3>1 DEF ExitOf, SameIds
  <2> QED  BY <2>1, <2>2
<1>15. \A p \in Tasks : D[p].p_pptr = task[p].p_pptr /\ SameIds(D[p], task[p])
  BY <1>10
<1> QED  BY <1>5, <1>11, <1>12, <1>13, <1>14, <1>15 DEF F, M, D, L, R

(* Who takes the children lives, and is not the one that dies. *)
LEMMA ReaperLives ==
    ASSUME Base, NEW t \in Tasks, task[t].exiting, NEW reaper \in ReapersOf(t)
    PROVE  /\ reaper \in Tasks \ {t} /\ Reaper \in Tasks \ {t}
           /\ task[reaper].state \in {"running", "stopped"} /\ task[Reaper].state = "running"
<1>1. Reaper # t /\ task[Reaper].state = "running" /\ Reaper \in Tasks
  BY ReaperAssumption DEF Base, Places
<1>2. CASE reaper = Reaper
  BY <1>1, <1>2
<1>3. CASE reaper # Reaper
  <2>1. reaper \in Group(task, t) \ {t} /\ ~task[reaper].exiting
    BY <1>3 DEF ReapersOf
  <2>2. /\ reaper \in Tasks \ {t} /\ task[reaper].state \notin {"free", "embryo", "zombie"}
        /\ task[reaper] \in TaskStruct
    BY <2>1 DEF Group, Linked, Base, Places, Shapes
  <2> QED  BY <1>1, <2>2 DEF TaskStruct
<1> QED  BY <1>2, <1>3

(* The same, for a step. *)
LEMMA ExitEffect ==
    ASSUME Base, NEW t \in Tasks, ExitNotify(t)
    PROVE  \E reaper \in ReapersOf(t), signal \in {"SIGCHLD", "other"} :
              /\ task' = Final(t, reaper, signal)
              /\ call' = Notified(Left(t, reaper, signal), Told(t, reaper, signal))
              /\ Excusing(t, reaper)
              /\ reaper \in Tasks
              /\ \A p \in Tasks : ExitOf(task'[p], p, t, reaper, signal)
              /\ Shapes'
<1>1. PICK reaper \in ReapersOf(t), signal \in {"SIGCHLD", task[t].exit_signal} :
          /\ task' = Final(t, reaper, signal)
          /\ call' = Notified(Left(t, reaper, signal), Told(t, reaper, signal))
          /\ Excusing(t, reaper)
  BY ExitSteps
<1>2. Shapes /\ task[t] \in TaskStruct /\ task[t].state = "running" /\ task[t].exiting
  BY DEF ExitNotify, Base, Shapes
<1>3. signal \in {"SIGCHLD", "other"} /\ reaper \in Tasks
  BY <1>2, ReaperLives DEF TaskStruct
<1> DEFINE R == Final(t, reaper, signal)
           N == Notified(Left(t, reaper, signal), Told(t, reaper, signal))
<1>4. R \in [Tasks -> TaskStruct] /\ \A p \in Tasks : ExitOf(R[p], p, t, reaper, signal)
  BY <1>2, <1>3, ExitRecords
<1>5. N \in [Tasks -> Calls]
  BY <1>2, NotifiedCalls
<1>6. task' = R /\ call' = N
  BY <1>1
<1>7. UNCHANGED <<last_pid, next_safe, forks, released>>
  BY DEF ExitNotify
<1>8. excused' \in SUBSET Excuses
  BY <1>1, <1>2 DEF Excusing, Retyped, Handed, Excuses, Shapes
<1> HIDE DEF R, N
<1>9. Shapes'
  BY <1>2, <1>4, <1>5, <1>6, <1>7, <1>8 DEF Shapes
<1>10. \A p \in Tasks : ExitOf(task'[p], p, t, reaper, signal)
  BY <1>4, <1>6
<1> QED  BY <1>1, <1>3, <1>9, <1>10

LEMMA ExitBase ==
    ASSUME Base, NEW t \in Tasks, ExitNotify(t)
    PROVE  Base'
<1>1. /\ Shapes /\ Places /\ Fathered /\ Forking
      /\ \A q \in Tasks : task[q] \in TaskStruct
      /\ \A q \in Tasks : call[q].at # "user" <=> call[q] # User
      /\ task[t].state = "running" /\ task[t].exiting
      /\ call[t] = User
  BY CallFields DEF Base, Shapes, Places, ExitNotify
<1>2. PICK reaper \in ReapersOf(t), signal \in {"SIGCHLD", "other"} :
          /\ call' = Notified(Left(t, reaper, signal), Told(t, reaper, signal))
          /\ reaper \in Tasks
          /\ \A p \in Tasks : ExitOf(task'[p], p, t, reaper, signal)
          /\ Shapes'
  BY ExitEffect
<1>3. /\ reaper \in Tasks \ {t} /\ Reaper \in Tasks \ {t}
      /\ task[reaper].state \in {"running", "stopped"} /\ task[Reaper].state = "running"
  BY <1>1, ReaperLives
<1>4. \A q \in Tasks : call'[q] = call[q] \/ (call[q].at = "asleep" /\ call'[q].at = "woken")
  <2> DEFINE N == Notified(Left(t, reaper, signal), Told(t, reaper, signal))
  <2>1. \A q \in Tasks : N[q] = call[q] \/ (call[q].at = "asleep" /\ N[q].at = "woken")
    BY <1>1, NotifiedCalls
  <2> HIDE DEF N
  <2>2. call' = N
    BY <1>2 DEF N
  <2> QED  BY <2>1, <2>2
<1>5. ASSUME NEW p \in Tasks
      PROVE  /\ task'[p].exiting = task[p].exiting
             /\ p = t => task'[p].state = "zombie"
             /\ p # t => \/ task'[p].state = task[p].state
                         \/ (task[p].state = "stopped" /\ task'[p].state = "running")
  BY <1>2 DEF ExitOf, SameIds
<1>6. Places'
  <2>1. ASSUME NEW p \in Tasks, call'[p] # User
        PROVE  task'[p].state = "running" /\ ~task'[p].exiting
    <3>1. call[p] # User
      BY <1>1, <1>4, <2>1 DEF User
    <3>2. p # t /\ task[p].state = "running" /\ ~task[p].exiting
      BY <1>1, <3>1 DEF Places
    <3> QED  BY <1>5, <3>2
  <2>2. ASSUME NEW p \in Tasks, task'[p].state = "zombie" PROVE task'[p].exiting
    BY <1>1, <1>5, <2>2 DEF Places
  <2>3. task'[Reaper].state = "running" /\ ~task'[Reaper].exiting
    BY <1>1, <1>3, <1>5 DEF Places
  <2> QED  BY <2>1, <2>2, <2>3 DEF Places
<1>7. Forking'
  <2>1. \A p \in Tasks : call'[p].at = "fork" <=> call[p].at = "fork"
    BY <1>4
  <2>2. \A p \in Tasks : call[p].at = "fork" => call'[p] = call[p]
    BY <1>4
  <2>3. \A p \in Tasks : task'[p].state = "embryo" <=> task[p].state = "embryo"
    BY <1>1, <1>5
  <2>4. \A p \in Tasks : call[p].at = "fork" => call[p].child \in Tasks
    BY <1>1, CallFields
  <2> QED  BY <1>1, <2>1, <2>2, <2>3, <2>4 DEF Forking, Embryos
<1>8. Fathered'
  <2> DEFINE alive(q) == q \in Tasks /\ task'[q].state \notin {"free", "embryo", "zombie"}
  <2>1. \A q \in Tasks : task[q].state \notin {"free", "embryo", "zombie"} /\ q # t => alive(q)
    BY <1>5
  <2>2. alive(reaper) /\ alive(Reaper)
    BY <1>3, <2>1
  <2> HIDE DEF alive
  <2>3. ASSUME NEW p \in Tasks, task'[p].state \notin {"free", "embryo"}
        PROVE  alive(task'[p].p_opptr) /\ alive(task'[p].p_pptr)
    <3>1. p \in AllLinked
      BY <1>1, <1>5, <2>3 DEF AllLinked, Linked
    <3>2. /\ task[p].p_opptr \in Tasks /\ task[p].p_pptr \in Tasks
          /\ task[task[p].p_opptr].state \notin {"free", "embryo", "zombie"}
          /\ task[task[p].p_pptr].state \notin {"free", "embryo", "zombie"}
      BY <1>1, <3>1 DEF Fathered, AllLinked, Linked
    <3>3. alive(task'[p].p_opptr)
      <4>1. CASE task[p].p_opptr = t
        BY <1>2, <2>2, <3>1, <4>1 DEF ExitOf
      <4>2. CASE task[p].p_opptr # t
        BY <1>2, <2>1, <3>2, <4>2 DEF ExitOf
      <4> QED  BY <4>1, <4>2
    <3>4. alive(task'[p].p_pptr)
      <4>1. CASE task[p].p_pptr = t
        BY <1>2, <3>1, <3>3, <4>1 DEF ExitOf
      <4>2. CASE task[p].p_pptr # t
        BY <1>2, <2>1, <3>2, <4>2 DEF ExitOf
      <4> QED  BY <4>1, <4>2
    <3> QED  BY <3>3, <3>4
  <2> QED  BY <2>3 DEF alive, Fathered, AllLinked, Linked
<1> QED  BY <1>2, <1>6, <1>7, <1>8 DEF Base

LEMMA NextBase == Base /\ [Next]_vars => Base'
<1> SUFFICES ASSUME Base, [Next]_vars PROVE Base'
  OBVIOUS
<1>1. CASE UNCHANGED vars
  BY <1>1 DEF vars, Base, Shapes, Places, Forking, Embryos, Fathered, AllLinked, Linked
<1>2. ASSUME NEW t \in Tasks,
             \/ \E c \in Tasks, clone \in Forks : ForkStart(t, c, clone)
             \/ ForkNoPid(t) \/ ForkFail(t) \/ ForkLink(t)
             \/ \E p \in Tasks, pgid \in Pids : SetPgid(t, p, pgid)
             \/ SetSid(t)
             \/ Stop(t) \/ Continue(t)
             \/ \E c \in Tasks : PtraceAttach(t, c) \/ PtraceDetach(t, c)
             \/ ExitStart(t) \/ ExitNotify(t)
             \/ \E want \in Waits : Wait4(t, want)
             \/ Repeat(t) \/ Wait4Fails(t) \/ Report(t) \/ Reap(t)
      PROVE  Base'
  BY <1>2, ForkStartBase, ForkNoPidBase, ForkFailBase, ForkLinkBase, JobsBase, ExitBase,
     WaitBase, ReapBase
<1> QED  BY <1>1, <1>2 DEF Next

(* The types, where every task is in the kernel, and the parents.          *)
THEOREM Invariant == Spec => []Base
BY InitBase, NextBase, PTL DEF Spec

(* Everybody in the task list has parents that are in it and do not die,   *)
(* however forks, exits, tracing and waits interleave (exit.c:218-251,     *)
(* 463-484, 637-646), as long as no zombie was released twice.             *)
THEOREM ParentsAreAlive == Spec => []ParentsLive
<1>1. Base => ParentsLive
  BY DEF Base, ParentsLive
<1> QED  BY <1>1, Invariant, PTL

------------------------------------------------------------------------------
(* Who has which id.  Only do_fork(), sys_setpgid() and sys_setsid() change *)
(* that; what the other handlers leave of it:                              *)
KeptIds(p) ==
    /\ task'[p].pid = task[p].pid /\ task'[p].tgid = task[p].tgid
    /\ task'[p].pgrp = task[p].pgrp /\ task'[p].session = task[p].session

Quiet ==
    /\ \A p \in Tasks : task'[p].state # "free" => task[p].state # "free" /\ KeptIds(p)
    /\ \A p \in Tasks : call'[p].at = "fork" => call'[p] = call[p]
    /\ last_pid' = last_pid
    /\ next_safe' = next_safe \/ "exhausted" \in excused'
    /\ excused \subseteq excused'

LEMMA QuietSteps ==
    ASSUME Base, NEW t \in Tasks,
           \/ ForkNoPid(t) \/ ForkFail(t)
           \/ Stop(t) \/ Continue(t)
           \/ \E c \in Tasks : PtraceAttach(t, c) \/ PtraceDetach(t, c)
           \/ ExitStart(t) \/ ExitNotify(t)
           \/ \E want \in Waits : Wait4(t, want)
           \/ Repeat(t) \/ Wait4Fails(t) \/ Report(t) \/ Reap(t)
    PROVE  Quiet
<1>1. /\ Shapes
      /\ \A p \in Tasks : task[p] \in TaskStruct
      /\ \A p \in Tasks : call[p].at # "user" <=> call[p] # User
  BY CallFields DEF Base, Shapes
<1> USE DEF Quiet, KeptIds
<1>2. CASE ForkNoPid(t)
  BY <1>1, <1>2 DEF ForkNoPid
<1>3. CASE ForkFail(t)
  <2> DEFINE c == call[t].child
  <2>1. /\ c \in Tasks
        /\ task' = [task EXCEPT ![c] = Unused] /\ call' = [call EXCEPT ![t] = User]
        /\ UNCHANGED <<last_pid, next_safe, forks, released, excused>>
    BY <1>1, <1>3, CallFields DEF ForkFail
  <2> HIDE DEF c
  <2>2. /\ task'[c] = Unused /\ \A p \in Tasks \ {c} : task'[p] = task[p]
        /\ call'[t] = User /\ \A p \in Tasks \ {t} : call'[p] = call[p]
    BY <1>1, <2>1 DEF Shapes
  <2> QED  BY <2>1, <2>2 DEF Unused, User
<1>4. CASE Stop(t)
  <2>1. UNCHANGED <<last_pid, next_safe, excused>> /\ task[t].state = "running"
    BY <1>4 DEF Stop, Program, InUser
  <2>2. /\ task'[t] = [task[t] EXCEPT !.state = "stopped", !.exit_code = "told"]
        /\ \A q \in Tasks \ {t} : task'[q] = task[q]
        /\ call' = Notified(task, {task[t].p_pptr})
    BY <1>1, <1>4, StopEffect
  <2>3. task[t].state # "free" /\ KeptIds(t)
    BY <1>1, <2>1, <2>2 DEF TaskStruct
  <2> DEFINE N == Notified(task, {task[t].p_pptr})
  <2>4. \A q \in Tasks : N[q] = call[q] \/ (call[q].at = "asleep" /\ N[q].at = "woken")
    BY <1>1, NotifiedCalls
  <2> HIDE DEF N
  <2>5. call' = N
    BY <2>2 DEF N
  <2> QED  BY <2>1, <2>2, <2>3, <2>4, <2>5
<1>5. CASE Continue(t)
  <2>1. UNCHANGED <<call, last_pid, next_safe, excused>> /\ task[t].state = "stopped"
    BY <1>5 DEF Continue
  <2>2. /\ task'[t] = [task[t] EXCEPT !.state = "running", !.exit_code = "zero"]
        /\ \A q \in Tasks \ {t} : task'[q] = task[q]
    BY <1>1, <1>5, ContinueEffect
  <2>3. task[t].state # "free" /\ KeptIds(t)
    BY <1>1, <2>1, <2>2 DEF TaskStruct
  <2> QED  BY <2>1, <2>2, <2>3
<1>6. ASSUME NEW c \in Tasks, PtraceAttach(t, c) PROVE Quiet
  <2>1. UNCHANGED <<call, last_pid, next_safe, excused>> /\ task[c].state # "free"
    BY <1>6 DEF PtraceAttach
  <2>2. /\ task'[c] = [task[c] EXCEPT !.p_pptr = t, !.ptraced = TRUE,
                                      !.exit_code = Untold(task[c].exit_code)]
        /\ \A q \in Tasks \ {c} : task'[q] = task[q]
    BY <1>1, <1>6, AttachEffect
  <2>3. task[c].state # "free" /\ KeptIds(c)
    BY <1>1, <2>1, <2>2 DEF TaskStruct
  <2> QED  BY <2>1, <2>2, <2>3
<1>7. ASSUME NEW c \in Tasks, PtraceDetach(t, c) PROVE Quiet
  <2>1. UNCHANGED <<call, last_pid, next_safe, excused>> /\ task[c].state # "free"
    BY <1>7 DEF PtraceDetach
  <2>2. /\ task'[c] = [task[c] EXCEPT !.state = "running", !.exit_code = "zero",
                                      !.p_pptr = task[c].p_opptr, !.ptraced = FALSE]
        /\ \A q \in Tasks \ {c} : task'[q] = task[q]
    BY <1>1, <1>7, DetachEffect
  <2>3. task[c].state # "free" /\ KeptIds(c)
    BY <1>1, <2>1, <2>2 DEF TaskStruct
  <2> QED  BY <2>1, <2>2, <2>3
<1>8. CASE ExitStart(t)
  <2>1. UNCHANGED <<call, last_pid, next_safe, excused>> /\ task[t].state # "free"
    BY <1>8 DEF ExitStart, Program, InUser
  <2>2. /\ task'[t] = [task[t] EXCEPT !.exiting = TRUE]
        /\ \A q \in Tasks \ {t} : task'[q] = task[q]
    BY <1>1, <1>8, ExitStartEffect
  <2>3. task[t].state # "free" /\ KeptIds(t)
    BY <1>1, <2>1, <2>2 DEF TaskStruct
  <2> QED  BY <2>1, <2>2, <2>3
<1>9. CASE ExitNotify(t)
  <2>1. PICK reaper \in ReapersOf(t), signal \in {"SIGCHLD", "other"} :
            /\ call' = Notified(Left(t, reaper, signal), Told(t, reaper, signal))
            /\ Excusing(t, reaper)
            /\ \A p \in Tasks : ExitOf(task'[p], p, t, reaper, signal)
    BY <1>9, ExitEffect
  <2> DEFINE N == Notified(Left(t, reaper, signal), Told(t, reaper, signal))
  <2>2. \A q \in Tasks : N[q] = call[q] \/ (call[q].at = "asleep" /\ N[q].at = "woken")
    BY <1>1, NotifiedCalls
  <2> HIDE DEF N
  <2>3. call' = N
    BY <2>1, SMTT(60) DEF N
  <2>4. UNCHANGED <<last_pid, next_safe>> /\ task[t].state = "running"
    BY <1>9 DEF ExitNotify
  <2>5. \A p \in Tasks : KeptIds(p) /\ (task'[p].state # "free" => task[p].state # "free")
    BY <2>1, <2>4 DEF ExitOf, SameIds
  <2> QED  BY <2>1, <2>2, <2>3, <2>4, <2>5 DEF Excusing
<1>10. ASSUME NEW want \in Waits, Scan(t, want),
              UNCHANGED <<task, last_pid, next_safe, forks, released>>
       PROVE  Quiet
  <2>1. PICK d \in Calls : /\ call' = [call EXCEPT ![t] = d] /\ d.at # "fork"
                           /\ excused \subseteq excused'
    BY <1>1, <1>10, ScanEffect DEF User
  <2>2. call'[t] = d /\ \A q \in Tasks \ {t} : call'[q] = call[q]
    BY <1>1, <2>1 DEF Shapes
  <2> QED  BY <1>10, <2>1, <2>2
<1>11. ASSUME NEW want \in Waits, Wait4(t, want) PROVE Quiet
  BY <1>10, <1>11 DEF Wait4
<1>12. CASE Repeat(t)
  <2>1. call[t].want \in Waits
    BY <1>1, <1>12, CallFields DEF Repeat
  <2> QED  BY <1>10, <1>12, <2>1 DEF Repeat
<1>13. CASE Wait4Fails(t)
  <2>1. call'[t] = User /\ \A q \in Tasks \ {t} : call'[q] = call[q]
    BY <1>1, <1>13 DEF Wait4Fails, Shapes
  <2> QED  BY <1>13, <2>1 DEF Wait4Fails, User
<1>14. CASE Report(t)
  <2> DEFINE c == call[t].child
  <2>1. /\ c \in Tasks /\ task'[c] = [task[c] EXCEPT !.exit_code = "zero"]
        /\ \A q \in Tasks \ {c} : task'[q] = task[q]
    BY <1>1, <1>14, ReportEffect
  <2>2. /\ call'[t] = User /\ \A q \in Tasks \ {t} : call'[q] = call[q]
        /\ UNCHANGED <<last_pid, next_safe, excused>>
    BY <1>1, <1>14 DEF Report, Shapes
  <2> HIDE DEF c
  <2>3. KeptIds(c) /\ task'[c].state = task[c].state
    BY <1>1, <2>1 DEF TaskStruct
  <2>4. ASSUME NEW q \in Tasks
        PROVE  task'[q].state # "free" => task[q].state # "free" /\ KeptIds(q)
    BY <2>1, <2>3
  <2>5. ASSUME NEW q \in Tasks
        PROVE  call'[q].at = "fork" => call'[q] = call[q]
    BY <2>2 DEF User
  <2> HIDE DEF KeptIds
  <2> QED  BY <2>2, <2>4, <2>5
<1>15. CASE Reap(t)
  <2> DEFINE p == call[t].child
             N == Notified([task EXCEPT ![p].p_pptr = task[p].p_opptr], {task[p].p_opptr})
  <2>1. UNCHANGED <<last_pid, next_safe, excused>>
    BY <1>15 DEF Reap
  <2>2. /\ p \in Tasks /\ call'[t] = User
        /\ \A q \in Tasks \ {p} : task'[q] = task[q]
        /\ \/ task'[p] \in {Unused, task[p]}
           \/ task'[p] = [task[p] EXCEPT !.p_pptr = task[p].p_opptr]
        /\ \A q \in Tasks \ {t} : call'[q] \in {call[q], N[q]}
    <3>1. CASE OwnChild(p)
      BY <1>1, <1>15, <3>1, ReapEffect, ZenonT(60)
    <3>2. CASE ~OwnChild(p)
      BY <1>1, <1>15, <3>2, ReapEffect, SMTT(60)
    <3> QED  BY <3>1, <3>2
  <2>3. \A q \in Tasks : N[q] = call[q] \/ (call[q].at = "asleep" /\ N[q].at = "woken")
    BY <1>1, NotifiedCalls
  <2> HIDE DEF p, N
  <2>4. task'[p].state # "free" => task[p].state # "free" /\ KeptIds(p)
    BY <1>1, <2>2 DEF TaskStruct, Unused
  <2>5. ASSUME NEW q \in Tasks
        PROVE  call'[q].at = "fork" => call'[q] = call[q]
    BY <2>2, <2>3 DEF User
  <2> QED  BY <2>1, <2>2, <2>4, <2>5
<1> QED  BY <1>2, <1>3, <1>4, <1>5, <1>6, <1>7, <1>8, <1>9, <1>11, <1>12, <1>13, <1>14, <1>15

(* While get_pid() has never failed nor overlooked an embryo: no id in use *)
(* lies between last_pid and next_safe, which is why line 103 may answer   *)
(* without a look at the task list; and no two tasks have one pid.         *)
IdsKnown ==
    excused \cap {"exhausted", "unseen"} = {} =>
        /\ \A id \in Ids(task, Living) : ~(last_pid < id /\ id < next_safe)
        /\ \A t, u \in Living : task[t].pid = task[u].pid => t = u

(* A step that brings no id into use keeps that. *)
LEMMA IdsKept ==
    ASSUME IdsKnown,
           last_pid' = last_pid, next_safe' = next_safe \/ "exhausted" \in excused',
           excused \subseteq excused',
           \A p \in Tasks : task'[p].state # "free" =>
               task[p].state # "free" /\ task'[p].pid = task[p].pid,
           \A p \in Tasks : task'[p].state # "free" =>
               {task'[p].pgrp, task'[p].tgid, task'[p].session} \subseteq Ids(task, Living)
    PROVE  IdsKnown'
<1> SUFFICES ASSUME (excused \cap {"exhausted", "unseen"} = {})'
             PROVE  /\ \A id \in Ids(task, Living)' : ~(last_pid < id /\ id < next_safe)'
                    /\ (\A t, u \in Living : task[t].pid = task[u].pid => t = u)'
  BY DEF IdsKnown
<1>1. /\ \A id \in Ids(task, Living) : ~(last_pid < id /\ id < next_safe)
      /\ \A t, u \in Living : task[t].pid = task[u].pid => t = u
      /\ next_safe' = next_safe
  BY DEF IdsKnown
<1>2. Ids(task, Living)' \subseteq Ids(task, Living)
  BY DEF Ids, Living
<1>3. (\A t, u \in Living : task[t].pid = task[u].pid => t = u)'
  BY <1>1 DEF Living
<1> QED  BY <1>1, <1>2, <1>3

LEMMA LivingIsListed == Living = AllLinked \cup Embryos
BY DEF Living, AllLinked, Linked, Embryos

LEMMA NextIdsKnown == Base /\ IdsKnown /\ [Next]_vars => IdsKnown'
<1> SUFFICES ASSUME Base, IdsKnown, [Next]_vars PROVE IdsKnown'
  OBVIOUS
<1>1. /\ Shapes /\ \A p \in Tasks : task[p] \in TaskStruct
      /\ task \in [Tasks -> TaskStruct]
      /\ \A p \in Tasks : task[p].state # "free" =>
            {task[p].pid, task[p].pgrp, task[p].tgid, task[p].session} \subseteq Ids(task, Living)
  BY DEF Base, Shapes, Ids, Living
<1>2. ASSUME Quiet PROVE IdsKnown'
  <2>1. \A p \in Tasks : task'[p].state # "free" =>
           {task'[p].pgrp, task'[p].tgid, task'[p].session} \subseteq Ids(task, Living)
    BY <1>2 DEF Quiet, KeptIds, Ids, Living
  <2> QED  BY <1>2, <2>1, IdsKept DEF Quiet, KeptIds
<1>3. ASSUME NEW t \in Tasks, NEW c \in Tasks, NEW clone \in Forks, ForkStart(t, c, clone)
      PROVE  IdsKnown'
  <2> DEFINE ids == Ids(task, Living)
  <2>1. PICK f \in GetPid :
            /\ task' = [task EXCEPT ![c] = Embryo(t, f.pid, clone)]
            /\ last_pid' = f.pid
            /\ next_safe' = f.safe
            /\ excused' = IF f \in Found(Ids(task, AllLinked \cup Embryos))
                          THEN excused ELSE excused \cup {"unseen"}
    BY <1>3 DEF ForkStart
  <2>2. /\ task'[c] = Embryo(t, f.pid, clone) /\ \A p \in Tasks \ {c} : task'[p] = task[p]
        /\ task[t].state = "running" /\ task[c].state = "free"
    BY <1>1, <1>3, <2>1 DEF ForkStart, InUser
  <2>3. /\ task'[c].pid = f.pid /\ task'[c].tgid = task[t].tgid
        /\ task'[c].pgrp = task[t].pgrp /\ task'[c].session = task[t].session
    BY <1>1, <2>2 DEF Embryo, TaskStruct
  <2> SUFFICES ASSUME (excused \cap {"exhausted", "unseen"} = {})'
               PROVE  /\ \A id \in Ids(task, Living)' : ~(last_pid < id /\ id < next_safe)'
                      /\ (\A p, q \in Living : task[p].pid = task[q].pid => p = q)'
    BY DEF IdsKnown
  <2>4. /\ f \in Found(ids)
        /\ excused \cap {"exhausted", "unseen"} = {}
    BY <2>1, LivingIsListed
  <2>5. ids \in SUBSET Pids /\ \A id \in ids : ~(last_pid < id /\ id < next_safe)
    BY <1>1, <2>4, IdsArePids DEF IdsKnown, Living
  <2> HIDE DEF ids
  <2>6. /\ f.pid \in Pids /\ f.safe \in FIRST_PID .. PID_MAX
        /\ f.pid \notin ids /\ \A id \in ids : ~(f.pid < id /\ id < f.safe)
    BY <1>1, <2>4, <2>5, FoundPid
  <2>7. Ids(task, Living)' \subseteq ids \cup {f.pid}
    BY <2>2, <2>3 DEF Ids, Living, ids
  <2>8. ~(f.pid < f.pid)
    <3>1. \A n \in Nat : ~(n < n)
      OBVIOUS
    <3> QED  BY <2>6, <3>1, PidsAreNat
  <2>9. \A id \in Ids(task, Living)' : ~(last_pid < id /\ id < next_safe)'
    BY <2>1, <2>6, <2>7, <2>8
  <2>10. \A p \in Living : task[p].pid # f.pid
    BY <2>6 DEF Ids, Living, ids
  <2>11. \A p, q \in Living : task[p].pid = task[q].pid => p = q
    BY <2>4 DEF IdsKnown
  <2>12. (\A p, q \in Living : task[p].pid = task[q].pid => p = q)'
    BY <2>2, <2>3, <2>10, <2>11 DEF Living
  <2> QED  BY <2>9, <2>12
<1>4. ASSUME NEW t \in Tasks, ForkLink(t) PROVE IdsKnown'
  <2> DEFINE c == call[t].child
  <2>1. /\ c \in Tasks /\ task[c].state = "embryo" /\ task[t].state = "running"
        /\ task' = [task EXCEPT ![c] = Born(t, c)]
        /\ UNCHANGED <<last_pid, next_safe, forks, released, excused>>
    BY <1>1, <1>4, CallFields DEF ForkLink, Base, Forking, Places, User
  <2> HIDE DEF c
  <2>2. task'[c] = Born(t, c) /\ \A p \in Tasks \ {c} : task'[p] = task[p]
    BY <1>1, <2>1
  <2>3. /\ task'[c].pid = task[c].pid /\ task'[c].tgid \in {task[t].tgid, task[c].pid}
        /\ task'[c].pgrp = task[c].pgrp /\ task'[c].session = task[c].session
    BY <1>1, <2>1, <2>2 DEF Born, TaskStruct
  <2>4. \A p \in Tasks : task'[p].state # "free" =>
           /\ task[p].state # "free" /\ task'[p].pid = task[p].pid
           /\ {task'[p].pgrp, task'[p].tgid, task'[p].session} \subseteq Ids(task, Living)
    BY <2>1, <2>2, <2>3 DEF Ids, Living
  <2> QED  BY <2>1, <2>4, IdsKept
<1>5. ASSUME NEW t \in Tasks, NEW p \in Tasks, NEW pgid \in Pids, SetPgid(t, p, pgid)
      PROVE  IdsKnown'
  <2>1. /\ UNCHANGED <<last_pid, next_safe>> /\ p \in AllLinked
        /\ MaySetPgid(t, p, pgid) /\ excused \subseteq excused'
    BY <1>5 DEF SetPgid
  <2>2. /\ task'[p] = [task[p] EXCEPT !.pgrp = pgid, !.exit_code = Untold(task[p].exit_code)]
        /\ \A q \in Tasks \ {p} : task'[q] = task[q]
        /\ Shapes'
    BY <1>1, <1>5, SetPgidEffect
  <2>3. /\ task'[p].pid = task[p].pid /\ task'[p].tgid = task[p].tgid
        /\ task'[p].pgrp = pgid /\ task'[p].session = task[p].session
        /\ task'[p].state = task[p].state
    BY <1>1, <2>2 DEF TaskStruct
  <2>4. pgid \in Ids(task, Living)
    BY <2>1 DEF MaySetPgid, AllLinked, Linked, Ids, Living
  <2>5. ASSUME NEW q \in Tasks, task'[q].state # "free"
        PROVE  /\ task[q].state # "free" /\ task'[q].pid = task[q].pid
               /\ {task'[q].pgrp, task'[q].tgid, task'[q].session} \subseteq Ids(task, Living)
    <3>1. CASE q = p
      BY <1>1, <2>5, <2>3, <2>4, <3>1
    <3>2. CASE q # p
      <4>1. task'[q] = task[q]
        BY <2>2, <3>2
      <4> QED  BY <1>1, <2>5, <4>1
    <3> QED  BY <3>1, <3>2
  <2> QED  BY <2>1, <2>5, IdsKept
<1>6. ASSUME NEW t \in Tasks, SetSid(t) PROVE IdsKnown'
  <2>1. /\ UNCHANGED <<last_pid, next_safe, excused>> /\ task[t].state # "free"
    BY <1>6 DEF SetSid, Program, InUser
  <2>2. /\ task'[t] = [task[t] EXCEPT !.leader = TRUE, !.session = task[t].pid,
                                      !.pgrp = task[t].pid]
        /\ \A q \in Tasks \ {t} : task'[q] = task[q]
    BY <1>1, <1>6, SetSidEffect
  <2>3. /\ task'[t].pid = task[t].pid /\ task'[t].tgid = task[t].tgid
        /\ task'[t].pgrp = task[t].pid /\ task'[t].session = task[t].pid
    BY <1>1, <2>2 DEF TaskStruct
  <2>4. ASSUME NEW q \in Tasks, task'[q].state # "free"
        PROVE  /\ task[q].state # "free" /\ task'[q].pid = task[q].pid
               /\ {task'[q].pgrp, task'[q].tgid, task'[q].session} \subseteq Ids(task, Living)
    <3>1. CASE q = t
      BY <1>1, <2>4, <2>1, <2>3, <3>1
    <3>2. CASE q # t
      <4>1. task'[q] = task[q]
        BY <2>2, <3>2
      <4> QED  BY <1>1, <2>4, <4>1
    <3> QED  BY <3>1, <3>2
  <2> QED  BY <2>1, <2>4, IdsKept
<1>7. CASE UNCHANGED vars
  BY <1>7 DEF vars, IdsKnown, Ids, Living
<1>8. CASE Next
  BY <1>2, <1>3, <1>4, <1>5, <1>6, <1>8, QuietSteps DEF Next
<1> QED  BY <1>7, <1>8

LEMMA InitIdsKnown == Init => IdsKnown
<1> SUFFICES ASSUME Init PROVE IdsKnown
  OBVIOUS
<1>1. Living = {Reaper} /\ Reaper \in Tasks
  BY ReaperAssumption DEF Init, Living, Unused
<1>2. /\ task[Reaper].pid = 1 /\ task[Reaper].pgrp = 1 /\ task[Reaper].tgid = 1
      /\ task[Reaper].session = 1
  BY <1>1 DEF Init, Unused, InitPid
<1>3. Ids(task, Living) = {1}
  BY <1>1, <1>2 DEF Ids
<1>4. ~(last_pid < 1)
  BY PidAssumption DEF Init
<1> QED  BY <1>1, <1>3, <1>4 DEF IdsKnown

LEMMA BaseTypes == Base => TypeOK
<1> SUFFICES ASSUME Base PROVE TypeOK
  OBVIOUS
<1>1. \A t \in Tasks :
          /\ call[t].at \in {"user", "fork", "asleep", "woken", "status", "report"}
          /\ call[t].at # "user" => task[t].state = "running"
          /\ call[t].at = "fork" => task[call[t].child].state = "embryo"
  BY CallFields DEF Base, Places, Forking
<1>2. task \in [Tasks -> TaskStruct]
  BY DEF Base, Shapes
<1> QED  BY <1>1, <1>2 DEF TypeOK, TaskStruct, Base, Shapes, Excuses

(* As long as a pid is free and every search has seen the ids of the forks *)
(* in flight, no pid is given out twice (fork.c:88-142).                   *)
THEOREM PidsAreUnique == Spec => []PidsUnique
<1>1. Base /\ IdsKnown => PidsUnique
  BY BaseTypes DEF PidsUnique, IdsKnown, Living, AllLinked, Linked
<1>2. Spec => []IdsKnown
  BY Invariant, InitIdsKnown, NextIdsKnown, PTL DEF Spec
<1> QED  BY <1>1, <1>2, Invariant, PTL

------------------------------------------------------------------------------
(* While, moreover, no task changed its group inside do_fork() or as a     *)
(* zombie: a group is in one session; so is the group that a task's own    *)
(* pid names, which sys_setpgid() lets it found or join; and an embryo is  *)
(* where its parent is.                                                    *)
Sessions ==
    excused \cap {"exhausted", "unseen", "moved"} = {} =>
        /\ \A t, u \in Living : task[t].pgrp = task[u].pgrp => task[t].session = task[u].session
        /\ \A t, u \in Living : task[t].pgrp = task[u].pid => task[t].session = task[u].session
        /\ \A t \in Tasks : call[t].at = "fork" =>
              /\ task[call[t].child].pgrp = task[t].pgrp
              /\ task[call[t].child].session = task[t].session

(* A step in which nobody's ids change. *)
LEMMA SessionsKept ==
    ASSUME Base, Sessions, excused \subseteq excused',
           \A p \in Tasks : task'[p].state # "free" =>
               /\ task[p].state # "free" /\ task'[p].pid = task[p].pid
               /\ task'[p].pgrp = task[p].pgrp /\ task'[p].session = task[p].session,
           \A p \in Tasks : call'[p].at = "fork" =>
               /\ call'[p] = call[p]
               /\ task'[p].state # "free" /\ task'[call[p].child].state # "free"
    PROVE  Sessions'
<1> SUFFICES ASSUME excused' \cap {"exhausted", "unseen", "moved"} = {}
             PROVE  Sessions'
  BY DEF Sessions
<1>1. /\ \A t, u \in Living : task[t].pgrp = task[u].pgrp => task[t].session = task[u].session
      /\ \A t, u \in Living : task[t].pgrp = task[u].pid => task[t].session = task[u].session
      /\ \A t \in Tasks : call[t].at = "fork" =>
            /\ task[call[t].child].pgrp = task[t].pgrp
            /\ task[call[t].child].session = task[t].session
  BY DEF Sessions
<1>2. \A t \in Tasks : call[t].at = "fork" => call[t].child \in Tasks
  BY CallFields DEF Base
<1>3. /\ (\A t, u \in Living : task[t].pgrp = task[u].pgrp => task[t].session = task[u].session)'
      /\ (\A t, u \in Living : task[t].pgrp = task[u].pid => task[t].session = task[u].session)'
  BY <1>1 DEF Living
<1>4. (\A t \in Tasks : call[t].at = "fork" =>
          /\ task[call[t].child].pgrp = task[t].pgrp
          /\ task[call[t].child].session = task[t].session)'
  BY <1>1, <1>2
<1> QED  BY <1>3, <1>4 DEF Sessions

LEMMA NextSessions == Base /\ Base' /\ IdsKnown /\ Sessions /\ [Next]_vars => Sessions'
<1> SUFFICES ASSUME Base, Base', IdsKnown, Sessions, [Next]_vars PROVE Sessions'
  OBVIOUS
<1>1. /\ Shapes /\ \A p \in Tasks : task[p] \in TaskStruct
      /\ task \in [Tasks -> TaskStruct]
      /\ \A p \in Tasks : call[p].at = "fork" => call[p].child \in Tasks
      /\ \A p \in Tasks : call[p].at = "fork" =>
            task[p].state # "free" /\ task[call[p].child].state = "embryo"
      /\ \A p \in Tasks : call[p].at # "user" <=> call[p] # User
  BY CallFields DEF Base, Shapes, Places, Forking, User
<1>2. \A p \in Tasks : call'[p].at = "fork" =>
            task'[p].state # "free" /\ task'[call'[p].child].state = "embryo"
  BY DEF Base, Places, Forking, User
<1>3. ASSUME Quiet PROVE Sessions'
  BY <1>2, <1>3, SessionsKept DEF Quiet, KeptIds
<1>4. ASSUME NEW t \in Tasks, NEW c \in Tasks, NEW clone \in Forks, ForkStart(t, c, clone)
      PROVE  Sessions'
  <2>1. PICK f \in GetPid :
            /\ task' = [task EXCEPT ![c] = Embryo(t, f.pid, clone)]
            /\ excused' = IF f \in Found(Ids(task, AllLinked \cup Embryos))
                          THEN excused ELSE excused \cup {"unseen"}
    BY <1>4 DEF ForkStart
  <2>2. /\ task'[c] = Embryo(t, f.pid, clone) /\ \A p \in Tasks \ {c} : task'[p] = task[p]
        /\ task[t].state = "running" /\ task[c].state = "free"
        /\ call' = [call EXCEPT ![t] = [at |-> "fork", child |-> c, flags |-> clone.flags]]
    BY <1>1, <1>4, <2>1 DEF ForkStart, InUser
  <2>3. /\ task'[c].pid = f.pid
        /\ task'[c].pgrp = task[t].pgrp /\ task'[c].session = task[t].session
    BY <1>1, <2>2 DEF Embryo, TaskStruct
  <2>4. call'[t].child = c /\ \A p \in Tasks \ {t} : call'[p] = call[p]
    BY <1>1, <2>2 DEF Shapes
  <2> SUFFICES ASSUME excused' \cap {"exhausted", "unseen", "moved"} = {}
               PROVE  Sessions'
    BY DEF Sessions
  <2>5. /\ f \in Found(Ids(task, Living))
        /\ excused \cap {"exhausted", "unseen", "moved"} = {}
        /\ excused \cap {"exhausted", "unseen"} = {}
    BY <2>1, LivingIsListed
  <2>6. f.pid \notin Ids(task, Living)
    BY <1>1, <2>5, IdsArePids, FoundPid DEF IdsKnown, Living
  <2>7. \A p \in Living : task[p].pgrp # f.pid
    BY <2>6 DEF Ids, Living
  <2>8. /\ \A p, u \in Living : task[p].pgrp = task[u].pgrp => task[p].session = task[u].session
        /\ \A p, u \in Living : task[p].pgrp = task[u].pid => task[p].session = task[u].session
        /\ \A p \in Tasks : call[p].at = "fork" =>
              /\ task[call[p].child].pgrp = task[p].pgrp
              /\ task[call[p].child].session = task[p].session
    BY <2>5 DEF Sessions
  <2>9. (\A p, u \in Living : task[p].pgrp = task[u].pgrp => task[p].session = task[u].session)'
    BY <2>2, <2>3, <2>8 DEF Living
  <2>10. (\A p, u \in Living : task[p].pgrp = task[u].pid => task[p].session = task[u].session)'
    BY <2>2, <2>3, <2>7, <2>8 DEF Living
  <2>11. (\A p \in Tasks : call[p].at = "fork" =>
              /\ task[call[p].child].pgrp = task[p].pgrp
              /\ task[call[p].child].session = task[p].session)'
    BY <1>1, <2>2, <2>3, <2>4, <2>8
  <2> QED  BY <2>9, <2>10, <2>11 DEF Sessions
<1>5. ASSUME NEW t \in Tasks, ForkLink(t) PROVE Sessions'
  <2> DEFINE c == call[t].child
  <2>1. /\ c \in Tasks /\ task[c].state = "embryo" /\ task[t].state = "running"
        /\ task' = [task EXCEPT ![c] = Born(t, c)]
        /\ call' = [call EXCEPT ![t] = User]
        /\ UNCHANGED <<last_pid, next_safe, forks, released, excused>>
    BY <1>1, <1>5, CallFields DEF ForkLink, Base, Forking, Places, User
  <2> HIDE DEF c
  <2>2. /\ task'[c] = Born(t, c) /\ \A p \in Tasks \ {c} : task'[p] = task[p]
        /\ call'[t] = User /\ \A p \in Tasks \ {t} : call'[p] = call[p]
    BY <1>1, <2>1 DEF Shapes
  <2>3. /\ task'[c].pid = task[c].pid /\ task'[c].state = "running"
        /\ task'[c].pgrp = task[c].pgrp /\ task'[c].session = task[c].session
    BY <1>1, <2>1, <2>2 DEF Born, TaskStruct
  <2>4. \A p \in Tasks : task'[p].state # "free" =>
               /\ task[p].state # "free" /\ task'[p].pid = task[p].pid
               /\ task'[p].pgrp = task[p].pgrp /\ task'[p].session = task[p].session
    BY <2>1, <2>2, <2>3
  <2>5. \A p \in Tasks : call'[p].at = "fork" => call'[p] = call[p]
    BY <2>2 DEF User
  <2> QED  BY <1>2, <2>1, <2>4, <2>5, SessionsKept
<1>6. ASSUME NEW t \in Tasks, NEW p \in Tasks, NEW pgid \in Pids, SetPgid(t, p, pgid)
      PROVE  Sessions'
  <2>1. /\ UNCHANGED <<last_pid, next_safe, call>> /\ p \in AllLinked
        /\ MaySetPgid(t, p, pgid) /\ excused \subseteq excused'
        /\ task[t].state = "running"
    BY <1>6 DEF SetPgid, Program, InUser
  <2>2. /\ task'[p] = [task[p] EXCEPT !.pgrp = pgid, !.exit_code = Untold(task[p].exit_code)]
        /\ \A q \in Tasks \ {p} : task'[q] = task[q]
        /\ Shapes'
    BY <1>1, <1>6, SetPgidEffect
  <2>3. /\ task'[p].pid = task[p].pid
        /\ task'[p].pgrp = pgid /\ task'[p].session = task[p].session
        /\ task'[p].state = task[p].state
    BY <1>1, <2>2 DEF TaskStruct
  <2>4. CASE task[p].pgrp = pgid
    <3>1. \A q \in Tasks : task'[q].state # "free" =>
               /\ task[q].state # "free" /\ task'[q].pid = task[q].pid
               /\ task'[q].pgrp = task[q].pgrp /\ task'[q].session = task[q].session
      BY <2>2, <2>3, <2>4
    <3> QED  BY <1>2, <2>1, <3>1, SessionsKept
  <2>5. CASE task[p].pgrp # pgid
    <3> SUFFICES ASSUME excused' \cap {"exhausted", "unseen", "moved"} = {}
                 PROVE  Sessions'
      BY DEF Sessions
    <3>1. /\ call[p] = User
          /\ excused \cap {"exhausted", "unseen", "moved"} = {}
          /\ excused \cap {"exhausted", "unseen"} = {}
      BY <1>6, <2>1, <2>5 DEF SetPgid
    <3>2. /\ \A q, u \in Living : task[q].pgrp = task[u].pgrp => task[q].session = task[u].session
          /\ \A q, u \in Living : task[q].pgrp = task[u].pid => task[q].session = task[u].session
          /\ \A q \in Tasks : call[q].at = "fork" =>
                /\ task[call[q].child].pgrp = task[q].pgrp
                /\ task[call[q].child].session = task[q].session
      BY <3>1 DEF Sessions
    <3>3. \A q, u \in Living : task[q].pid = task[u].pid => q = u
      BY <3>1 DEF IdsKnown
    <3>4. p \in Living /\ task[p].state # "embryo"
      BY <2>1 DEF AllLinked, Linked, Living
    <3>5. /\ \A u \in Living : task[u].pgrp = pgid => task[u].session = task[p].session
          /\ \A u \in Living : task[u].pid = pgid => task[u].session = task[p].session
      <4>1. CASE pgid = task[p].pid
        BY <3>2, <3>3, <3>4, <4>1
      <4>2. CASE pgid # task[p].pid
        <5>1. PICK q \in AllLinked : task[q].pgrp = pgid /\ task[q].session = task[t].session
          BY <2>1, <4>2 DEF MaySetPgid
        <5>2. q \in Living /\ task[q].session = task[p].session
          BY <2>1, <5>1 DEF MaySetPgid, AllLinked, Linked, Living
        <5> QED  BY <3>2, <5>1, <5>2
      <4> QED  BY <4>1, <4>2
    <3>6. ASSUME NEW q \in Tasks
          PROVE  /\ task'[q].pid = task[q].pid /\ task'[q].session = task[q].session
                 /\ task'[q].state = task[q].state
                 /\ task'[q].pgrp = IF q = p THEN pgid ELSE task[q].pgrp
      BY <2>2, <2>3
    <3>7. (\A q, u \in Living : task[q].pgrp = task[u].pgrp => task[q].session = task[u].session)'
      BY <3>2, <3>4, <3>5, <3>6 DEF Living
    <3>8. (\A q, u \in Living : task[q].pgrp = task[u].pid => task[q].session = task[u].session)'
      BY <3>2, <3>4, <3>5, <3>6 DEF Living
    <3>9. (\A q \in Tasks : call[q].at = "fork" =>
                /\ task[call[q].child].pgrp = task[q].pgrp
                /\ task[call[q].child].session = task[q].session)'
      BY <1>1, <2>1, <3>1, <3>2, <3>4, <3>6 DEF User
    <3> QED  BY <3>7, <3>8, <3>9 DEF Sessions
  <2> QED  BY <2>4, <2>5
<1>7. ASSUME NEW t \in Tasks, SetSid(t) PROVE Sessions'
  <2>1. /\ UNCHANGED <<last_pid, next_safe, excused, call>>
        /\ task[t].state = "running" /\ call[t] = User /\ MaySetSid(t)
    BY <1>7 DEF SetSid, Program, InUser
  <2>2. /\ task'[t] = [task[t] EXCEPT !.leader = TRUE, !.session = task[t].pid,
                                      !.pgrp = task[t].pid]
        /\ \A q \in Tasks \ {t} : task'[q] = task[q]
    BY <1>1, <1>7, SetSidEffect
  <2>3. /\ task'[t].pid = task[t].pid /\ task'[t].state = task[t].state
        /\ task'[t].pgrp = task[t].pid /\ task'[t].session = task[t].pid
    BY <1>1, <2>2 DEF TaskStruct
  <2> SUFFICES ASSUME excused' \cap {"exhausted", "unseen", "moved"} = {}
               PROVE  Sessions'
    BY DEF Sessions
  <2>4. /\ excused \cap {"exhausted", "unseen", "moved"} = {}
        /\ excused \cap {"exhausted", "unseen"} = {}
    BY <2>1
  <2>5. /\ \A q, u \in Living : task[q].pgrp = task[u].pgrp => task[q].session = task[u].session
        /\ \A q, u \in Living : task[q].pgrp = task[u].pid => task[q].session = task[u].session
        /\ \A q \in Tasks : call[q].at = "fork" =>
              /\ task[call[q].child].pgrp = task[q].pgrp
              /\ task[call[q].child].session = task[q].session
        /\ \A q, u \in Living : task[q].pid = task[u].pid => q = u
    BY <2>4 DEF Sessions, IdsKnown
  <2>6. \A q \in AllLinked : task[q].pgrp # task[t].pid
    BY <2>1 DEF MaySetSid
  <2>7. \A q \in Living : task[q].pgrp # task[t].pid
    <3>1. ASSUME NEW q \in Embryos PROVE task[q].pgrp # task[t].pid
      <4>1. PICK r \in Tasks : call[r].at = "fork" /\ call[r].child = q
        BY DEF Base, Forking
      <4>2. r \in AllLinked
        BY <4>1 DEF Base, Places, User, AllLinked, Linked
      <4> QED  BY <2>5, <2>6, <4>1, <4>2
    <3> QED  BY <2>6, <3>1, LivingIsListed
  <2>8. ASSUME NEW q \in Tasks
        PROVE  /\ task'[q].pid = task[q].pid /\ task'[q].state = task[q].state
               /\ task'[q].session = IF q = t THEN task[t].pid ELSE task[q].session
               /\ task'[q].pgrp = IF q = t THEN task[t].pid ELSE task[q].pgrp
    BY <2>2, <2>3
  <2>9. (\A q, u \in Living : task[q].pgrp = task[u].pgrp => task[q].session = task[u].session)'
    BY <2>5, <2>7, <2>8 DEF Living
  <2>10. t \in Living
    BY <2>1 DEF Living
  <2>11. (\A q, u \in Living : task[q].pgrp = task[u].pid => task[q].session = task[u].session)'
    BY <2>5, <2>7, <2>8, <2>10 DEF Living
  <2>12. (\A q \in Tasks : call[q].at = "fork" =>
              /\ task[call[q].child].pgrp = task[q].pgrp
              /\ task[call[q].child].session = task[q].session)'
    BY <1>1, <2>1, <2>5, <2>8 DEF User
  <2> QED  BY <2>9, <2>11, <2>12 DEF Sessions
<1>8. CASE UNCHANGED vars
  BY <1>8 DEF vars, Sessions, Living
<1>9. CASE Next
  BY <1>3, <1>4, <1>5, <1>6, <1>7, <1>9, QuietSteps DEF Next
<1> QED  BY <1>8, <1>9

LEMMA InitSessions == Init => Sessions
<1> SUFFICES ASSUME Init PROVE Sessions
  OBVIOUS
<1>1. Living = {Reaper} /\ \A t \in Tasks : call[t] = User
  BY ReaperAssumption DEF Init, Living, Unused
<1> QED  BY <1>1 DEF Sessions, User

(* sys_setpgid() and sys_setsid() never spread a process group over two    *)
(* sessions, and no new pid is the id of one (sys.c:842-893, 939-958).     *)
THEOREM GroupsAreInSessions == Spec => []GroupsInSessions
<1>1. Sessions => GroupsInSessions
  BY DEF GroupsInSessions, Sessions, Living, AllLinked, Linked
<1>2. Spec => []IdsKnown
  BY Invariant, InitIdsKnown, NextIdsKnown, PTL DEF Spec
<1>3. Spec => []Sessions
  BY Invariant, <1>2, InitSessions, NextSessions, PTL DEF Spec
<1> QED  BY <1>1, <1>3, PTL

------------------------------------------------------------------------------
(* What every handler but exit_notify() and the release of a zombie leaves  *)
(* of a task, as sys_wait4() sees it: a zombie stays one, for the same      *)
(* parent and the same signal, and whoever stops anew, or gets a new parent *)
(* while it is stopped, is told of or is no news.                           *)
NoNews(p) ==
    \A s \in Tasks : call'[s].at = "asleep" =>
        \/ task'[p].exit_code # "told"
        \/ task'[task'[p].p_pptr].tgid # task'[s].tgid

SameStop(p) ==
    /\ task[p].state = "stopped"
    /\ task'[p].pgrp = task[p].pgrp /\ task'[p].p_pptr = task[p].p_pptr
    /\ task'[p].exit_signal = task[p].exit_signal
    /\ task'[p].ptraced = task[p].ptraced /\ task'[p].exit_code = task[p].exit_code

Steady(p) ==
    /\ task[p].state \notin {"free", "embryo"} =>
          /\ task'[p].state \notin {"free", "embryo"}
          /\ task'[p].tgid = task[p].tgid /\ task'[p].pid = task[p].pid
          /\ \/ task'[p].pgrp = task[p].pgrp \/ "moved" \in excused'
             \/ (call[p] = User /\ task[p].state # "zombie")
    /\ task'[p].state = "zombie" <=> task[p].state = "zombie"
    /\ task[p].state = "zombie" => /\ task'[p].p_pptr = task[p].p_pptr
                                   /\ task'[p].exit_signal = task[p].exit_signal
    /\ task'[p].state = "stopped" => SameStop(p) \/ NoNews(p)

(* What they leave of a caller of sys_wait4().  Who finds a zombie is the   *)
(* only thread of its group to have found it, or that is noted.             *)
Alone(s) ==
    /\ \A q \in Tasks \ {s} : call'[q] = call[q]
    /\ \/ "shared" \in excused'
       \/ \A q \in Group(task, s) \ {s} :
              ~(call[q].at = "status" /\ call[q].child = call'[s].child)

Caller(s) ==
    /\ call'[s].at = "status" =>
          \/ call'[s] = call[s]
          \/ /\ task' = task /\ task[call'[s].child].state = "zombie"
             /\ task[task[call'[s].child].p_pptr].tgid = task[s].tgid
             /\ Alone(s)
    /\ call'[s].at = "asleep" =>
          \/ call'[s] = call[s]
          \/ /\ task' = task
             /\ Zombies(s, call'[s].want) = {} /\ Reportable(s, call'[s].want) = {}

Calm ==
    /\ \A p \in Tasks : Steady(p) /\ Caller(p)
    /\ released' = released /\ excused \subseteq excused'

LEMMA Untouched ==
    ASSUME Shapes, NEW p \in Tasks, task'[p] = task[p]
    PROVE  Steady(p)
BY DEF Steady, SameStop

LEMMA ScanCalm ==
    ASSUME Base, NEW t \in Tasks, NEW want \in Waits, Scan(t, want),
           UNCHANGED <<task, last_pid, next_safe, forks, released>>
    PROVE  Calm
<1>1. Shapes
  BY DEF Base
<1>2. PICK d \in Calls :
              /\ call' = [call EXCEPT ![t] = d]
              /\ \/ d = User /\ excused' = excused
                 \/ /\ d = [at |-> "asleep", want |-> want] /\ excused' = excused
                    /\ Zombies(t, want) = {} /\ Reportable(t, want) = {}
                 \/ \E p \in Zombies(t, want) :
                       d = [at |-> "status", child |-> p] /\ excused' = excused \cup Shared(t, p)
                 \/ \E p \in Reportable(t, want) :
                       d = [at |-> "report", child |-> p] /\ excused' = excused
  BY <1>1, ScanEffect
<1>3. call'[t] = d /\ \A q \in Tasks \ {t} : call'[q] = call[q]
  BY <1>1, <1>2 DEF Shapes
<1>4. ASSUME d.at = "status"
      PROVE  /\ task[d.child].state = "zombie"
             /\ task[task[d.child].p_pptr].tgid = task[t].tgid
             /\ Alone(t)
  <2>1. PICK p \in Zombies(t, want) :
            d = [at |-> "status", child |-> p] /\ excused' = excused \cup Shared(t, p)
    BY <1>2, <1>4 DEF User
  <2>2. Alone(t)
    BY <1>3, <2>1 DEF Alone, Shared
  <2> QED  BY <2>1, <2>2 DEF Zombies, Matching, Group
<1>5. ASSUME d.at = "asleep"
      PROVE  /\ d.want = want
             /\ Zombies(t, want) = {} /\ Reportable(t, want) = {}
  BY <1>2, <1>5 DEF User
<1>6. Caller(t)
  BY <1>3, <1>4, <1>5 DEF Caller
<1>7. \A q \in Tasks \ {t} : Caller(q)
  BY <1>3 DEF Caller
<1>8. \A q \in Tasks : Steady(q)
  BY <1>1, Untouched
<1>9. excused \subseteq excused'
  BY <1>2
<1> QED  BY <1>6, <1>7, <1>8, <1>9 DEF Calm

LEMMA CalmSteps ==
    ASSUME Base, NEW t \in Tasks,
           \/ \E c \in Tasks, clone \in Forks : ForkStart(t, c, clone)
           \/ ForkNoPid(t) \/ ForkFail(t) \/ ForkLink(t)
           \/ \E p \in Tasks, pgid \in Pids : SetPgid(t, p, pgid)
           \/ SetSid(t)
           \/ Stop(t) \/ Continue(t)
           \/ \E c \in Tasks : PtraceAttach(t, c) \/ PtraceDetach(t, c)
           \/ ExitStart(t)
           \/ \E want \in Waits : Wait4(t, want)
           \/ Repeat(t) \/ Wait4Fails(t) \/ Report(t)
    PROVE  Calm
<1>1. /\ Shapes /\ Places /\ Fathered
      /\ \A p \in Tasks : task[p] \in TaskStruct
      /\ task \in [Tasks -> TaskStruct]
      /\ \A p \in Tasks : call[p].at # "user" <=> call[p] # User
  BY CallFields DEF Base, Shapes
<1>2. ASSUME NEW c \in Tasks, Steady(c), \A p \in Tasks \ {c} : task'[p] = task[p],
             \A p \in Tasks : Caller(p),
             released' = released, excused \subseteq excused'
      PROVE  Calm
  BY <1>1, <1>2, Untouched DEF Calm
<1>3. ASSUME call' = call PROVE \A p \in Tasks : Caller(p)
  BY <1>3 DEF Caller
<1>4. ASSUME NEW c \in Tasks, NEW clone \in Forks, ForkStart(t, c, clone) PROVE Calm
  <2>1. PICK f \in GetPid :
          /\ task' = [task EXCEPT ![c] = Embryo(t, f.pid, clone)]
          /\ excused \subseteq excused'
    BY <1>4 DEF ForkStart
  <2>2. /\ task[c].state = "free" /\ released' = released
        /\ call' = [call EXCEPT ![t] = [at |-> "fork", child |-> c, flags |-> clone.flags]]
    BY <1>4 DEF ForkStart
  <2>3. task'[c].state = "embryo" /\ \A p \in Tasks \ {c} : task'[p] = task[p]
    BY <1>1, <2>1 DEF Embryo, TaskStruct
  <2>4. call'[t].at = "fork" /\ \A p \in Tasks \ {t} : call'[p] = call[p]
    BY <1>1, <2>2 DEF Shapes
  <2> QED  BY <1>2, <2>1, <2>2, <2>3, <2>4 DEF Steady, Caller
<1>5. CASE ForkNoPid(t)
  <2>1. task' = task /\ call' = call /\ released' = released /\ excused \subseteq excused'
    BY <1>5 DEF ForkNoPid
  <2> QED  BY <1>1, <1>3, <2>1, Untouched DEF Calm
<1>6. CASE ForkFail(t)
  <2> DEFINE c == call[t].child
  <2>1. /\ c \in Tasks /\ task[c].state = "embryo" /\ released' = released /\ excused' = excused
        /\ task' = [task EXCEPT ![c] = Unused] /\ call' = [call EXCEPT ![t] = User]
    BY <1>1, <1>6, CallFields DEF ForkFail, Base, Forking
  <2> HIDE DEF c
  <2>2. /\ task'[c].state = "free" /\ \A p \in Tasks \ {c} : task'[p] = task[p]
        /\ call'[t].at = "user" /\ \A p \in Tasks \ {t} : call'[p] = call[p]
    BY <1>1, <2>1 DEF Shapes, Unused, User
  <2> QED  BY <1>2, <2>1, <2>2 DEF Steady, Caller
<1>7. CASE ForkLink(t)
  <2> DEFINE c == call[t].child
  <2>1. /\ c \in Tasks /\ task[c].state = "embryo" /\ released' = released /\ excused' = excused
        /\ task' = [task EXCEPT ![c] = Born(t, c)] /\ call' = [call EXCEPT ![t] = User]
    BY <1>1, <1>7, CallFields DEF ForkLink, Base, Forking
  <2> HIDE DEF c
  <2>2. /\ task'[c] = Born(t, c) /\ \A p \in Tasks \ {c} : task'[p] = task[p]
        /\ call'[t].at = "user" /\ \A p \in Tasks \ {t} : call'[p] = call[p]
    BY <1>1, <2>1 DEF Shapes, User
  <2>3. task'[c].state = "running"
    BY <1>1, <2>1, <2>2 DEF Born, TaskStruct
  <2> QED  BY <1>2, <2>1, <2>2, <2>3 DEF Steady, Caller
<1>8. ASSUME NEW p \in Tasks, NEW pgid \in Pids, SetPgid(t, p, pgid) PROVE Calm
  <2>1. /\ call' = call /\ released' = released /\ p \in AllLinked
        /\ excused' = IF task[p].pgrp # pgid /\ (call[p] # User \/ task[p].state = "zombie")
                      THEN excused \cup {"moved"} ELSE excused
    BY <1>8 DEF SetPgid
  <2>2. /\ task'[p] = [task[p] EXCEPT !.pgrp = pgid, !.exit_code = Untold(task[p].exit_code)]
        /\ \A q \in Tasks \ {p} : task'[q] = task[q]
        /\ Shapes'
    BY <1>1, <1>8, SetPgidEffect
  <2>3. /\ task'[p].state = task[p].state /\ task'[p].pid = task[p].pid
        /\ task'[p].tgid = task[p].tgid /\ task'[p].pgrp = pgid
        /\ task'[p].p_pptr = task[p].p_pptr /\ task'[p].exit_signal = task[p].exit_signal
        /\ task'[p].exit_code = Untold(task[p].exit_code)
    BY <1>1, <2>2 DEF TaskStruct
  <2>4. NoNews(p)
    BY <2>1, <2>3 DEF NoNews, Untold
  <2>5. Steady(p)
    BY <2>1, <2>3, <2>4 DEF Steady
  <2> QED  BY <1>2, <1>3, <2>1, <2>2, <2>5
<1>9. CASE SetSid(t)
  <2>1. /\ call' = call /\ released' = released /\ excused' = excused
        /\ task[t].state = "running" /\ call[t] = User
    BY <1>9 DEF SetSid, Program, InUser
  <2>2. /\ task'[t] = [task[t] EXCEPT !.leader = TRUE, !.session = task[t].pid,
                                      !.pgrp = task[t].pid]
        /\ \A q \in Tasks \ {t} : task'[q] = task[q]
    BY <1>1, <1>9, SetSidEffect
  <2>3. /\ task'[t].state = "running" /\ task'[t].pid = task[t].pid
        /\ task'[t].tgid = task[t].tgid
    BY <1>1, <2>1, <2>2 DEF TaskStruct
  <2> QED  BY <1>2, <1>3, <2>1, <2>2, <2>3 DEF Steady
<1>10. CASE Stop(t)
  <2>1. /\ released' = released /\ excused' = excused
        /\ task[t].state = "running" /\ call[t] = User
    BY <1>10 DEF Stop, Program, InUser
  <2>2. /\ task'[t] = [task[t] EXCEPT !.state = "stopped", !.exit_code = "told"]
        /\ \A q \in Tasks \ {t} : task'[q] = task[q]
        /\ call' = Notified(task, {task[t].p_pptr})
    BY <1>1, <1>10, StopEffect
  <2>3. /\ task'[t].state = "stopped" /\ task'[t].pid = task[t].pid
        /\ task'[t].tgid = task[t].tgid /\ task'[t].p_pptr = task[t].p_pptr
        /\ task'[t].pgrp = task[t].pgrp
    BY <1>1, <2>2 DEF TaskStruct
  <2> DEFINE N == Notified(task, {task[t].p_pptr})
  <2>4. /\ \A q \in Tasks : N[q] = call[q] \/ (call[q].at = "asleep" /\ N[q].at = "woken")
        /\ \A q \in Tasks : N[q].at = "asleep" =>
              call[q].at = "asleep" /\ q \notin Group(task, task[t].p_pptr)
    <3>1. \A q \in Tasks : N[q] = call[q] \/ (call[q].at = "asleep" /\ N[q].at = "woken")
      BY <1>1, NotifiedCalls
    <3>2. ASSUME NEW q \in Tasks, call[q].at = "asleep", q \in Group(task, task[t].p_pptr)
          PROVE  N[q].at = "woken"
      <4>1. call[q] = [at |-> "asleep", want |-> call[q].want]
        BY <1>1, <3>2, CallFields
      <4> QED  BY <3>2, <4>1 DEF Notified
    <3> HIDE DEF N
    <3> QED  BY <3>1, <3>2
  <2> HIDE DEF N
  <2>5. call' = N
    BY <2>2 DEF N
  <2>6. \A q \in Tasks : Caller(q)
    BY <2>4, <2>5 DEF Caller
  <2>7. \A q \in Tasks : task'[q].tgid = task[q].tgid
    BY <2>2, <2>3
  <2>8. NoNews(t)
    <3> SUFFICES ASSUME NEW s \in Tasks, call'[s].at = "asleep"
                 PROVE  task'[task'[t].p_pptr].tgid # task'[s].tgid
      BY DEF NoNews
    <3>1. call[s].at = "asleep" /\ s \notin Group(task, task[t].p_pptr)
      BY <2>4, <2>5
    <3>2. s \in Linked(task) /\ task[t].p_pptr \in Tasks
      BY <1>1, <3>1 DEF Places, User, Linked, TaskStruct
    <3> QED  BY <2>3, <2>7, <3>1, <3>2 DEF Group
  <2>9. Steady(t)
    BY <2>1, <2>3, <2>8 DEF Steady
  <2> QED  BY <1>2, <2>1, <2>2, <2>6, <2>9
<1>11. CASE Continue(t)
  <2>1. call' = call /\ released' = released /\ excused' = excused /\ task[t].state = "stopped"
    BY <1>11 DEF Continue
  <2>2. /\ task'[t] = [task[t] EXCEPT !.state = "running", !.exit_code = "zero"]
        /\ \A q \in Tasks \ {t} : task'[q] = task[q]
    BY <1>1, <1>11, ContinueEffect
  <2>3. /\ task'[t].state = "running" /\ task'[t].pid = task[t].pid
        /\ task'[t].tgid = task[t].tgid /\ task'[t].pgrp = task[t].pgrp
    BY <1>1, <2>2 DEF TaskStruct
  <2> QED  BY <1>2, <1>3, <2>1, <2>2, <2>3 DEF Steady
<1>12. ASSUME NEW c \in Tasks, PtraceAttach(t, c) PROVE Calm
  <2>1. /\ call' = call /\ released' = released /\ excused' = excused
        /\ task[c].state \in {"running", "stopped"}
    BY <1>12 DEF PtraceAttach
  <2>2. /\ task'[c] = [task[c] EXCEPT !.p_pptr = t, !.ptraced = TRUE,
                                      !.exit_code = Untold(task[c].exit_code)]
        /\ \A q \in Tasks \ {c} : task'[q] = task[q]
    BY <1>1, <1>12, AttachEffect
  <2>3. /\ task'[c].state = task[c].state /\ task'[c].pid = task[c].pid
        /\ task'[c].tgid = task[c].tgid /\ task'[c].pgrp = task[c].pgrp
        /\ task'[c].exit_code = Untold(task[c].exit_code)
    BY <1>1, <2>2 DEF TaskStruct
  <2>4. NoNews(c)
    BY <2>1, <2>3 DEF NoNews, Untold
  <2>5. Steady(c)
    BY <2>1, <2>3, <2>4 DEF Steady
  <2> QED  BY <1>2, <1>3, <2>1, <2>2, <2>5
<1>13. ASSUME NEW c \in Tasks, PtraceDetach(t, c) PROVE Calm
  <2>1. /\ call' = call /\ released' = released /\ excused' = excused
        /\ task[c].state = "stopped"
    BY <1>13 DEF PtraceDetach
  <2>2. /\ task'[c] = [task[c] EXCEPT !.state = "running", !.exit_code = "zero",
                                      !.p_pptr = task[c].p_opptr, !.ptraced = FALSE]
        /\ \A q \in Tasks \ {c} : task'[q] = task[q]
    BY <1>1, <1>13, DetachEffect
  <2>3. /\ task'[c].state = "running" /\ task'[c].pid = task[c].pid
        /\ task'[c].tgid = task[c].tgid /\ task'[c].pgrp = task[c].pgrp
    BY <1>1, <2>2 DEF TaskStruct
  <2> QED  BY <1>2, <1>3, <2>1, <2>2, <2>3 DEF Steady
<1>14. CASE ExitStart(t)
  <2>1. /\ call' = call /\ released' = released /\ excused' = excused
        /\ task[t].state = "running"
    BY <1>14 DEF ExitStart, Program, InUser
  <2>2. /\ task'[t] = [task[t] EXCEPT !.exiting = TRUE]
        /\ \A q \in Tasks \ {t} : task'[q] = task[q]
    BY <1>1, <1>14, ExitStartEffect
  <2>3. /\ task'[t].state = "running" /\ task'[t].pid = task[t].pid
        /\ task'[t].tgid = task[t].tgid /\ task'[t].pgrp = task[t].pgrp
    BY <1>1, <2>1, <2>2 DEF TaskStruct
  <2> QED  BY <1>2, <1>3, <2>1, <2>2, <2>3 DEF Steady
<1>15. ASSUME NEW want \in Waits, Wait4(t, want) PROVE Calm
  BY <1>15, ScanCalm DEF Wait4
<1>16. CASE Repeat(t)
  <2>1. call[t].want \in Waits
    BY <1>1, <1>16, CallFields DEF Repeat
  <2> QED  BY <1>16, <2>1, ScanCalm DEF Repeat
<1>17. CASE Wait4Fails(t)
  <2>1. call'[t].at = "user" /\ \A q \in Tasks \ {t} : call'[q] = call[q]
    BY <1>1, <1>17 DEF Wait4Fails, Shapes, User
  <2>2. task' = task /\ released' = released /\ excused' = excused
    BY <1>17 DEF Wait4Fails
  <2> QED  BY <1>2, <2>1, <2>2, <1>1, Untouched DEF Caller
<1>18. CASE Report(t)
  <2> DEFINE c == call[t].child
  <2>1. /\ c \in Tasks /\ task'[c] = [task[c] EXCEPT !.exit_code = "zero"]
        /\ \A q \in Tasks \ {c} : task'[q] = task[q]
        /\ call' = [call EXCEPT ![t] = User]
    BY <1>1, <1>18, ReportEffect
  <2>2. call'[t].at = "user" /\ \A q \in Tasks \ {t} : call'[q] = call[q]
    BY <1>1, <2>1 DEF Shapes, User
  <2>3. released' = released /\ excused' = excused
    BY <1>18 DEF Report
  <2> HIDE DEF c
  <2>4. /\ task'[c].state = task[c].state /\ task'[c].pid = task[c].pid
        /\ task'[c].tgid = task[c].tgid /\ task'[c].pgrp = task[c].pgrp
        /\ task'[c].p_pptr = task[c].p_pptr /\ task'[c].exit_signal = task[c].exit_signal
        /\ task'[c].exit_code = "zero"
    BY <1>1, <2>1 DEF TaskStruct
  <2>5. Steady(c)
    BY <2>4 DEF Steady, NoNews
  <2>6. \A q \in Tasks : Caller(q)
    BY <2>2 DEF Caller
  <2> QED  BY <1>2, <2>1, <2>3, <2>5, <2>6
<1> QED  BY <1>4, <1>5, <1>6, <1>7, <1>8, <1>9, <1>10, <1>11, <1>12, <1>13, <1>14, <1>15,
            <1>16, <1>17, <1>18

------------------------------------------------------------------------------
(* While no zombie was given away from a caller that has found it, nor     *)
(* found by two threads of one group: what a caller of sys_wait4() has     *)
(* found is a zombie, of a parent in its group, and of nobody else.        *)
Caught ==
    excused \cap {"handed", "shared"} = {} =>
        /\ \A s \in Tasks : call[s].at = "status" =>
              /\ task[call[s].child].state = "zombie"
              /\ task[task[call[s].child].p_pptr].tgid = task[s].tgid
        /\ \A s, u \in Tasks :
              call[s].at = "status" /\ call[u].at = "status" /\ call[s].child = call[u].child
                  => s = u
        /\ ~released

LEMMA CalmCaught ==
    ASSUME Base, Caught, Calm
    PROVE  Caught'
<1> SUFFICES ASSUME excused' \cap {"handed", "shared"} = {}
             PROVE  Caught'
  BY DEF Caught
<1>1. excused \cap {"handed", "shared"} = {} /\ ~released'
  BY DEF Calm, Caught
<1>2. ASSUME NEW s \in Tasks, call'[s].at = "status"
      PROVE  /\ task'[call'[s].child].state = "zombie"
             /\ task'[task'[call'[s].child].p_pptr].tgid = task'[s].tgid
  <2>1. CASE call'[s] = call[s]
    <3> DEFINE z == call[s].child
               f == task[z].p_pptr
    <3>1. /\ z \in Tasks /\ task[z].state = "zombie" /\ task[f].tgid = task[s].tgid
          /\ task[s].state = "running"
      BY <1>1, <1>2, <2>1, CallFields DEF Caught, Base, Places, User
    <3>2. f \in Tasks /\ task[f].state \notin {"free", "embryo"}
      BY <3>1 DEF Base, Fathered, AllLinked, Linked
    <3> HIDE DEF z, f
    <3>3. task'[z].state = "zombie" /\ task'[z].p_pptr = task[z].p_pptr
      BY <3>1 DEF Calm, Steady
    <3>4. task'[f].tgid = task[f].tgid /\ task'[s].tgid = task[s].tgid
      BY <3>1, <3>2 DEF Calm, Steady
    <3> QED  BY <2>1, <3>1, <3>3, <3>4 DEF z, f
  <2>2. CASE call'[s] # call[s]
    BY <1>2, <2>2 DEF Calm, Caller
  <2> QED  BY <2>1, <2>2
<1>3. ASSUME NEW s \in Tasks, NEW u \in Tasks, s # u, call'[s] # call[s],
             call'[s].at = "status", call'[u].at = "status", call'[s].child = call'[u].child
      PROVE  FALSE
  <2> DEFINE z == call'[s].child
  <2>1. /\ task[task[z].p_pptr].tgid = task[s].tgid
        /\ call'[u] = call[u]
        /\ u \notin Group(task, s)
    BY <1>3, <1>1 DEF Calm, Caller, Alone
  <2>2. /\ call[u].at = "status" /\ call[u].child = z
        /\ task[task[z].p_pptr].tgid = task[u].tgid
        /\ task[u].state = "running"
    BY <1>1, <1>3, <2>1 DEF Caught, Base, Places, User
  <2> HIDE DEF z
  <2> QED  BY <2>1, <2>2 DEF Group, Linked
<1>4. \A s, u \in Tasks :
          call'[s].at = "status" /\ call'[u].at = "status" /\ call'[s].child = call'[u].child
              => s = u
  BY <1>1, <1>3 DEF Caught
<1> QED  BY <1>1, <1>2, <1>4 DEF Caught

(* Nobody else is told more than that. *)
LEMMA ReapCalls ==
    ASSUME Shapes, NEW t \in Tasks, Reap(t)
    PROVE  \A q \in Tasks \ {t} :
              call'[q] = call[q] \/ (call[q].at = "asleep" /\ call'[q].at = "woken")
<1> DEFINE p == call[t].child
           N == Notified([task EXCEPT ![p].p_pptr = task[p].p_opptr], {task[p].p_opptr})
<1>1. CASE OwnChild(p)
  BY <1>1, ReapEffect
<1>2. CASE ~OwnChild(p)
  <2>1. /\ task'[p] = [task[p] EXCEPT !.p_pptr = task[p].p_opptr]
        /\ \A q \in Tasks \ {t} : call'[q] = N[q]
    BY <1>2, ReapEffect
  <2>2. \A q \in Tasks : N[q] = call[q] \/ (call[q].at = "asleep" /\ N[q].at = "woken")
    BY NotifiedCalls
  <2> HIDE DEF p, N
  <2> QED  BY <2>1, <2>2
<1> QED  BY <1>1, <1>2

(* The release of a zombie, that nobody else has found.                    *)
LEMMA ReapCaught ==
    ASSUME Base, Caught, NEW t \in Tasks, Reap(t)
    PROVE  Caught'
<1> DEFINE p == call[t].child
<1>1. /\ Shapes /\ Places /\ Fathered
      /\ \A q \in Tasks : task[q] \in TaskStruct
      /\ \A q \in Tasks : call[q].at # "user" <=> call[q] # User
  BY CallFields DEF Base, Shapes
<1> SUFFICES ASSUME excused' \cap {"handed", "shared"} = {}
             PROVE  Caught'
  BY DEF Caught
<1>2. /\ p \in Tasks /\ call[t].at = "status" /\ excused' = excused
      /\ \A q \in Tasks \ {p} : task'[q] = task[q]
      /\ call'[t] = User
  BY <1>1, ReapEffect, ZenonT(60)
<1>3. /\ ~released /\ task[p].state = "zombie" /\ task[task[p].p_pptr].tgid = task[t].tgid
      /\ \A s \in Tasks : call[s].at = "status" =>
            /\ task[call[s].child].state = "zombie"
            /\ task[task[call[s].child].p_pptr].tgid = task[s].tgid
      /\ \A s, u \in Tasks :
            call[s].at = "status" /\ call[u].at = "status" /\ call[s].child = call[u].child
                => s = u
  BY <1>2 DEF Caught
<1>4. ~released'
  BY <1>3 DEF Reap
<1>5. \A q \in Tasks \ {t} :
          call'[q] = call[q] \/ (call[q].at = "asleep" /\ call'[q].at = "woken")
  BY <1>1, ReapCalls
<1> HIDE DEF p
<1>6. ASSUME NEW s \in Tasks, call'[s].at = "status"
      PROVE  /\ task'[call'[s].child].state = "zombie"
             /\ task'[task'[call'[s].child].p_pptr].tgid = task'[s].tgid
  <2> DEFINE z == call[s].child
             f == task[z].p_pptr
  <2>1. s # t /\ call'[s] = call[s]
    BY <1>2, <1>5, <1>6 DEF User
  <2>2. /\ z \in Tasks /\ task[z].state = "zombie" /\ task[f].tgid = task[s].tgid
        /\ task[s].state = "running"
    BY <1>1, <1>3, <1>6, <2>1, CallFields DEF Places
  <2>3. f \in Tasks /\ task[f].state # "zombie"
    BY <1>1, <2>2 DEF Fathered, AllLinked, Linked
  <2>4. z # p
    BY <1>2, <1>3, <1>6, <2>1 DEF p
  <2> HIDE DEF z, f
  <2>5. task'[z] = task[z] /\ task'[f] = task[f] /\ task'[s] = task[s]
    BY <1>2, <1>3, <2>2, <2>3, <2>4
  <2>6. task'[z].p_pptr = f
    BY <2>5 DEF f
  <2> QED  BY <2>1, <2>2, <2>5, <2>6 DEF z
<1>7. \A s \in Tasks : call'[s].at = "status" => call'[s] = call[s]
  BY <1>2, <1>5 DEF User
<1> QED  BY <1>3, <1>4, <1>6, <1>7 DEF Caught

LEMMA ExitCaught ==
    ASSUME Base, Caught, NEW t \in Tasks, ExitNotify(t)
    PROVE  Caught'
<1>1. /\ Shapes /\ Places /\ Fathered
      /\ \A q \in Tasks : task[q] \in TaskStruct
      /\ \A q \in Tasks : call[q].at # "user" <=> call[q] # User
      /\ task[t].state = "running" /\ released' = released
  BY CallFields DEF Base, Shapes, ExitNotify
<1> SUFFICES ASSUME excused' \cap {"handed", "shared"} = {}
             PROVE  Caught'
  BY DEF Caught
<1>2. PICK reaper \in ReapersOf(t), signal \in {"SIGCHLD", "other"} :
          /\ call' = Notified(Left(t, reaper, signal), Told(t, reaper, signal))
          /\ Excusing(t, reaper) /\ reaper \in Tasks
          /\ \A p \in Tasks : ExitOf(task'[p], p, t, reaper, signal)
  BY ExitEffect
<1>3. /\ excused \cap {"handed", "shared"} = {} /\ Handed(Forgotten(t, reaper), t) = {}
      /\ ~released'
  <2>1. /\ excused \cap {"handed", "shared"} = {}
        /\ "handed" \notin Handed(Forgotten(t, reaper), t)
    BY <1>2 DEF Excusing
  <2> QED  BY <1>1, <2>1 DEF Handed, Caught
<1>4. \A q \in Tasks : call'[q] = call[q] \/ (call[q].at = "asleep" /\ call'[q].at = "woken")
  <2> DEFINE N == Notified(Left(t, reaper, signal), Told(t, reaper, signal))
  <2>1. \A q \in Tasks : N[q] = call[q] \/ (call[q].at = "asleep" /\ N[q].at = "woken")
    BY <1>1, NotifiedCalls
  <2> HIDE DEF N
  <2>2. call' = N
    BY <1>2 DEF N
  <2> QED  BY <2>1, <2>2
<1>5. ASSUME NEW p \in Tasks
      PROVE  /\ task'[p].tgid = task[p].tgid
             /\ task[p].state = "zombie" => task'[p].state = "zombie"
  BY <1>2 DEF ExitOf, SameIds
<1>6. ASSUME NEW s \in Tasks, call'[s].at = "status"
      PROVE  /\ task'[call'[s].child].state = "zombie"
             /\ task'[task'[call'[s].child].p_pptr].tgid = task'[s].tgid
  <2> DEFINE z == call[s].child
             f == task[z].p_pptr
             F == Forgotten(t, reaper)
  <2>1. call'[s] = call[s] /\ call[s].at = "status"
    BY <1>4, <1>6
  <2>2. /\ z \in Tasks /\ task[z].state = "zombie" /\ task[f].tgid = task[s].tgid
    BY <1>1, <1>3, <2>1, CallFields DEF Caught
  <2>3. f \in Tasks /\ z \in AllLinked
    BY <1>1, <2>2 DEF TaskStruct, AllLinked, Linked
  <2>4. CASE f # t
    <3>1. task'[z].p_pptr = f
      BY <1>2, <2>2, <2>4 DEF ExitOf
    <3> QED  BY <1>5, <2>1, <2>2, <2>3, <3>1
  <2>5. CASE f = t
    <3>1. /\ F[z].p_pptr = t
          /\ F[z].p_opptr = IF task[z].p_opptr = t
                            THEN (IF z = reaper THEN Reaper ELSE reaper) ELSE task[z].p_opptr
          /\ \A q \in Tasks : F[q].tgid = task[q].tgid
      BY <1>1, <1>2, <2>2, <2>3, <2>5, ForgottenFields DEF SameIds
    <3>2. task'[z].p_pptr = F[z].p_opptr
      BY <1>2, <2>2, <2>3, <2>5, <3>1 DEF ExitOf
    <3>3. F[z].p_opptr \in Group(F, s)
      BY <1>3, <2>1, <3>1 DEF Handed
    <3> HIDE DEF F
    <3>4. F[z].p_opptr \in Tasks /\ F[F[z].p_opptr].tgid = F[s].tgid
      BY <3>3 DEF Group, Linked
    <3> QED  BY <1>5, <2>1, <2>2, <3>1, <3>2, <3>4
  <2> QED  BY <2>4, <2>5
<1>7. \A s \in Tasks : call'[s].at = "status" => call'[s] = call[s]
  BY <1>4
<1> QED  BY <1>3, <1>6, <1>7 DEF Caught

LEMMA NextCaught == Base /\ Caught /\ [Next]_vars => Caught'
<1> SUFFICES ASSUME Base, Caught, [Next]_vars PROVE Caught'
  OBVIOUS
<1>1. CASE UNCHANGED vars
  BY <1>1 DEF vars, Caught
<1>2. CASE Next
  BY <1>2, CalmSteps, CalmCaught, ReapCaught, ExitCaught DEF Next
<1> QED  BY <1>1, <1>2

LEMMA InitCaught == Init => Caught
BY DEF Init, Caught, User

(* A zombie that a caller of sys_wait4() has found is still there when the *)
(* lock is taken again, and is released once, by the tracer, the real      *)
(* parent or init; but for two threads of one group that find it both, and *)
(* for a zombie that an exit takes from the thread that has found it       *)
(* (exit.c:631-646, 467-475).                                              *)
THEOREM ZombiesAreReleasedOnce == Spec => []ReleasedOnce
<1>1. Caught => ReleasedOnce
  BY DEF Caught, ReleasedOnce
<1>2. Spec => []Caught
  BY Invariant, InitCaught, NextCaught, PTL DEF Spec
<1> QED  BY <1>1, <1>2, PTL

------------------------------------------------------------------------------
(* A child that a caller of sys_wait4() waits for after a step is one that *)
(* it waited for before, when neither has changed as far as the call goes. *)
Alike(p) ==
    /\ task'[p].pid = task[p].pid /\ task'[p].pgrp = task[p].pgrp
    /\ task'[p].p_pptr = task[p].p_pptr /\ task'[p].exit_signal = task[p].exit_signal

LEMMA MatchingFather ==
    ASSUME NEW s \in Tasks, NEW want, NEW p \in Matching(s, want)'
    PROVE  /\ p \in Tasks /\ task'[p].state \notin {"free", "embryo"}
           /\ task'[p].p_pptr = s \/ task'[p].p_pptr \in Group(task, s)'
           /\ task'[task'[p].p_pptr].tgid = task'[s].tgid
BY DEF Matching, Group, AllLinked, Linked

LEMMA MatchingAlike ==
    ASSUME NEW s \in Tasks, NEW want, NEW p \in Matching(s, want)', Alike(p),
           p \in AllLinked, task'[s].pgrp = task[s].pgrp,
           task[p].p_pptr \in AllLinked,
           task[task[p].p_pptr].tgid = task[s].tgid
    PROVE  p \in Matching(s, want)
<1>1. Asked(s, p, want)' => Asked(s, p, want)
  BY DEF Asked, Alike
<1>2. KindAsked(p, want)' => KindAsked(p, want)
  BY DEF KindAsked, Alike
<1>3. /\ Asked(s, p, want)' /\ KindAsked(p, want)'
      /\ task'[p].p_pptr = s \/ "__WNOTHREAD" \notin want.options
  BY DEF Matching
<1>4. task[p].p_pptr \in Group(task, s)
  BY DEF Group, AllLinked
<1> QED  BY <1>1, <1>2, <1>3, <1>4 DEF Matching, Alike

(* The property, child by child. *)
Missed(s, p) ==
    /\ call[s].at = "asleep"
    /\ p \in Matching(s, call[s].want)
    /\ \/ task[p].state = "zombie"
       \/ /\ task[p].state = "stopped" /\ task[p].exit_code = "told"
          /\ "WUNTRACED" \in call[s].want.options \/ task[p].ptraced

Heard ==
    excused \cap {"moved", "retyped", "handed", "shared"} = {} => \A s, p \in Tasks : ~Missed(s, p)

LEMMA HeardAll == Shapes => (Heard <=> NoChildMissed)
<1> SUFFICES ASSUME Shapes PROVE Heard <=> NoChildMissed
  OBVIOUS
<1>1. \A p \in Tasks : task[p].exit_code \in {"zero", "told", "untold"}
  BY DEF Shapes, TaskStruct
<1>2. \A s \in Tasks, want \in Waits : Matching(s, want) \subseteq Tasks
  BY DEF Matching, AllLinked, Linked
<1>3. ASSUME NEW s \in Tasks, call[s].at = "asleep"
      PROVE  (\A p \in Tasks : ~Missed(s, p)) <=>
                 /\ Zombies(s, call[s].want) = {}
                 /\ \A p \in Reportable(s, call[s].want) : task[p].exit_code = "untold"
  <2>1. call[s].want \in Waits
    BY <1>3, CallFields
  <2>2. Matching(s, call[s].want) \subseteq Tasks
    BY <1>2, <2>1
  <2> QED  BY <1>1, <1>3, <2>2 DEF Missed, Zombies, Reportable
<1>4. ASSUME NEW s \in Tasks, call[s].at # "asleep"
      PROVE  \A p \in Tasks : ~Missed(s, p)
  BY <1>4 DEF Missed
<1> QED  BY <1>3, <1>4 DEF Heard, NoChildMissed

(* The same after a step, for what the caller asked. *)
LEMMA MissedNext ==
    ASSUME Shapes', NEW s \in Tasks, NEW p \in Tasks, Missed(s, p)'
    PROVE  \E want \in Waits :
              /\ call'[s].at = "asleep" /\ call'[s].want = want
              /\ p \in Matching(s, want)'
              /\ \/ task'[p].state = "zombie"
                 \/ /\ task'[p].state = "stopped" /\ task'[p].exit_code = "told"
                    /\ "WUNTRACED" \in want.options \/ task'[p].ptraced
<1>1. call'[s].at = "asleep"
  BY DEF Missed
<1>2. PICK want \in Waits : call'[s].want = want
  BY <1>1 DEF Shapes, Calls, User
<1>3. p \in Matching(s, want)'
  BY <1>2 DEF Missed, Matching, Group, Asked, KindAsked, AllLinked, Linked
<1>4. \/ task'[p].state = "zombie"
      \/ /\ task'[p].state = "stopped" /\ task'[p].exit_code = "told"
         /\ "WUNTRACED" \in want.options \/ task'[p].ptraced
  BY <1>2 DEF Missed
<1> QED  BY <1>1, <1>2, <1>3, <1>4

LEMMA CalmHeard ==
    ASSUME Base, Base', Heard, Calm
    PROVE  Heard'
<1> SUFFICES ASSUME excused' \cap {"moved", "retyped", "handed", "shared"} = {},
                    NEW s \in Tasks, NEW p \in Tasks, Missed(s, p)'
             PROVE  FALSE
  BY DEF Heard
<1>1. /\ \A q, r \in Tasks : ~Missed(q, r)
      /\ "moved" \notin excused'
  BY DEF Heard, Calm
<1>2. PICK want \in Waits :
          /\ call'[s].at = "asleep" /\ call'[s].want = want
          /\ p \in Matching(s, want)'
          /\ \/ task'[p].state = "zombie"
             \/ /\ task'[p].state = "stopped" /\ task'[p].exit_code = "told"
                /\ "WUNTRACED" \in want.options \/ task'[p].ptraced
  BY MissedNext DEF Base
<1>3. CASE call'[s] # call[s]
  <2>1. /\ task' = task
        /\ Zombies(s, want) = {} /\ Reportable(s, want) = {}
    BY <1>2, <1>3 DEF Calm, Caller
  <2>2. p \in Matching(s, want)
    BY <1>2, <2>1 DEF Matching, Group, Asked, KindAsked, AllLinked, Linked
  <2> QED  BY <1>2, <2>1, <2>2 DEF Zombies, Reportable
<1>4. CASE call'[s] = call[s]
  <2>1. /\ call[s].at = "asleep" /\ task[s].state = "running" /\ call[s] # User
    BY <1>2, <1>4 DEF Base, Places, User
  <2>2. task'[s].pgrp = task[s].pgrp /\ task'[s].tgid = task[s].tgid
    BY <1>1, <2>1 DEF Calm, Steady
  <2>3. task'[task'[p].p_pptr].tgid = task'[s].tgid
    BY <1>2, MatchingFather
  <2>4. ASSUME p \in AllLinked, task'[p].p_pptr = task[p].p_pptr,
               task'[p].exit_signal = task[p].exit_signal, task'[p].pgrp = task[p].pgrp
        PROVE  p \in Matching(s, want)
    <3> DEFINE f == task[p].p_pptr
    <3>1. f \in AllLinked /\ task'[p].pid = task[p].pid
      BY <2>4 DEF Base, Fathered, Calm, Steady, AllLinked, Linked
    <3>2. task'[f].tgid = task[f].tgid
      BY <3>1 DEF Calm, Steady, AllLinked, Linked
    <3>3. Alike(p)
      BY <2>4, <3>1 DEF Alike
    <3> QED  BY <1>2, <1>4, <2>2, <2>3, <2>4, <3>1, <3>2, <3>3, MatchingAlike
  <2>5. CASE task'[p].state = "zombie"
    <3>1. task[p].state = "zombie" /\ p \in AllLinked
      BY <2>5 DEF Calm, Steady, AllLinked, Linked
    <3>2. /\ task'[p].p_pptr = task[p].p_pptr /\ task'[p].exit_signal = task[p].exit_signal
          /\ task'[p].pgrp = task[p].pgrp
      BY <1>1, <3>1 DEF Calm, Steady
    <3> QED  BY <1>1, <1>2, <1>4, <2>1, <2>4, <3>1, <3>2 DEF Missed
  <2>6. CASE task'[p].state # "zombie"
    <3>1. /\ task'[p].state = "stopped" /\ task'[p].exit_code = "told"
          /\ "WUNTRACED" \in want.options \/ task'[p].ptraced
      BY <1>2, <2>6
    <3>2. SameStop(p)
      BY <1>2, <2>3, <3>1 DEF Calm, Steady, NoNews
    <3>3. p \in AllLinked
      BY <3>2 DEF SameStop, AllLinked, Linked
    <3> QED  BY <1>1, <1>2, <1>4, <2>1, <2>4, <3>1, <3>2, <3>3 DEF SameStop, Missed
  <2> QED  BY <2>5, <2>6
<1> QED  BY <1>3, <1>4

(* Line 641 tells the parent that a zombie comes back to. *)
LEMMA ReapHeard ==
    ASSUME Base, Base', Caught, Heard, NEW t \in Tasks, Reap(t)
    PROVE  Heard'
<1> DEFINE z == call[t].child
<1>1. /\ Shapes /\ Places /\ Fathered
      /\ \A q \in Tasks : task[q] \in TaskStruct
      /\ \A q \in Tasks : call[q].at # "user" <=> call[q] # User
  BY CallFields DEF Base, Shapes
<1>2. /\ z \in Tasks /\ call[t].at = "status" /\ excused' = excused
      /\ \A q \in Tasks \ {z} : task'[q] = task[q]
      /\ call'[t] = User
  BY <1>1, ReapEffect, ZenonT(60)
<1> SUFFICES ASSUME excused' \cap {"moved", "retyped", "handed", "shared"} = {},
                    NEW s \in Tasks, NEW p \in Tasks, Missed(s, p)'
             PROVE  FALSE
  BY DEF Heard
<1>3. /\ \A q, r \in Tasks : ~Missed(q, r)
      /\ task[z].state = "zombie"
  BY <1>2 DEF Heard, Caught
<1>4. PICK want \in Waits :
          /\ call'[s].at = "asleep" /\ call'[s].want = want
          /\ p \in Matching(s, want)'
          /\ \/ task'[p].state = "zombie"
             \/ /\ task'[p].state = "stopped" /\ task'[p].exit_code = "told"
                /\ "WUNTRACED" \in want.options \/ task'[p].ptraced
  BY MissedNext DEF Base
<1>5. s # t /\ call'[s] = call[s]
  BY <1>1, <1>2, <1>4, ReapCalls DEF User
<1>6. s # z /\ task'[s] = task[s] /\ task[s].state = "running"
  BY <1>1, <1>2, <1>3, <1>4, <1>5 DEF Places, User
<1>7. task'[task'[p].p_pptr].tgid = task'[s].tgid
  BY <1>4, MatchingFather
<1>8. CASE p # z
  <2> HIDE DEF z
  <2>1. task'[p] = task[p] /\ p \in AllLinked
    BY <1>2, <1>4, <1>8 DEF AllLinked, Linked
  <2>2. task[p].p_pptr \in AllLinked /\ task[task[p].p_pptr].state # "zombie"
    BY <1>1, <2>1 DEF Fathered, AllLinked, Linked
  <2>3. task[p].p_pptr \in Tasks \ {z}
    BY <1>1, <1>3, <2>2 DEF TaskStruct
  <2>4. task[task[p].p_pptr].tgid = task[s].tgid
    BY <1>2, <1>6, <1>7, <2>1, <2>3
  <2>5. p \in Matching(s, want)
    BY <1>4, <1>5, <1>6, <2>1, <2>2, <2>4, MatchingAlike DEF Alike
  <2> QED  BY <1>3, <1>4, <1>5, <2>1, <2>5 DEF Missed
<1>9. CASE p = z
  <2>1. CASE OwnChild(z)
    <3>1. task'[z] = Unused
      BY <1>1, <1>3, <2>1, ReapEffect
    <3> QED  BY <1>4, <1>9, <3>1 DEF Unused
  <2>2. CASE ~OwnChild(z)
    <3> DEFINE f == task[z].p_opptr
               T == [task EXCEPT ![z].p_pptr = f]
               N == Notified(T, {f})
    <3>1. /\ task'[z] = [task[z] EXCEPT !.p_pptr = f]
          /\ \A q \in Tasks \ {t} : call'[q] = N[q]
      BY <1>1, <2>2, ReapEffect
    <3>2. task'[z].p_pptr = f /\ f \in Tasks
      BY <1>1, <1>2, <3>1 DEF TaskStruct
    <3>3. T = task'
      BY <2>2 DEF Reap
    <3>4. N[s] = call[s] /\ call[s].at = "asleep"
      BY <1>4, <1>5, <3>1
    <3>5. s \notin Group(T, f)
      <4>1. call[s] = [at |-> "asleep", want |-> call[s].want]
        BY <1>1, <3>4, CallFields
      <4>2. s \in Group(T, f) => N[s].at = "woken"
        BY <3>4, <4>1 DEF Notified
      <4> QED  BY <3>4, <4>2
    <3>6. task'[s].state = "running" /\ task'[f].tgid = task'[s].tgid
      BY <1>6, <1>7, <1>9, <3>2
    <3> QED  BY <3>3, <3>5, <3>6 DEF Group, Linked
  <2> QED  BY <2>1, <2>2
<1> QED  BY <1>8, <1>9

(* exit_notify() tells its own parent and those that get its zombies.  A   *)
(* stopped child that somebody else gets is no news to it.                 *)
LEMMA ExitHeard ==
    ASSUME Base, Base', Heard, NEW t \in Tasks, ExitNotify(t)
    PROVE  Heard'
<1>1. /\ Shapes /\ Places /\ Fathered
      /\ \A q \in Tasks : task[q] \in TaskStruct
      /\ \A q \in Tasks : call[q].at # "user" <=> call[q] # User
      /\ task[t].state = "running"
  BY CallFields DEF Base, Shapes, ExitNotify
<1> SUFFICES ASSUME excused' \cap {"moved", "retyped", "handed", "shared"} = {},
                    NEW s \in Tasks, NEW p \in Tasks, Missed(s, p)'
             PROVE  FALSE
  BY DEF Heard
<1>2. PICK want \in Waits :
          /\ call'[s].at = "asleep" /\ call'[s].want = want
          /\ p \in Matching(s, want)'
          /\ \/ task'[p].state = "zombie"
             \/ /\ task'[p].state = "stopped" /\ task'[p].exit_code = "told"
                /\ "WUNTRACED" \in want.options \/ task'[p].ptraced
  BY MissedNext DEF Base
<1>3. PICK reaper \in ReapersOf(t), signal \in {"SIGCHLD", "other"} :
          /\ task' = Final(t, reaper, signal)
          /\ call' = Notified(Left(t, reaper, signal), Told(t, reaper, signal))
          /\ Excusing(t, reaper) /\ reaper \in Tasks
          /\ \A q \in Tasks : ExitOf(task'[q], q, t, reaper, signal)
  BY ExitEffect
<1> DEFINE D == Died(t, reaper, signal)
           L == Left(t, reaper, signal)
           told == Told(t, reaper, signal)
           N == Notified(L, told)
<1>4. /\ \A q, r \in Tasks : ~Missed(q, r)
      /\ Retyped(t) = {}
  <2>1. excused \subseteq excused' /\ "retyped" \notin Retyped(t)
    BY <1>3 DEF Excusing
  <2> QED  BY <2>1 DEF Heard, Retyped
<1>5. /\ \A q \in Tasks : L[q].p_pptr = task'[q].p_pptr
      /\ \A q \in Tasks : ExitOf(L[q], q, t, reaper, signal)
      /\ \A q \in Tasks : q \in Children(D, t) <=> (q \in AllLinked /\ task[q].p_pptr = t)
      /\ \A q \in Tasks : /\ D[q].p_pptr = task[q].p_pptr
                          /\ D[q].state = "zombie" <=> (q = t \/ task[q].state = "zombie")
  BY <1>1, <1>3, ExitRecords
<1>6. /\ call[s].at = "asleep" /\ call'[s] = call[s]
      /\ \A f \in told : s \notin Group(L, f)
  <2>1. N[s] = call[s] \/ (call[s].at = "asleep" /\ N[s].at = "woken")
    BY <1>1, NotifiedCalls
  <2>2. call' = N
    BY <1>3
  <2>3. call[s].at = "asleep" /\ N[s] = call[s]
    <3> HIDE DEF N
    <3> QED  BY <1>2, <2>1, <2>2
  <2>4. call[s] = [at |-> "asleep", want |-> call[s].want]
    BY <1>1, <2>3, CallFields
  <2>5. ASSUME NEW f \in told, s \in Group(L, f) PROVE FALSE
    <3>1. N[s].at = "woken"
      BY <2>3, <2>4, <2>5 DEF Notified
    <3> HIDE DEF N
    <3> QED  BY <2>3, <3>1
  <2>6. call'[s] = N[s]
    BY <2>2
  <2> HIDE DEF N, told, L
  <2> QED  BY <2>3, <2>5, <2>6
<1>7. /\ task[s].state = "running" /\ s # t
      /\ task'[s].tgid = task[s].tgid /\ task'[s].pgrp = task[s].pgrp
      /\ L[s].state = "running" /\ L[s].tgid = task[s].tgid
  <2>1. task[s].state = "running" /\ ~task[s].exiting /\ task[t].exiting
    BY <1>1, <1>6 DEF Places, ExitNotify
  <2>2. ExitOf(L[s], s, t, reaper, signal) /\ ExitOf(task'[s], s, t, reaper, signal)
    BY <1>3, <1>5
  <2> QED  BY <2>1, <2>2 DEF ExitOf, SameIds
<1> DEFINE f == task'[p].p_pptr
<1>8. /\ f \in Tasks /\ task'[f].tgid = task'[s].tgid
      /\ task'[f].state \notin {"free", "embryo", "zombie"}
  <2>1. task'[f].tgid = task'[s].tgid /\ task'[p].state \notin {"free", "embryo"}
    BY <1>2, MatchingFather
  <2> QED  BY <2>1 DEF Base, Fathered, AllLinked, Linked
<1>9. /\ task[f].tgid = task[s].tgid /\ L[f].tgid = task[f].tgid
      /\ task[f].state \notin {"free", "embryo"}
  <2>1. ExitOf(L[f], f, t, reaper, signal) /\ ExitOf(task'[f], f, t, reaper, signal)
    BY <1>3, <1>5, <1>8
  <2> QED  BY <1>1, <1>7, <1>8, <2>1 DEF ExitOf, SameIds
<1>10. f \notin told
  <2>1. s \in Group(L, f)
    BY <1>7, <1>9 DEF Group, Linked
  <2> HIDE DEF L, told
  <2> QED  BY <1>6, <2>1
<1>11. ExitOf(task'[p], p, t, reaper, signal)
  BY <1>3
<1>12. /\ task'[p].pid = task[p].pid /\ task'[p].pgrp = task[p].pgrp
       /\ p \in AllLinked
  <2>1. task'[p].state \notin {"free", "embryo"}
    BY <1>2, MatchingFather
  <2> QED  BY <1>1, <1>11, <2>1 DEF ExitOf, SameIds, AllLinked, Linked
<1>13. ASSUME p \in AllLinked, f = task[p].p_pptr, task'[p].exit_signal = task[p].exit_signal
       PROVE  p \in Matching(s, want)
  <2>1. Alike(p)
    BY <1>12, <1>13 DEF Alike
  <2>2. task[p].p_pptr \in AllLinked /\ task[task[p].p_pptr].tgid = task[s].tgid
    BY <1>8, <1>9, <1>13 DEF AllLinked, Linked
  <2> HIDE DEF f
  <2> QED  BY <1>2, <1>7, <1>13, <2>1, <2>2, MatchingAlike
<1>14. task[p].p_pptr = t => task'[p].state # "zombie"
  <2> SUFFICES ASSUME task[p].p_pptr = t, task'[p].state = "zombie" PROVE FALSE
    OBVIOUS
  <2>1. p \in Children(D, t) /\ D[p].state = "zombie"
    BY <1>5, <1>11, <1>12 DEF ExitOf
  <2>2. L[p].p_pptr \in told
    BY <2>1 DEF Told
  <2> QED  BY <1>5, <1>10, <2>2
<1>15. p # t
  <2> SUFFICES ASSUME p = t PROVE FALSE
    OBVIOUS
  <2>1. task'[p].state = "zombie"
    BY <1>11 DEF ExitOf
  <2>2. task[p].p_pptr # t /\ f = task[p].p_pptr
    BY <1>11, <1>14, <2>1 DEF ExitOf
  <2>3. D[t].p_pptr \in told
    BY DEF Told
  <2> QED  BY <1>5, <1>10, <2>2, <2>3
<1>16. CASE task'[p].state = "zombie"
  <2>1. task[p].state = "zombie" /\ f = task[p].p_pptr /\ task[p].p_pptr # t
    BY <1>11, <1>14, <1>15, <1>16 DEF ExitOf
  <2>2. task'[p].exit_signal = task[p].exit_signal
    <3>1. task[p].p_opptr = t => task[p].exit_signal = "SIGCHLD"
      BY <1>4, <1>12, <2>1 DEF Retyped
    <3> QED  BY <1>11, <1>15, <3>1 DEF ExitOf
  <2> QED  BY <1>2, <1>4, <1>6, <1>12, <1>13, <2>1, <2>2 DEF Missed
<1>17. CASE task'[p].state # "zombie"
  <2>1. /\ task'[p].state = "stopped" /\ task'[p].exit_code = "told"
        /\ "WUNTRACED" \in want.options \/ task'[p].ptraced
    BY <1>2, <1>17
  <2>2. Untold(task[p].exit_code) # "told"
    BY <1>6 DEF Untold
  <2>3. task[p].p_opptr # t /\ task[p].p_pptr # t /\ task'[p].exit_code = task[p].exit_code
    BY <1>11, <1>12, <2>1, <2>2 DEF ExitOf
  <2>4. /\ task[p].state = "stopped" /\ f = task[p].p_pptr
        /\ task'[p].exit_signal = task[p].exit_signal
        /\ task'[p].ptraced = task[p].ptraced
    BY <1>11, <1>15, <2>1, <2>3 DEF ExitOf
  <2> QED  BY <1>2, <1>4, <1>6, <1>12, <1>13, <2>1, <2>3, <2>4 DEF Missed
<1> QED  BY <1>16, <1>17

LEMMA NextHeard == Base /\ Base' /\ Caught /\ Heard /\ [Next]_vars => Heard'
<1> SUFFICES ASSUME Base, Base', Caught, Heard, [Next]_vars PROVE Heard'
  OBVIOUS
<1>1. CASE UNCHANGED vars
  BY <1>1 DEF vars, Heard, Missed, Matching, Group, Asked, KindAsked, AllLinked, Linked
<1>2. CASE Next
  BY <1>2, CalmSteps, CalmHeard, ReapHeard, ExitHeard DEF Next
<1> QED  BY <1>1, <1>2

LEMMA InitHeard == Init => Heard
BY DEF Init, Heard, Missed, User

(* No caller of sys_wait4() sleeps past a zombie, or past a stop that it   *)
(* was told of: whatever makes a child one to wait for also wakes those    *)
(* who wait (exit.c:463-484, 554-558, 585-667).                            *)
THEOREM NoChildIsMissed == Spec => []NoChildMissed
<1>1. Base /\ Heard => NoChildMissed
  BY HeardAll DEF Base
<1>2. Spec => []Caught
  BY Invariant, InitCaught, NextCaught, PTL DEF Spec
<1>3. Spec => []Heard
  BY Invariant, <1>2, InitHeard, NextHeard, PTL DEF Spec
<1> QED  BY <1>1, <1>3, Invariant, PTL

------------------------------------------------------------------------------
(* The groups that an exit leaves stopped.  init has the pid that          *)
(* will_become_orphaned_pgrp() knows it by.                                *)
LEMMA InitKeepsPid ==
    Base /\ task[Reaper].pid = InitPid /\ [Next]_vars => (task[Reaper].pid = InitPid)'
<1> SUFFICES ASSUME Base, task[Reaper].pid = InitPid, [Next]_vars
             PROVE  task'[Reaper].pid = InitPid
  BY DEF InitPid
<1>1. /\ Reaper \in Tasks /\ task[Reaper].state = "running" /\ Shapes
  BY ReaperAssumption DEF Base, Places
<1>2. ASSUME Calm PROVE task'[Reaper].pid = InitPid
  BY <1>1, <1>2 DEF Calm, Steady
<1>3. ASSUME NEW t \in Tasks, ExitNotify(t) PROVE task'[Reaper].pid = InitPid
  BY <1>1, <1>3, ExitEffect DEF ExitOf, SameIds
<1>4. ASSUME NEW t \in Tasks, Reap(t) PROVE task'[Reaper].pid = InitPid
  <2> DEFINE p == call[t].child
  <2>1. /\ p \in Tasks
        /\ \A q \in Tasks \ {p} : task'[q] = task[q]
        /\ \/ task'[p] \in {Unused, task[p]}
           \/ task'[p] = [task[p] EXCEPT !.p_pptr = task[p].p_opptr]
    <3>1. CASE OwnChild(p)
      BY <1>1, <1>4, <3>1, ReapEffect
    <3>2. CASE ~OwnChild(p)
      BY <1>1, <1>4, <3>2, ReapEffect
    <3> QED  BY <3>1, <3>2
  <2> HIDE DEF p
  <2>2. task[p] \in TaskStruct
    BY <1>1, <2>1 DEF Shapes
  <2>3. task'[p].pid \in {InitPid, task[p].pid}
    BY <2>1, <2>2 DEF TaskStruct, Unused
  <2> QED  BY <1>1, <2>1, <2>3
<1>5. CASE UNCHANGED vars
  BY <1>5 DEF vars
<1>6. CASE Next
  BY <1>2, <1>3, <1>4, <1>6, CalmSteps DEF Next
<1> QED  BY <1>5, <1>6

LEMMA ContinuedStops ==
    ASSUME NEW T \in [Tasks -> TaskStruct], NEW groups, NEW p \in Tasks,
           Continued(T, groups)[p].state = "stopped"
    PROVE  T[p].state = "stopped" /\ T[p].pgrp \notin groups
<1>1. T[p] \in TaskStruct
  OBVIOUS
<1>2. CASE T[p].state = "stopped" /\ T[p].pgrp \in groups
  <2>1. Continued(T, groups)[p] = [T[p] EXCEPT !.state = "running", !.exit_code = "zero"]
    BY <1>2 DEF Continued, Running
  <2> QED  BY <1>1, <2>1 DEF TaskStruct
<1>3. CASE ~(T[p].state = "stopped" /\ T[p].pgrp \in groups)
  BY <1>3 DEF Continued
<1> QED  BY <1>2, <1>3

(* Who is stopped after exit_notify() was, and its group was not woken. *)
LEMMA ExitStops ==
    ASSUME Shapes, NEW t \in Tasks, NEW reaper \in Tasks, NEW signal \in {"SIGCHLD", "other"},
           task[t].state = "running",
           NEW p \in Tasks, Final(t, reaper, signal)[p].state = "stopped"
    PROVE  /\ task[p].state = "stopped"
           /\ task[p].pgrp \notin OwnGroup(Forgotten(t, reaper), t)
           /\ task[p].pgrp \notin Stayed(Left(t, reaper, signal),
                                         ChildGroups(Died(t, reaper, signal), t))
<1> DEFINE F == Forgotten(t, reaper)
           M == Mourned(t, reaper)
           D == Died(t, reaper, signal)
           L == Left(t, reaper, signal)
           own == OwnGroup(F, t)
           stayed == Stayed(L, ChildGroups(D, t))
<1>1. F \in [Tasks -> TaskStruct] /\ SameIds(F[p], task[p]) /\ F[p].state = task[p].state
  BY ForgottenFields
<1>2. M \in [Tasks -> TaskStruct]
  BY <1>1, ContinuedFields DEF Mourned
<1>3. /\ D \in [Tasks -> TaskStruct]
      /\ D[t] = [M[t] EXCEPT !.state = "zombie", !.exit_signal = signal]
      /\ \A q \in Tasks \ {t} : D[q] = M[q]
  <2>1. [M[t] EXCEPT !.state = "zombie", !.exit_signal = signal] \in TaskStruct
    BY <1>2 DEF TaskStruct
  <2>2. D = [M EXCEPT ![t] = [M[t] EXCEPT !.state = "zombie", !.exit_signal = signal]]
    BY <1>2 DEF Died, TaskStruct
  <2> QED  BY <1>2, <2>1, <2>2
<1>4. /\ L \in [Tasks -> TaskStruct]
      /\ L[p].state = D[p].state
  BY <1>3, ReleasedFields DEF Left
<1>5. Continued(L, stayed)[p].state = "stopped"
  BY DEF Final
<1>6. SameIds(L[p], task[p])
  BY ExitRecords DEF ExitOf
<1> HIDE DEF stayed, own
<1>7. L[p].state = "stopped" /\ L[p].pgrp \notin stayed
  BY <1>4, <1>5, ContinuedStops
<1>8. D[p].state = "stopped" /\ p # t
  BY <1>2, <1>3, <1>4, <1>7 DEF TaskStruct
<1>9. Continued(F, own)[p].state = "stopped"
  BY <1>3, <1>8 DEF Mourned, own
<1>10. F[p].state = "stopped" /\ F[p].pgrp \notin own
  BY <1>1, <1>9, ContinuedStops
<1> QED  BY <1>1, <1>6, <1>7, <1>10 DEF SameIds, own, stayed

(* Whoever still holds its group after the exit holds it then, too.  So    *)
(* either t was the one to hold it, or its child did: the two cases of     *)
(* POSIX 3.2.2.2, and in both the code asks whether somebody else does.    *)
LEMMA ExitJobs ==
    ASSUME Base, task[Reaper].pid = InitPid, NEW t \in Tasks, ExitNotify(t)
    PROVE  LeftStopped(task') \subseteq LeftStopped(task)
<1>1. /\ Shapes /\ task[t].state = "running" /\ Reaper \in Tasks
      /\ \A q \in Tasks : task[q] \in TaskStruct
  BY ReaperAssumption DEF Base, Shapes, ExitNotify
<1>2. PICK reaper \in ReapersOf(t), signal \in {"SIGCHLD", "other"} :
          /\ task' = Final(t, reaper, signal) /\ reaper \in Tasks
          /\ \A q \in Tasks : ExitOf(task'[q], q, t, reaper, signal)
          /\ Shapes'
  BY ExitEffect
<1> DEFINE F == Forgotten(t, reaper)
           D == Died(t, reaper, signal)
           L == Left(t, reaper, signal)
<1>3. /\ \A q \in Tasks : L[q].p_pptr = task'[q].p_pptr
      /\ \A q \in Tasks : ExitOf(L[q], q, t, reaper, signal)
      /\ \A q \in Tasks : q \in Children(D, t) <=> (q \in AllLinked /\ task[q].p_pptr = t)
      /\ \A q \in Tasks : SameIds(D[q], task[q])
  BY <1>1, <1>2, ExitRecords
<1>4. \A q \in Tasks : /\ SameIds(F[q], task[q]) /\ F[q].p_pptr = task[q].p_pptr
                       /\ F[q].state = task[q].state
  BY <1>1, <1>2, ForgottenFields
<1> SUFFICES ASSUME NEW g \in LeftStopped(task')
             PROVE  g \in LeftStopped(task)
  OBVIOUS
<1>5. g \in Pids /\ ~Held(task', g)
  BY DEF LeftStopped
<1>6. PICK x \in Linked(task') : task'[x].pgrp = g /\ task'[x].state = "stopped"
  BY DEF LeftStopped
<1>7. /\ x \in Tasks /\ task[x].state = "stopped" /\ task[x].pgrp = g
      /\ g \notin OwnGroup(F, t)
      /\ g \notin Stayed(L, ChildGroups(D, t))
  <2>1. x \in Tasks /\ SameIds(task'[x], task[x])
    BY <1>2, <1>6 DEF Linked, ExitOf
  <2>2. task[x].pgrp = g
    BY <1>6, <2>1 DEF SameIds
  <2>3. Final(t, reaper, signal)[x].state = "stopped"
    BY <1>2, <1>6
  <2> QED  BY <1>1, <1>2, <2>1, <2>2, <2>3, ExitStops
<1> HIDE DEF F, D, L
<1>8. ASSUME NEW q \in Tasks, q # t, task[q].state \notin {"free", "embryo", "zombie"},
             NEW h \in Tasks, task'[q].p_pptr = h, h # Reaper,
             task[q].pgrp = g, task[h].pgrp # g, task[h].session = task[q].session
      PROVE  FALSE
  <2>1. /\ SameIds(task'[q], task[q]) /\ SameIds(task'[h], task[h])
        /\ task'[q].state \notin {"free", "embryo", "zombie"}
    BY <1>2, <1>8 DEF ExitOf
  <2>2. q \in Linked(task')
    BY <2>1 DEF Linked
  <2>3. Held(task', g)
    BY <1>8, <2>1, <2>2 DEF Held, SameIds
  <2> QED  BY <1>5, <2>3
<1>9. ASSUME NEW p \in Linked(task), task[p].pgrp = g, task[p].state # "zombie",
             NEW f, f = task[p].p_pptr, task[f].pgrp # g,
             task[f].session = task[p].session, f # Reaper
      PROVE  FALSE
  <2>1. p \in Tasks /\ f \in Tasks /\ task[p].state \notin {"free", "embryo", "zombie"}
    BY <1>1, <1>9 DEF Linked, TaskStruct
  <2>2. CASE p # t /\ f # t
    <3>1. task'[p].p_pptr = f
      BY <1>2, <1>9, <2>1, <2>2 DEF ExitOf
    <3> QED  BY <1>8, <1>9, <2>1, <2>2, <3>1
  <2>3. CASE p # t /\ f = t
    <3>1. p \in Children(D, t) /\ D[p].pgrp = g /\ D[p].pgrp # D[t].pgrp
          /\ D[p].session = D[t].session
      BY <1>3, <1>9, <2>1, <2>3 DEF SameIds, AllLinked, Linked
    <3>2. g \in ChildGroups(D, t)
      BY <3>1 DEF ChildGroups
    <3>3. ~WillBecomeOrphaned(L, g, {})
      BY <1>7, <3>2 DEF Stayed
    <3>4. PICK q \in Linked(L) : Connected(L, q, g)
      BY <3>3 DEF WillBecomeOrphaned
    <3> DEFINE h == L[q].p_pptr
    <3>5. /\ q \in Tasks /\ L[q].state \notin {"free", "embryo", "zombie"} /\ L[q].pgrp = g
          /\ L[h].pid # InitPid /\ L[h].pgrp # g /\ L[h].session = L[q].session
      BY <3>4 DEF Linked, Connected
    <3>6. /\ q # t /\ task[q].state \notin {"free", "embryo", "zombie"}
          /\ task'[q].p_pptr = h /\ h \in Tasks
      BY <1>2, <1>3, <3>5 DEF ExitOf, Shapes, TaskStruct
    <3> HIDE DEF h
    <3>7. SameIds(L[q], task[q]) /\ SameIds(L[h], task[h]) /\ SameIds(L[Reaper], task[Reaper])
      BY <1>1, <1>3, <3>5, <3>6 DEF ExitOf
    <3>8. h # Reaper
      BY <3>5, <3>7 DEF SameIds
    <3> QED  BY <1>8, <3>5, <3>6, <3>7, <3>8 DEF SameIds
  <2>4. CASE p = t
    <3>1. /\ F[t].p_pptr = f /\ F[t].pgrp = g
          /\ F[f].pgrp # F[t].pgrp /\ F[f].session = F[t].session
      BY <1>4, <1>9, <2>1, <2>4 DEF SameIds
    <3>2. ~WillBecomeOrphaned(F, g, {t})
      BY <1>7, <3>1 DEF OwnGroup
    <3>3. PICK q \in Linked(F) \ {t} : Connected(F, q, g)
      BY <3>2 DEF WillBecomeOrphaned
    <3> DEFINE h == task[q].p_pptr
    <3>4. /\ q \in Tasks /\ q # t /\ task[q].state \notin {"free", "embryo", "zombie"}
          /\ F[q].p_pptr = h /\ h \in Tasks
      BY <1>1, <1>4, <3>3 DEF Linked, Connected, TaskStruct
    <3>5. /\ F[q].pgrp = g /\ F[h].pid # InitPid /\ F[h].pgrp # g
          /\ F[h].session = F[q].session
      BY <3>3, <3>4 DEF Connected
    <3> HIDE DEF h
    <3>6. /\ task[q].pgrp = g /\ task[h].pgrp # g /\ task[h].session = task[q].session
          /\ h # Reaper /\ h # t
      BY <1>1, <1>4, <1>9, <2>4, <3>4, <3>5 DEF SameIds
    <3>7. task'[q].p_pptr = h
      BY <1>2, <3>4, <3>6 DEF ExitOf, h
    <3> QED  BY <1>8, <3>4, <3>6, <3>7
  <2> QED  BY <2>2, <2>3, <2>4
<1>10. ~Held(task, g)
  BY <1>9 DEF Held
<1>11. x \in Linked(task)
  BY <1>7 DEF Linked
<1> QED  BY <1>5, <1>7, <1>10, <1>11 DEF LeftStopped

(* Only exit_notify() makes a zombie. *)
LEMMA OnlyExits ==
    ASSUME Base, Next, NEW t \in Tasks, task[t].state = "running", task'[t].state = "zombie"
    PROVE  ExitNotify(t)
<1>1. Shapes
  BY DEF Base
<1>2. ~Calm
  BY DEF Calm, Steady
<1>3. ASSUME NEW u \in Tasks, Reap(u) PROVE FALSE
  <2> DEFINE p == call[u].child
  <2>1. /\ p \in Tasks
        /\ \A q \in Tasks \ {p} : task'[q] = task[q]
        /\ \/ task'[p] \in {Unused, task[p]}
           \/ task'[p] = [task[p] EXCEPT !.p_pptr = task[p].p_opptr]
    <3>1. CASE OwnChild(p)
      BY <1>1, <1>3, <3>1, ReapEffect
    <3>2. CASE ~OwnChild(p)
      BY <1>1, <1>3, <3>2, ReapEffect
    <3> QED  BY <3>1, <3>2
  <2> HIDE DEF p
  <2>2. task[p] \in TaskStruct
    BY <1>1, <2>1 DEF Shapes
  <2>3. task'[p].state \in {"free", task[p].state}
    BY <2>1, <2>2 DEF TaskStruct, Unused
  <2> QED  BY <2>1, <2>3
<1>4. ASSUME NEW u \in Tasks, ExitNotify(u) PROVE u = t
  BY <1>4, ExitEffect DEF ExitOf
<1> QED  BY <1>2, <1>3, <1>4, CalmSteps DEF Next

(* An exit wakes the groups of stopped tasks that it orphans               *)
(* (exit.c:411-430, 455-462, 486-497).                                     *)
THEOREM OrphanedJobsAreWoken == Spec => NoJobLeftStopped
<1>1. Init => task[Reaper].pid = InitPid
  BY ReaperAssumption DEF Init, Unused
<1>2. Spec => [](task[Reaper].pid = InitPid)
  BY <1>1, Invariant, InitKeepsPid, PTL DEF Spec
<1>3. ASSUME Base, task[Reaper].pid = InitPid, Next
      PROVE  \A t \in Tasks :
                task[t].state = "running" /\ task'[t].state = "zombie" =>
                    LeftStopped(task') \subseteq LeftStopped(task)
  BY <1>3, OnlyExits, ExitJobs
<1>4. Base /\ task[Reaper].pid = InitPid /\ [Next]_vars =>
         [\A t \in Tasks :
             ~released /\ task[t].state = "running" /\ task'[t].state = "zombie" =>
                 LeftStopped(task') \subseteq LeftStopped(task)]_vars
  BY <1>3
<1> QED  BY <1>2, <1>4, Invariant, PTL DEF Spec, NoJobLeftStopped
==============================================================================
