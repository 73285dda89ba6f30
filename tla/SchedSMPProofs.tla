---------------------------- MODULE SchedSMPProofs ----------------------------
(***************************************************************************)
(* Proofs about SchedSMP, for any number of processors and tasks: a task   *)
(* is at one place, the locks are taken without a deadlock, a task on a    *)
(* processor that it does not allow has a request under way, and nobody    *)
(* that has work sleeps unnoticed.                                         *)
(***************************************************************************)
EXTENDS SchedSMP, FiniteSetTheorems, SequenceTheorems, WellFoundedInduction, TLAPS

(* The places of the code, and what a processor has at hand there. *)
Balancing == {"try", "spin", "busiest", "this", "pull"}
Request == [task : Tasks, caller : Tasks]
LoopOp == [at |-> "loop"]
PickOp == [at |-> "pick"]

PlainOps == [at : {"run", "pick", "loop"}]
SwitchOps == [at : {"switch"}, prev : Threads]
WakeOps == [at : {"wake"}, task : Threads, sync : BOOLEAN, then : {Running, LoopOp}]
BalanceOps(c) == [at : Balancing, rq : Others(c), idle : BOOLEAN, nr : Nat,
                  imbalance : Int, then : {Running, PickOp}]
DestOps == [at : {"dest"}, req : Request]
FirstOps == [at : {"first"}, req : Request, dest : Cpus]
MoveOps == [at : {"second", "move"}, req : Request, src : Cpus, dest : Cpus]

Ops(c) == UNION {PlainOps, SwitchOps, WakeOps, BalanceOps(c), DestOps, FirstOps, MoveOps}

States == {"running", "sleeping", "waiting", "zombie", "released"}
Thread == [state : States,
           cpu : Cpus, array : Cpus \cup {None}, cpus_allowed : (SUBSET Cpus) \ {{}}]

Shapes ==
    /\ task \in [Threads -> Thread]
    /\ curr \in [Cpus -> Threads \cup {Idle}]
    /\ need_resched \in [Cpus -> BOOLEAN]
    /\ lock \in [Cpus -> Cpus \cup {Free}]
    /\ migration_queue \in [Cpus -> Seq(Request)]
    /\ overtaken \subseteq Tasks /\ unnoticed \subseteq Cpus
    /\ op = [c \in Cpus |-> op[c]]
    /\ \A c \in Cpus : op[c] \in Ops(c)

(* The lengths of the queues. *)
Counted == nr_running = [c \in Cpus |-> Cardinality(Queued(c))]

(* The locks that a processor has taken, by the place where it is. *)
Holds(c) ==
    CASE op[c].at \in {"pick", "switch", "try", "spin"} -> {c}
      [] op[c].at = "pull" -> {c, op[c].rq}
      [] op[c].at = "this" -> {op[c].rq}
      [] op[c].at = "second" -> {LockedFirst(op[c].src, op[c].dest)}
      [] op[c].at = "move" -> {op[c].src, op[c].dest}
      [] OTHER -> {}

LockHeld == \A c, d \in Cpus : lock[d] = c <=> d \in Holds(c)

(* Who waits for a lock holds none that comes behind it. *)
InOrder ==
    \A c \in Cpus :
        /\ At(c, "spin") => c < op[c].rq
        /\ At(c, "this") => op[c].rq < c
        /\ At(c, "busiest") => op[c].rq < c
        /\ At(c, "second") => op[c].src # op[c].dest

Locks == LockHeld /\ InOrder

(* The processor will not come back to its current task but by Pick. *)
ToPick(c) == At(c, "pick") \/ (op[c].at \in Balancing /\ op[c].then = PickOp)

Gone(t) == task[t].state \in {"zombie", "released"}

(* A zombie is on a queue only until schedule() has the lock of the        *)
(* processor that it is leaving, and nobody wakes it.                      *)
Zombies ==
    /\ \A c \in Cpus : At(c, "wake") => ~Gone(op[c].task)
    /\ \A t \in Threads : Gone(t) => t \in Mortal
    /\ \A t \in Threads : task[t].state = "zombie" /\ task[t].array # None =>
          LET c == task[t].cpu
          IN  curr[c] = t /\ ~ToPick(c) /\ ~At(c, "switch")
    /\ \A c \in Cpus : At(c, "switch") =>
          LET prev == op[c].prev
          IN  task[prev].state = "zombie" /\ task[prev].cpu = c /\ task[prev].array = None

(* A migration thread answers requests on its own processor. *)
InThread(c) == \/ op[c].at \in {"dest", "first", "second", "move", "loop"}
               \/ At(c, "wake") /\ op[c].then = LoopOp

OwnThread == \A c \in Cpus : InThread(c) => curr[c] = Migration(c)

(* OnePlace, without types and lengths. *)
Placed ==
    /\ \A t \in Threads : task[t].array \in {None, task[t].cpu}
    /\ \A c \in Cpus : curr[c] # Idle => task[curr[c]].cpu = c
    /\ \A t \in Threads : task[t].state = "released" =>
          /\ task[t].array = None
          /\ \A c \in Cpus : t \notin OnProcessor(c)

Places == Placed /\ Zombies /\ OwnThread

(* The request for a task that is where it may not run is on the run queue *)
(* where it is, and what a migration thread has chosen is allowed.         *)
Affinity ==
    /\ \A c \in Cpus : op[c].at \in {"first", "second", "move"} =>
          \/ op[c].dest \in task[op[c].req.task].cpus_allowed
          \/ op[c].req.task \in overtaken
    /\ \A t \in Tasks \ overtaken :
          task[t].cpu \notin task[t].cpus_allowed =>
              \E r \in Requests(task[t].cpu) : r.task = t

(* An idle processor with something to run that nobody knows of is about   *)
(* to look for itself.                                                     *)
Noticed ==
    \A c \in Cpus :
        curr[c] = Idle /\ Queued(c) # {} =>
            need_resched[c] \/ c \in unnoticed \/ ToPick(c)

(* A request on a queue does not wait for a thread that sleeps. *)
Answered ==
    \A c \in Cpus : migration_queue[c] # << >> =>
        \/ task[Migration(c)].state = "running"
        \/ InThread(c)
        \/ \E d \in Cpus : At(d, "wake") /\ op[d].task = Migration(c)

IInv == Shapes /\ Counted /\ Locks /\ Places /\ Affinity /\ Noticed /\ Answered

------------------------------------------------------------------------------
(* Facts about the constants and the places *)

LEMMA LeastNat ==
    ASSUME NEW S \in SUBSET Nat, S # {}
    PROVE  \E m \in S : \A n \in S : m <= n
<1> DEFINE R == OpToRel(<, Nat)
<1>1. IsWellFoundedOn(R, Nat)
  BY NatLessThanWellFounded
<1> HIDE DEF R
<1>2. PICK x \in S : \A y \in S : ~ (<<y, x>> \in R)
  BY <1>1, WFMin
<1>3. \A y \in S : y < x => <<y, x>> \in R
  BY DEF R, OpToRel
<1>4. \A y \in S : ~ (y < x)
  BY <1>2, <1>3
<1> QED  BY <1>4

LEMMA GreatestCpu ==
    ASSUME NEW S \in SUBSET Cpus, S # {}
    PROVE  \E m \in S : \A n \in S : n <= m
<1> DEFINE Above(m) == {n \in S : m < n}
<1>1. \A m \in S : IsFiniteSet(Above(m)) /\ Cardinality(Above(m)) \in Nat
  BY FiniteAssumption, FS_Subset, FS_CardinalityType
<1>2. PICK m \in S : \A n \in S : Cardinality(Above(m)) <= Cardinality(Above(n))
  <2> DEFINE N == {Cardinality(Above(n)) : n \in S}
  <2>1. PICK k \in N : \A l \in N : k <= l
    <3>1. N \in SUBSET Nat /\ N # {}
      BY <1>1
    <3> HIDE DEF N
    <3> QED  BY <3>1, LeastNat
  <2> QED  BY <2>1
<1>3. ASSUME NEW n \in S, m < n  PROVE FALSE
  <2>1. Above(n) \in SUBSET Above(m) /\ n \in Above(m) /\ n \notin Above(n)
    <3>1. m \in Nat /\ n \in Nat /\ \A k \in S : k \in Nat
      BY CpusAssumption
    <3>2. \A k \in S : n < k => m < k
      BY <1>3, <3>1
    <3>3. ~(n < n)
      BY <3>1
    <3> QED  BY <1>3, <3>2, <3>3
  <2>2. /\ Cardinality(Above(n)) <= Cardinality(Above(m))
        /\ Cardinality(Above(m)) = Cardinality(Above(n)) => Above(m) = Above(n)
    <3> HIDE DEF Above
    <3> QED  BY <1>1, <2>1, FS_Subset
  <2> HIDE DEF Above
  <2>3. Cardinality(Above(n)) < Cardinality(Above(m))
    BY <1>1, <2>1, <2>2
  <2> QED  BY <1>1, <1>2, <2>3
<1> QED  BY <1>3, CpusAssumption

(* ffs() finds the first processor of a mask. *)
LEMMA FirstOfMask ==
    ASSUME NEW mask \in SUBSET Cpus, mask # {}
    PROVE  ffs(mask) \in mask /\ \A d \in mask : ffs(mask) <= d
<1>1. \E m \in mask : \A n \in mask : m <= n
  BY LeastNat, CpusAssumption
<1> QED  BY <1>1 DEF ffs

LEMMA ThreadsAreApart ==
    /\ Tasks \subseteq Threads
    /\ \A c \in Cpus : Migration(c) \in Threads /\ Migration(c) \notin Tasks
    /\ \A c, d \in Cpus : Migration(c) = Migration(d) => c = d
    /\ Idle \notin Threads /\ None \notin Cpus /\ Free \notin Cpus
    /\ IsFiniteSet(Threads)
<1>1. IsFiniteSet({Migration(c) : c \in Cpus})
  <2> DEFINE f == [c \in Cpus |-> Migration(c)]
  <2>1. f \in Surjection(Cpus, {Migration(c) : c \in Cpus})
    BY DEF Surjection
  <2> QED  BY <2>1, FiniteAssumption, FS_Surjection
<1>2. IsFiniteSet(Threads)
  BY <1>1, FiniteAssumption, FS_Union DEF Threads
<1> QED  BY <1>2, NamesAssumption DEF Threads, Migration

(* What a processor has at hand, by its place. *)
LEMMA OpAtPlace ==
    ASSUME Shapes, NEW c \in Cpus
    PROVE  /\ op[c].at \in {"run", "pick", "loop"} => op[c] = [at |-> op[c].at]
           /\ At(c, "switch") => op[c] \in SwitchOps
           /\ At(c, "wake") => op[c] \in WakeOps
           /\ op[c].at \in Balancing => op[c] \in BalanceOps(c)
           /\ At(c, "dest") => op[c] \in DestOps
           /\ At(c, "first") => op[c] \in FirstOps
           /\ op[c].at \in {"second", "move"} => op[c] \in MoveOps
<1>1. op[c] \in Ops(c)
  BY DEF Shapes
<1> QED  BY <1>1 DEF Ops, PlainOps, SwitchOps, WakeOps, BalanceOps, DestOps, FirstOps,
                     MoveOps, Balancing, At

------------------------------------------------------------------------------
(* Shapes *)

LEMMA OpStep ==
    ASSUME Shapes, NEW c \in Cpus, NEW next \in Ops(c), Goes(c, next)
    PROVE  /\ op' = [d \in Cpus |-> op'[d]]
           /\ \A d \in Cpus : op'[d] \in Ops(d)
           /\ op'[c] = next
           /\ \A d \in Cpus : d # c => op'[d] = op[d]
BY DEF Shapes, Goes

LEMMA KnownOps ==
    /\ \A c \in Cpus : {Running, LoopOp, PickOp} \subseteq Ops(c)
    /\ \A c \in Cpus, p \in Threads, then \in {Running, LoopOp}, sync \in BOOLEAN :
          [at |-> "wake", task |-> p, sync |-> sync, then |-> then] \in Ops(c)
<1>1. {Running, LoopOp, PickOp} \subseteq PlainOps
  BY DEF PlainOps, Running, LoopOp, PickOp
<1>2. \A p \in Threads, then \in {Running, LoopOp}, sync \in BOOLEAN :
          [at |-> "wake", task |-> p, sync |-> sync, then |-> then] \in WakeOps
  BY DEF WakeOps
<1> QED  BY <1>1, <1>2 DEF Ops

LEMMA Updated ==
    ASSUME NEW T \in [Threads -> Thread], NEW p \in Threads
    PROVE  /\ \A st \in States : [T EXCEPT ![p].state = st] \in [Threads -> Thread]
           /\ \A c \in Cpus : [T EXCEPT ![p].cpu = c] \in [Threads -> Thread]
           /\ \A a \in Cpus \cup {None} : [T EXCEPT ![p].array = a] \in [Threads -> Thread]
           /\ \A m \in (SUBSET Cpus) \ {{}} : [T EXCEPT ![p].cpus_allowed = m] \in [Threads -> Thread]
<1>1. \A st \in States : [T EXCEPT ![p].state = st] \in [Threads -> Thread]
  BY DEF Thread, States
<1>2. \A c \in Cpus : [T EXCEPT ![p].cpu = c] \in [Threads -> Thread]
  BY DEF Thread
<1>3. \A a \in Cpus \cup {None} : [T EXCEPT ![p].array = a] \in [Threads -> Thread]
  BY DEF Thread
<1>4. \A m \in (SUBSET Cpus) \ {{}} : [T EXCEPT ![p].cpus_allowed = m] \in [Threads -> Thread]
  BY DEF Thread
<1> QED  BY <1>1, <1>2, <1>3, <1>4

LEMMA WakeShapes ==
    ASSUME Shapes, NEW c \in Cpus, NEW p \in Threads, NEW sync \in BOOLEAN,
           NEW then \in {Running, LoopOp}, TryToWakeUp(c, p, sync, then)
    PROVE  Shapes'
<1>1. task' \in [Threads -> Thread]
  <2>1. task[p].cpu \in Cpus
    BY DEF Shapes, Thread
  <2>2. [task EXCEPT ![p].cpu = c] \in [Threads -> Thread]
    BY Updated DEF Shapes
  <2>3. [task EXCEPT ![p].state = "running"] \in [Threads -> Thread]
    BY Updated DEF Shapes, States
  <2>4. [[task EXCEPT ![p].array = task[p].cpu] EXCEPT ![p].state = "running"]
            \in [Threads -> Thread]
    BY <2>1, Updated DEF Shapes, States
  <2> QED  BY <2>2, <2>3, <2>4 DEF TryToWakeUp
<1>5. need_resched' \in [Cpus -> BOOLEAN]
  BY DEF Shapes, TryToWakeUp
<1>2. \E next \in Ops(c) : Goes(c, next)
  BY KnownOps DEF TryToWakeUp
<1>3. op' = [d \in Cpus |-> op'[d]] /\ \A d \in Cpus : op'[d] \in Ops(d)
  BY <1>2, OpStep
<1> QED  BY <1>1, <1>3, <1>5 DEF Shapes, TryToWakeUp, history

LEMMA BalanceOpShape ==
    ASSUME NEW c \in Cpus, NEW idle \in BOOLEAN, NEW now \in [Cpus -> Nat],
           NEW b \in Candidates(c, idle, now), NEW then \in {Running, PickOp}
    PROVE  BalanceOp(b, idle, then) \in BalanceOps(c)
<1>1. /\ b.rq \in Others(c) /\ b.load \in 2 .. Cardinality(Threads)
      /\ b.nr \in now[c] .. Cardinality(Threads)
  BY DEF Candidates
<1>2. Cardinality(Threads) \in Nat
  BY ThreadsAreApart, FS_CardinalityType
<1>3. b.nr \in Nat /\ (IF idle THEN 1 ELSE (b.load - b.nr) \div 2) \in Int
  BY <1>1, <1>2
<1> QED  BY <1>1, <1>3 DEF BalanceOp, BalanceOps, Balancing

LEMMA LoadShapes ==
    ASSUME Shapes, NEW c \in Cpus, nr_running \in [Cpus -> Nat],
           TryLock(c) \/ LockBusiest(c) \/ LockThis(c)
    PROVE  Shapes'
<1>1. op[c] \in BalanceOps(c)
  BY OpAtPlace DEF TryLock, LockBusiest, LockThis, At, Balancing
<1>2. Cardinality(Threads) \in Nat
  BY ThreadsAreApart, FS_CardinalityType
<1>3. \E next \in Ops(c) : Goes(c, next)
  <2>1. \A place \in Balancing : [op[c] EXCEPT !.at = place] \in BalanceOps(c)
    BY <1>1 DEF BalanceOps
  <2>2. \A nr \in Nat : [op[c] EXCEPT !.at = "pull", !.nr = nr] \in BalanceOps(c)
    BY <1>1 DEF BalanceOps, Balancing
  <2>3. CASE TryLock(c)
    BY <2>1, <2>3 DEF TryLock, Ops, Balancing
  <2>4. CASE LockBusiest(c)
    <3>1. LET place == IF op[c].at = "spin" THEN "pull" ELSE "this"
          IN  Goes(c, [op[c] EXCEPT !.at = place])
      BY <1>1, <2>4 DEF LockBusiest, BalanceOps
    <3> QED  BY <2>1, <3>1 DEF Ops, Balancing
  <2>5. CASE LockThis(c)
    <3>1. PICK nr \in nr_running[c] .. Cardinality(Threads) :
              Goes(c, [op[c] EXCEPT !.at = "pull", !.nr = nr])
      BY <2>5 DEF LockThis
    <3>2. nr \in Nat
      BY <1>2
    <3> QED  BY <2>2, <3>1, <3>2 DEF Ops
  <2> QED  BY <2>3, <2>4, <2>5
<1>4. op' = [d \in Cpus |-> op'[d]] /\ \A d \in Cpus : op'[d] \in Ops(d)
  BY <1>3, OpStep
<1>5. lock' \in [Cpus -> Cpus \cup {Free}]
  BY <1>1 DEF Shapes, TryLock, LockBusiest, LockThis, BalanceOps, Others
<1> QED  BY <1>4, <1>5 DEF Shapes, TryLock, LockBusiest, LockThis, queues, history

LEMMA PullShapes ==
    ASSUME Shapes, NEW c \in Cpus, Pull(c)
    PROVE  Shapes'
<1>1. op[c] \in BalanceOps(c)
  BY OpAtPlace DEF Pull, At, Balancing
<1>2. task' \in [Threads -> Thread]
  <2>1. PICK moved : task' = [t \in Threads |->
                             IF t \in moved THEN [task[t] EXCEPT !.cpu = c, !.array = c]
                             ELSE task[t]]
    BY DEF Pull
  <2>2. \A t \in Threads : [task[t] EXCEPT !.cpu = c, !.array = c] \in Thread
    BY DEF Shapes, Thread
  <2> QED  BY <2>1, <2>2 DEF Shapes
<1>3. need_resched' \in [Cpus -> BOOLEAN]
  BY DEF Pull, Shapes
<1>4. lock' \in [Cpus -> Cpus \cup {Free}]
  BY <1>1 DEF Pull, Shapes
<1>5. op[c].then \in Ops(c) /\ Goes(c, op[c].then)
  BY <1>1, KnownOps DEF Pull, BalanceOps
<1>6. op' = [d \in Cpus |-> op'[d]] /\ \A d \in Cpus : op'[d] \in Ops(d)
  BY <1>5, OpStep
<1> QED  BY <1>2, <1>3, <1>4, <1>6 DEF Pull, Shapes, history

LEMMA ScheduleShapes ==
    ASSUME Shapes, NEW c \in Cpus, nr_running' \in [Cpus -> Nat],
           Schedule(c) \/ Pick(c) \/ ContextSwitch(c)
    PROVE  Shapes'
<1>1. CASE Schedule(c)
  <2> DEFINE now == nr_running'
  <2>1. task' \in [Threads -> Thread]
    <3>1. CASE task' = task
      BY <3>1 DEF Shapes
    <3>2. CASE task' # task
      <4>1. curr[c] \in Threads /\ task' = [task EXCEPT ![curr[c]].array = None]
        BY <1>1, <3>2 DEF Schedule, Stops, Shapes
      <4> QED  BY <4>1, Updated DEF Shapes
    <3> QED  BY <3>1, <3>2
  <2>2. \E next \in Ops(c) : Goes(c, next)
    <3>1. CASE Goes(c, PickOp)
      BY <3>1, KnownOps
    <3>2. CASE \E b \in Candidates(c, TRUE, now) : Goes(c, BalanceOp(b, TRUE, PickOp))
      BY <3>2, BalanceOpShape DEF Ops
    <3> QED  BY <1>1, <3>1, <3>2 DEF Schedule, PickOp
  <2>3. op' = [d \in Cpus |-> op'[d]] /\ \A d \in Cpus : op'[d] \in Ops(d)
    BY <2>2, OpStep
  <2> QED  BY <1>1, <2>1, <2>3 DEF Schedule, Shapes, history
<1>2. CASE Pick(c)
  <2>1. PICK next \in IF Migration(c) \in Queued(c) THEN {Migration(c)}
                      ELSE IF nr_running[c] = 0 THEN {Idle} ELSE Queued(c) :
          /\ curr' = [curr EXCEPT ![c] = next]
          /\ \/ /\ Exits(c)
                /\ Goes(c, [at |-> "switch", prev |-> curr[c]])
                /\ UNCHANGED lock
             \/ /\ ~Exits(c)
                /\ Goes(c, Running)
                /\ lock' = [lock EXCEPT ![c] = Free]
    BY <1>2 DEF Pick
  <2>2. next \in Threads \cup {Idle}
    BY <2>1 DEF Queued
  <2>3. \E o \in Ops(c) : Goes(c, o)
    <3>1. CASE Exits(c)
      <4>1. [at |-> "switch", prev |-> curr[c]] \in SwitchOps
        BY <3>1 DEF Exits, SwitchOps, Shapes
      <4> QED  BY <2>1, <3>1, <4>1 DEF Ops
    <3>2. CASE ~Exits(c)
      BY <2>1, <3>2, KnownOps
    <3> QED  BY <3>1, <3>2
  <2>4. op' = [d \in Cpus |-> op'[d]] /\ \A d \in Cpus : op'[d] \in Ops(d)
    BY <2>3, OpStep
  <2> QED  BY <1>2, <2>1, <2>2, <2>4 DEF Pick, Shapes
<1>3. CASE ContextSwitch(c)
  <2>1. op' = [d \in Cpus |-> op'[d]] /\ \A d \in Cpus : op'[d] \in Ops(d)
    BY <1>3, KnownOps, OpStep DEF ContextSwitch
  <2> QED  BY <1>3, <2>1 DEF ContextSwitch, Shapes, queues, history
<1> QED  BY <1>1, <1>2, <1>3

LEMMA BalanceTickShapes ==
    ASSUME Shapes, nr_running \in [Cpus -> Nat], NEW c \in Cpus, BalanceTick(c)
    PROVE  Shapes'
<1>1. PICK b \in Candidates(c, curr[c] = Idle, nr_running) :
          Goes(c, BalanceOp(b, curr[c] = Idle, Running))
  BY DEF BalanceTick
<1>2. BalanceOp(b, curr[c] = Idle, Running) \in Ops(c)
  BY BalanceOpShape DEF Ops
<1>3. op' = [d \in Cpus |-> op'[d]] /\ \A d \in Cpus : op'[d] \in Ops(d)
  BY <1>1, <1>2, OpStep
<1> QED  BY <1>3 DEF BalanceTick, Shapes, queues, history

(* The steps that change the state of one thread, and nothing else.        *)
LEMMA StateShapes ==
    ASSUME Shapes, NEW c \in Cpus,
           Sleep(c) \/ Exit(c) \/ Down(c) \/ \E p \in Mortal : ReleaseTask(c, p)
    PROVE  Shapes'
<1>1. PICK p \in Threads, st \in States : task' = [task EXCEPT ![p].state = st]
  BY TasksAssumption, ThreadsAreApart
     DEF Sleep, Exit, Down, ReleaseTask, InUser, States
<1>2. task' \in [Threads -> Thread]
  <2>1. task \in [Threads -> Thread]
    BY DEF Shapes
  <2> QED  BY <1>1, <2>1, Updated
<1>3. UNCHANGED <<curr, need_resched, lock, migration_queue, op, history>>
  BY DEF Sleep, Exit, Down, ReleaseTask
<1> QED  BY <1>2, <1>3 DEF Shapes, history

LEMMA SetCpusAllowedShapes ==
    ASSUME Shapes, NEW c \in Cpus, NEW p \in Targets, NEW mask \in (SUBSET Cpus) \ {{}},
           SetCpusAllowed(c, p, mask)
    PROVE  Shapes'
<1>1. p \in Threads /\ p \in Tasks /\ curr[c] \in Tasks
  BY TasksAssumption, ThreadsAreApart DEF SetCpusAllowed
<1>2. task' \in [Threads -> Thread]
  <2> DEFINE allowed == [task EXCEPT ![p].cpus_allowed = mask]
  <2>1. allowed \in [Threads -> Thread]
    BY <1>1, Updated DEF Shapes
  <2>2. ffs(mask) \in Cpus
    BY FirstOfMask
  <2>3. [allowed EXCEPT ![p].cpu = ffs(mask)] \in [Threads -> Thread]
    BY <1>1, <2>1, <2>2, Updated
  <2> QED  BY <2>1, <2>3 DEF SetCpusAllowed
<1>3. task[p].cpu \in Cpus /\ [task |-> p, caller |-> curr[c]] \in Request
  BY <1>1 DEF Shapes, Thread, Request
<1>4. migration_queue' \in [Cpus -> Seq(Request)]
  <2> DEFINE rq == task[p].cpu
             req == [task |-> p, caller |-> curr[c]]
  <2>1. <<req>> \o migration_queue[rq] \in Seq(Request)
    <3>1. <<req>> \in Seq(Request)
      BY <1>3
    <3> QED  BY <1>3, <3>1, ConcatProperties DEF Shapes
  <2>2. \/ migration_queue' = migration_queue
        \/ migration_queue' = [migration_queue EXCEPT ![rq] = <<req>> \o @]
    BY DEF SetCpusAllowed
  <2> QED  BY <1>3, <2>1, <2>2 DEF Shapes
<1>5. op' = [d \in Cpus |-> op'[d]] /\ \A d \in Cpus : op'[d] \in Ops(d)
  <2>1. CASE op' = op
    BY <2>1 DEF Shapes
  <2>2. CASE Goes(c, WakeOp(Migration(task[p].cpu), Running))
    <3>1. WakeOp(Migration(task[p].cpu), Running) \in Ops(c)
      BY <1>3, ThreadsAreApart, KnownOps DEF WakeOp
    <3> QED  BY <2>2, <3>1, OpStep
  <2> QED  BY <2>1, <2>2 DEF SetCpusAllowed
<1>6. overtaken' \subseteq Tasks
  BY <1>1 DEF SetCpusAllowed, Shapes
<1> QED  BY <1>2, <1>4, <1>5, <1>6 DEF SetCpusAllowed, Shapes

LEMMA ThreadShapes ==
    ASSUME Shapes, NEW c \in Cpus,
           NextRequest(c) \/ ChooseDest(c) \/ LockFirst(c) \/ LockSecond(c)
    PROVE  Shapes'
<1>1. CASE NextRequest(c)
  <2>1. task' \in [Threads -> Thread]
    BY <1>1, ThreadsAreApart, Updated DEF NextRequest, Shapes, States
  <2>2. migration_queue[c] # << >> =>
          Head(migration_queue[c]) \in Request /\ Tail(migration_queue[c]) \in Seq(Request)
    BY HeadTailProperties DEF Shapes
  <2>3. migration_queue' \in [Cpus -> Seq(Request)]
    BY <1>1, <2>2 DEF NextRequest, Shapes
  <2>4. \E next \in Ops(c) : Goes(c, next)
    <3>1. CASE migration_queue[c] = << >>
      BY <1>1, <3>1, KnownOps DEF NextRequest
    <3>2. CASE migration_queue[c] # << >>
      <4>1. [at |-> "dest", req |-> Head(migration_queue[c])] \in DestOps
        BY <2>2, <3>2 DEF DestOps
      <4> QED  BY <1>1, <3>2, <4>1 DEF NextRequest, Ops
    <3> QED  BY <3>1, <3>2
  <2>5. op' = [d \in Cpus |-> op'[d]] /\ \A d \in Cpus : op'[d] \in Ops(d)
    BY <2>4, OpStep
  <2> QED  BY <1>1, <2>1, <2>3, <2>5 DEF NextRequest, Shapes, history
<1>2. CASE ChooseDest(c)
  <2> DEFINE req == op[c].req
             next == [at |-> "first", req |-> req,
                      dest |-> ffs(task[req.task].cpus_allowed)]
  <2>1. req \in Request
    BY <1>2, OpAtPlace DEF ChooseDest, DestOps
  <2>2. task[req.task] \in Thread
    BY <2>1, ThreadsAreApart DEF Request, Shapes
  <2>3. ffs(task[req.task].cpus_allowed) \in Cpus
    BY <2>2, FirstOfMask DEF Thread
  <2>4. next \in Ops(c)
    BY <2>1, <2>3 DEF FirstOps, Ops
  <2>5. op' = [d \in Cpus |-> op'[d]] /\ \A d \in Cpus : op'[d] \in Ops(d)
    BY <1>2, <2>4, OpStep DEF ChooseDest
  <2> QED  BY <1>2, <2>5 DEF ChooseDest, Shapes, queues, history
<1>3. CASE LockFirst(c)
  <2> DEFINE src == task[op[c].req.task].cpu
             dest == op[c].dest
             next == [at |-> IF src = dest THEN "move" ELSE "second",
                      req |-> op[c].req, src |-> src, dest |-> dest]
  <2>1. op[c].req \in Request /\ dest \in Cpus
    BY <1>3, OpAtPlace DEF LockFirst, FirstOps
  <2>2. src \in Cpus
    BY <2>1, ThreadsAreApart DEF Request, Shapes, Thread
  <2>3. next \in MoveOps
    BY <2>1, <2>2 DEF MoveOps
  <2>4. op' = [d \in Cpus |-> op'[d]] /\ \A d \in Cpus : op'[d] \in Ops(d)
    BY <1>3, <2>3, OpStep DEF LockFirst, Ops
  <2> QED  BY <1>3, <2>4 DEF LockFirst, Shapes, queues, history
<1>4. CASE LockSecond(c)
  <2>1. [op[c] EXCEPT !.at = "move"] \in MoveOps
    BY <1>4, OpAtPlace DEF LockSecond, At, MoveOps
  <2>2. op' = [d \in Cpus |-> op'[d]] /\ \A d \in Cpus : op'[d] \in Ops(d)
    BY <1>4, <2>1, OpStep DEF LockSecond, Ops
  <2> QED  BY <1>4, <2>2 DEF LockSecond, Shapes, queues, history
<1> QED  BY <1>1, <1>2, <1>3, <1>4

LEMMA MoveShapes ==
    ASSUME Shapes, NEW c \in Cpus, Move(c)
    PROVE  Shapes'
<1> DEFINE req == op[c].req
           src == op[c].src
           dest == op[c].dest
<1>1. /\ req \in Request /\ src \in Cpus /\ dest \in Cpus
      /\ req.task \in Threads /\ req.caller \in Threads
  BY OpAtPlace, ThreadsAreApart DEF Move, At, MoveOps, Request
<1>2. task' \in [Threads -> Thread] /\ unnoticed' \subseteq Cpus
  <2>1. [task EXCEPT ![req.task].cpu = dest] \in [Threads -> Thread]
    BY <1>1, Updated DEF Shapes
  <2>2. [[task EXCEPT ![req.task].cpu = dest] EXCEPT ![req.task].array = dest]
            \in [Threads -> Thread]
    BY <1>1, <2>1, Updated
  <2> HIDE DEF req, src, dest
  <2> QED  BY <1>1, <2>1, <2>2, ZenonT(60) DEF Move, Moved, Shapes, req, src, dest
<1>3. \E next \in Ops(c) : Goes(c, next)
  <2>1. [at |-> "first", req |-> req, dest |-> dest] \in Ops(c)
    BY <1>1 DEF FirstOps, Ops
  <2>2. WakeOp(req.caller, LoopOp) \in Ops(c)
    BY <1>1, KnownOps DEF WakeOp
  <2>3. LoopOp \in Ops(c)
    BY KnownOps
  <2> QED  BY <2>1, <2>2, <2>3 DEF Move, LoopOp
<1>4. op' = [d \in Cpus |-> op'[d]] /\ \A d \in Cpus : op'[d] \in Ops(d)
  BY <1>3, OpStep
<1>5. lock' \in [Cpus -> Cpus \cup {Free}]
  BY DEF Move, Shapes
<1> QED  BY <1>2, <1>4, <1>5 DEF Move, Shapes

------------------------------------------------------------------------------

(* Counted *)

LEMMA Lengths ==
    ASSUME Counted
    PROVE  /\ nr_running \in [Cpus -> Nat]
           /\ \A c \in Cpus : IsFiniteSet(Queued(c)) /\ nr_running[c] = Cardinality(Queued(c))
<1>1. \A c \in Cpus : IsFiniteSet(Queued(c))
  BY ThreadsAreApart, FS_Subset DEF Queued
<1>2. \A c \in Cpus : Cardinality(Queued(c)) \in Nat
  BY <1>1, FS_CardinalityType
<1> QED  BY <1>1, <1>2 DEF Counted

LEMMA SameQueues ==
    ASSUME Counted, UNCHANGED nr_running,
           \A t \in Threads : task'[t].array = task[t].array
    PROVE  Counted'
<1>1. \A c \in Cpus : Queued(c)' = Queued(c)
  BY DEF Queued
<1> QED  BY <1>1 DEF Counted

(* A thread leaves its queue, or is put on one, or both. *)
LEMMA OneMoves ==
    ASSUME Counted, NEW p \in Threads, NEW a,
           \A t \in Threads : task'[t].array = IF t = p THEN a ELSE task[t].array,
           nr_running' = [d \in Cpus |-> nr_running'[d]],
           \A d \in Cpus : nr_running'[d] = nr_running[d]
                              - (IF d = task[p].array THEN 1 ELSE 0)
                              + (IF d = a THEN 1 ELSE 0)
    PROVE  Counted'
<1> SUFFICES ASSUME NEW d \in Cpus  PROVE nr_running'[d] = Cardinality(Queued(d)')
  BY DEF Counted
<1> DEFINE Q == Queued(d)
<1>1. nr_running[d] = Cardinality(Q) /\ nr_running[d] \in Nat /\ IsFiniteSet(Q)
  BY Lengths
<1>2. CASE (d = task[p].array) = (d = a)
  <2>1. Queued(d)' = Queued(d)
    BY <1>2 DEF Queued
  <2> QED  BY <1>1, <1>2, <2>1
<1>3. CASE d = task[p].array /\ d # a
  <2>1. Queued(d)' = Queued(d) \ {p} /\ p \in Queued(d)
    BY <1>3 DEF Queued
  <2>2. Cardinality(Q \ {p}) = Cardinality(Q) - 1
    BY <1>1, <2>1, FS_RemoveElement
  <2> QED  BY <1>1, <1>3, <2>1, <2>2
<1>4. CASE d # task[p].array /\ d = a
  <2>1. Queued(d)' = Queued(d) \cup {p} /\ p \notin Queued(d)
    BY <1>4 DEF Queued
  <2>2. Cardinality(Q \cup {p}) = Cardinality(Q) + 1
    BY <1>1, <2>1, FS_AddElement
  <2> QED  BY <1>1, <1>4, <2>1, <2>2
<1> QED  BY <1>2, <1>3, <1>4

LEMMA PullCounts ==
    ASSUME Shapes, Counted, NEW c \in Cpus, Pull(c)
    PROVE  Counted'
<1>0. op[c] \in BalanceOps(c)
  BY OpAtPlace DEF Pull, At, Balancing
<1>1. PICK b \in Cpus : b = op[c].rq /\ b # c
  BY <1>0 DEF BalanceOps, Others
<1>2. PICK moved \in SUBSET CanMigrate(c, b) :
          /\ task' = [t \in Threads |->
                         IF t \in moved THEN [task[t] EXCEPT !.cpu = c, !.array = c]
                         ELSE task[t]]
          /\ nr_running' = [nr_running EXCEPT ![b] = @ - Cardinality(moved),
                                              ![c] = @ + Cardinality(moved)]
  BY <1>1 DEF Pull
<1>3. moved \subseteq Queued(b) /\ Queued(b) \cap Queued(c) = {}
  BY <1>1, <1>2 DEF CanMigrate, Queued
<1>4. /\ nr_running \in [Cpus -> Nat] /\ IsFiniteSet(Queued(b)) /\ IsFiniteSet(Queued(c))
      /\ nr_running[b] = Cardinality(Queued(b)) /\ nr_running[c] = Cardinality(Queued(c))
  BY <1>1, Lengths
<1>5. IsFiniteSet(moved) /\ Cardinality(moved) \in Nat
  BY <1>3, <1>4, FS_Subset, FS_CardinalityType
<1>6. \A t \in Threads :
          task'[t].array = IF t \in moved THEN c ELSE task[t].array
  BY <1>2 DEF Shapes, Thread
<1>7. Queued(b)' = Queued(b) \ moved
  BY <1>1, <1>3, <1>6 DEF Queued
<1>8. Queued(c)' = Queued(c) \cup moved
  BY <1>1, <1>2, <1>3, <1>6 DEF Queued
<1>9. Cardinality(Queued(b) \ moved) = nr_running[b] - Cardinality(moved)
  <2>1. Queued(b) \cap moved = moved
    BY <1>3
  <2>2. Cardinality(Queued(b) \cap moved) = Cardinality(moved)
    BY <2>1, Zenon
  <2>3. Cardinality(Queued(b) \ moved)
            = Cardinality(Queued(b)) - Cardinality(Queued(b) \cap moved)
    BY <1>4, FS_Difference
  <2> QED  BY <1>4, <1>5, <2>2, <2>3
<1>10. Cardinality(Queued(c) \cup moved) = nr_running[c] + Cardinality(moved)
  <2>1. Queued(c) \cap moved = {}
    BY <1>3
  <2>3. Cardinality(Queued(c) \cap moved) = 0
    BY <2>1, FS_EmptySet, Zenon
  <2>2. Cardinality(Queued(c) \cup moved)
            = Cardinality(Queued(c)) + Cardinality(moved) - Cardinality(Queued(c) \cap moved)
    BY <1>4, <1>5, FS_Union
  <2> QED  BY <1>4, <1>5, <2>2, <2>3
<1>11. \A d \in Cpus \ {b, c} : Queued(d)' = Queued(d)
  BY <1>2, <1>3, <1>6 DEF Queued
<1>12. nr_running' = [d \in Cpus |-> IF d = b THEN nr_running[b] - Cardinality(moved)
                                    ELSE IF d = c THEN nr_running[c] + Cardinality(moved)
                                    ELSE nr_running[d]]
  BY <1>1, <1>2, <1>4
<1>13. \A d \in Cpus : nr_running'[d] = Cardinality(Queued(d)')
  <2>1. /\ Cardinality(Queued(b)') = nr_running[b] - Cardinality(moved)
        /\ Cardinality(Queued(c)') = nr_running[c] + Cardinality(moved)
    BY <1>7, <1>8, <1>9, <1>10, Zenon
  <2>2. \A d \in Cpus \ {b, c} : Cardinality(Queued(d)') = Cardinality(Queued(d))
    BY <1>11, Zenon
  <2>3. \A d \in Cpus : nr_running[d] = Cardinality(Queued(d))
    BY Lengths
  <2> QED  BY <1>1, <1>12, <2>1, <2>2, <2>3
<1> QED  BY <1>12, <1>13 DEF Counted

LEMMA WakeCounts ==
    ASSUME Shapes, Counted, NEW c \in Cpus, NEW p \in Threads, NEW sync, NEW then,
           TryToWakeUp(c, p, sync, then)
    PROVE  Counted'
<1>1. task \in [Threads -> Thread] /\ task[p].cpu \in Cpus /\ nr_running \in [Cpus -> Nat]
  BY Lengths DEF Shapes, Thread
<1>2. CASE /\ task[p].array = None
           /\ task' = [task EXCEPT ![p].array = task[p].cpu, ![p].state = "running"]
           /\ nr_running' = [nr_running EXCEPT ![task[p].cpu] = @ + 1]
  <2>1. \A t \in Threads :
            task'[t].array = IF t = p THEN task[p].cpu ELSE task[t].array
    BY <1>1, <1>2 DEF Thread
  <2>2. \A d \in Cpus : nr_running'[d] = nr_running[d]
                              - (IF d = task[p].array THEN 1 ELSE 0)
                              + (IF d = task[p].cpu THEN 1 ELSE 0)
    BY <1>1, <1>2, ThreadsAreApart
  <2>3. nr_running' = [d \in Cpus |-> nr_running'[d]]
    BY <1>1, <1>2
  <2>4. PICK a \in Cpus : a = task[p].cpu
    BY <1>1
  <2> QED  BY <2>1, <2>2, <2>3, <2>4, OneMoves
<1>3. CASE UNCHANGED nr_running /\ \A t \in Threads : task'[t].array = task[t].array
  BY <1>3, SameQueues
<1> QED  BY <1>1, <1>2, <1>3 DEF TryToWakeUp, Thread

LEMMA ScheduleCounts ==
    ASSUME Shapes, Counted, Placed, NEW c \in Cpus, Schedule(c)
    PROVE  Counted'
<1> DEFINE prev == curr[c]
           gone == Stops(c) /\ task[prev].array # None
<1>1. task \in [Threads -> Thread] /\ nr_running \in [Cpus -> Nat]
  BY Lengths DEF Shapes
<1>2. CASE gone
  <2>1. PICK p \in Threads : p = prev /\ task[p].array = c
    BY <1>2 DEF Stops, Shapes, Placed
  <2>2. \A t \in Threads : task'[t].array = IF t = p THEN None ELSE task[t].array
    BY <1>1, <1>2, <2>1 DEF Schedule, Thread
  <2>3. \A d \in Cpus : nr_running'[d] = nr_running[d]
                              - (IF d = task[p].array THEN 1 ELSE 0)
                              + (IF d = None THEN 1 ELSE 0)
    <3>1. nr_running' = [nr_running EXCEPT ![c] = @ - 1]
      BY <1>2 DEF Schedule
    <3> QED  BY <1>1, <2>1, <3>1, ThreadsAreApart
  <2>4. nr_running' = [d \in Cpus |-> nr_running'[d]]
    BY <1>1 DEF Schedule
  <2> QED  BY <2>2, <2>3, <2>4, OneMoves
<1>3. CASE ~gone
  <2>1. task' = task /\ nr_running' = nr_running
    BY <1>1, <1>3 DEF Schedule
  <2> QED  BY <2>1, SameQueues
<1> QED  BY <1>2, <1>3

LEMMA MoveCounts ==
    ASSUME Shapes, Counted, Placed, NEW c \in Cpus, Move(c)
    PROVE  Counted'
<1>1. op[c] \in MoveOps
  BY OpAtPlace DEF Move, At
<1>2. PICK p \in Threads, src \in Cpus, dest \in Cpus :
          p = op[c].req.task /\ src = op[c].src /\ dest = op[c].dest
  BY <1>1, ThreadsAreApart DEF MoveOps, Request
<1>3. task \in [Threads -> Thread] /\ nr_running \in [Cpus -> Nat]
  BY Lengths DEF Shapes
<1>4. CASE Moved(c, p, src, dest) /\ src = c /\ task[p].array # None
  <2>1. task[p].array = src
    BY <1>2, <1>4 DEF Moved, Placed
  <2>2. \A t \in Threads : task'[t].array = IF t = p THEN dest ELSE task[t].array
    BY <1>3, <1>4 DEF Moved, Thread
  <2>3. nr_running' = [[nr_running EXCEPT ![src] = @ - 1] EXCEPT ![dest] = @ + 1]
    BY <1>4 DEF Moved
  <2>4. \A d \in Cpus : nr_running'[d] = nr_running[d]
                              - (IF d = task[p].array THEN 1 ELSE 0)
                              + (IF d = dest THEN 1 ELSE 0)
    BY <1>3, <2>1, <2>3
  <2>5. nr_running' = [d \in Cpus |-> nr_running'[d]]
    BY <1>3, <2>3
  <2> QED  BY <2>2, <2>4, <2>5, OneMoves
<1>5. CASE UNCHANGED nr_running /\ \A t \in Threads : task'[t].array = task[t].array
  BY <1>5, SameQueues
<1> QED  BY <1>2, <1>3, <1>4, <1>5 DEF Move, Moved, Thread

LEMMA CountNext ==
    ASSUME Shapes, Counted, Placed, Next
    PROVE  Counted'
<1>1. task \in [Threads -> Thread]
  BY DEF Shapes
<1>2. PICK c \in Cpus :
        \/ StartWake(c) \/ Wake(c) \/ Schedule(c) \/ Pull(c) \/ Move(c)
        \/ TryLock(c) \/ LockBusiest(c) \/ LockThis(c)
        \/ Pick(c) \/ ContextSwitch(c) \/ BalanceTick(c)
        \/ ChooseDest(c) \/ LockFirst(c) \/ LockSecond(c)
        \/ Sleep(c) \/ Exit(c) \/ Down(c) \/ \E p \in Mortal : ReleaseTask(c, p)
        \/ NextRequest(c)
        \/ \E p \in Targets, mask \in (SUBSET Cpus) \ {{}} : SetCpusAllowed(c, p, mask)
  BY DEF Next
<1>3. CASE StartWake(c) \/ Wake(c)
  <2>1. At(c, "wake") => op[c].task \in Threads
    BY OpAtPlace DEF WakeOps
  <2> QED  BY <1>3, <2>1, WakeCounts, ThreadsAreApart DEF StartWake, Wake
<1>4. CASE Schedule(c) \/ Pull(c) \/ Move(c)
  BY <1>4, ScheduleCounts, PullCounts, MoveCounts
<1>5. CASE \/ TryLock(c) \/ LockBusiest(c) \/ LockThis(c)
           \/ Pick(c) \/ ContextSwitch(c) \/ BalanceTick(c)
           \/ ChooseDest(c) \/ LockFirst(c) \/ LockSecond(c)
  <2>1. UNCHANGED <<task, nr_running>>
    BY <1>5 DEF TryLock, LockBusiest, LockThis, Pick, ContextSwitch, BalanceTick,
                ChooseDest, LockFirst, LockSecond, queues
  <2> QED  BY <2>1, SameQueues
<1>6. CASE \/ Sleep(c) \/ Exit(c) \/ Down(c) \/ \E p \in Mortal : ReleaseTask(c, p)
           \/ NextRequest(c)
  <2>1. UNCHANGED nr_running /\ \E p, st : task' = [task EXCEPT ![p].state = st]
    BY <1>6 DEF Sleep, Exit, Down, ReleaseTask, NextRequest
  <2>2. \A t \in Threads : task'[t].array = task[t].array
    BY <1>1, <2>1 DEF Thread
  <2> QED  BY <2>1, <2>2, SameQueues
<1>7. CASE \E p \in Targets, mask \in (SUBSET Cpus) \ {{}} : SetCpusAllowed(c, p, mask)
  <2>1. PICK p, mask : SetCpusAllowed(c, p, mask)
    BY <1>7
  <2>2. UNCHANGED nr_running /\ \A t \in Threads : task'[t].array = task[t].array
    BY <1>1, <2>1 DEF SetCpusAllowed, Thread
  <2> QED  BY <2>2, SameQueues
<1> QED  BY <1>2, <1>3, <1>4, <1>5, <1>6, <1>7

LEMMA ShapesNext ==
    ASSUME Shapes, Counted, Placed, Next
    PROVE  Shapes'
<1>1. nr_running \in [Cpus -> Nat] /\ nr_running' \in [Cpus -> Nat]
  <2>1. \A c \in Cpus : Cardinality(Queued(c)') \in Nat
    BY ThreadsAreApart, FS_Subset, FS_CardinalityType DEF Queued
  <2>2. Counted'
    BY CountNext
  <2> QED  BY <2>1, <2>2, Lengths DEF Counted
<1>2. PICK c \in Cpus :
        \/ StartWake(c) \/ Wake(c)
        \/ TryLock(c) \/ LockBusiest(c) \/ LockThis(c)
        \/ Pull(c) \/ Schedule(c) \/ Pick(c) \/ ContextSwitch(c)
        \/ BalanceTick(c)
        \/ Sleep(c) \/ Exit(c) \/ Down(c) \/ \E p \in Mortal : ReleaseTask(c, p)
        \/ \E p \in Targets, mask \in (SUBSET Cpus) \ {{}} : SetCpusAllowed(c, p, mask)
        \/ NextRequest(c) \/ ChooseDest(c) \/ LockFirst(c) \/ LockSecond(c)
        \/ Move(c)
  BY DEF Next
<1>3. CASE StartWake(c)
  BY <1>3, WakeShapes, ThreadsAreApart DEF StartWake
<1>4. CASE Wake(c)
  <2>1. op[c] \in WakeOps
    BY <1>4, OpAtPlace DEF Wake
  <2> QED  BY <1>4, <2>1, WakeShapes DEF Wake, WakeOps
<1> QED
  BY <1>1, <1>2, <1>3, <1>4, LoadShapes, PullShapes, ScheduleShapes, BalanceTickShapes,
     StateShapes, SetCpusAllowedShapes, ThreadShapes, MoveShapes

------------------------------------------------------------------------------
(* Locks *)

LEMMA LockStep ==
    ASSUME Locks, NEW c \in Cpus,
           \A d \in Cpus : d # c => op'[d] = op[d],
           \A d \in Cpus : \/ lock'[d] = lock[d]
                           \/ lock[d] \in {c, Free} /\ lock'[d] \in {c, Free},
           \A d \in Cpus : lock'[d] = c <=> d \in Holds(c)',
           At(c, "spin")' => c < op'[c].rq,
           (At(c, "this") \/ At(c, "busiest"))' => op'[c].rq < c,
           At(c, "second")' => op'[c].src # op'[c].dest
    PROVE  Locks'
<1>1. \A b \in Cpus : b # c => Holds(b)' = Holds(b)
  BY DEF Holds
<1>2. LockHeld'
  <2> SUFFICES ASSUME NEW b \in Cpus, NEW d \in Cpus
               PROVE  lock'[d] = b <=> d \in Holds(b)'
    BY DEF LockHeld
  <2>1. CASE b # c
    <3>1. lock'[d] = b <=> lock[d] = b
      BY <2>1, ThreadsAreApart
    <3> QED  BY <1>1, <2>1, <3>1 DEF Locks, LockHeld
  <2> QED  BY <2>1
<1>3. InOrder'
  BY DEF Locks, InOrder, At
<1> QED  BY <1>2, <1>3 DEF Locks

(* Most steps take and release no lock. *)
LEMMA NoLock ==
    ASSUME Shapes, Locks, NEW c \in Cpus, UNCHANGED lock,
           NEW next, Goes(c, next),
           Holds(c) = {}, next.at \in {"run", "loop", "wake", "dest", "first"}
    PROVE  Locks'
<1>1. op'[c] = next /\ \A d \in Cpus : d # c => op'[d] = op[d]
  BY DEF Goes, Shapes
<1>2. Holds(c)' = {}
  BY <1>1 DEF Holds
<1>3. \A d \in Cpus : lock'[d] # c
  BY DEF Locks, LockHeld
<1> QED  BY <1>1, <1>2, <1>3, LockStep DEF At

LEMMA BalanceLocks ==
    ASSUME Shapes, Locks, NEW c \in Cpus,
           TryLock(c) \/ LockBusiest(c) \/ LockThis(c) \/ Pull(c)
    PROVE  Locks'
<1>1. op[c] \in BalanceOps(c) /\ op[c].at \in Balancing
  BY OpAtPlace DEF TryLock, LockBusiest, LockThis, Pull, At, Balancing
<1>2. PICK b \in Cpus : b = op[c].rq /\ b # c
  BY <1>1 DEF BalanceOps, Others
<1>3. b \in Nat /\ c \in Nat
  BY CpusAssumption
<1>4. \A d \in Cpus : lock[d] = c <=> d \in Holds(c)
  BY DEF Locks, LockHeld
<1>5. /\ lock \in [Cpus -> Cpus \cup {Free}] /\ op = [d \in Cpus |-> op[d]]
      /\ c # Free
  BY ThreadsAreApart DEF Shapes
<1>6. CASE TryLock(c)
  <2>1. Holds(c) = {c}
    BY <1>6 DEF TryLock, Holds, At
  <2>2. CASE lock[b] = Free
    <3>1. lock' = [lock EXCEPT ![b] = c] /\ op' = [op EXCEPT ![c] = [op[c] EXCEPT !.at = "pull"]]
      BY <1>2, <1>6, <2>2 DEF TryLock, Goes
    <3>2. op'[c].at = "pull" /\ op'[c].rq = b /\ \A d \in Cpus : d # c => op'[d] = op[d]
      BY <1>1, <1>2, <1>5, <3>1 DEF BalanceOps
    <3>3. Holds(c)' = {c, b}
      BY <3>2 DEF Holds
    <3> QED  BY <1>2, <1>4, <1>5, <2>1, <2>2, <3>1, <3>2, <3>3, LockStep DEF At
  <2>3. CASE lock[b] # Free /\ b < c
    <3>1. /\ lock' = [lock EXCEPT ![c] = Free]
          /\ op' = [op EXCEPT ![c] = [op[c] EXCEPT !.at = "busiest"]]
      BY <1>2, <1>6, <2>3 DEF TryLock, Goes, Drops
    <3>2. op'[c].at = "busiest" /\ op'[c].rq = b /\ \A d \in Cpus : d # c => op'[d] = op[d]
      BY <1>1, <1>2, <1>5, <3>1 DEF BalanceOps
    <3>3. Holds(c)' = {}
      BY <3>2 DEF Holds
    <3> QED  BY <1>2, <1>4, <1>5, <2>1, <2>3, <3>1, <3>2, <3>3, LockStep DEF At
  <2>4. CASE lock[b] # Free /\ ~(b < c)
    <3>1. UNCHANGED lock /\ op' = [op EXCEPT ![c] = [op[c] EXCEPT !.at = "spin"]]
      BY <1>2, <1>6, <2>4 DEF TryLock, Goes, Drops
    <3>2. op'[c].at = "spin" /\ op'[c].rq = b /\ \A d \in Cpus : d # c => op'[d] = op[d]
      BY <1>1, <1>2, <1>5, <3>1 DEF BalanceOps
    <3>3. Holds(c)' = {c}
      BY <3>2 DEF Holds
    <3> QED  BY <1>2, <1>3, <1>4, <1>5, <2>1, <2>4, <3>1, <3>2, <3>3, LockStep DEF At
  <2> QED  BY <2>2, <2>3, <2>4
<1>7. CASE LockBusiest(c)
  <2> DEFINE place == IF op[c].at = "spin" THEN "pull" ELSE "this"
  <2>1. /\ Holds(c) = IF op[c].at = "spin" THEN {c} ELSE {}
        /\ lock[b] = Free /\ op[c].at \in {"spin", "busiest"}
    BY <1>2, <1>7 DEF LockBusiest, Holds, At
  <2>2. lock' = [lock EXCEPT ![b] = c] /\ op' = [op EXCEPT ![c] = [op[c] EXCEPT !.at = place]]
    BY <1>1, <1>2, <1>7 DEF LockBusiest, Goes, BalanceOps
  <2>3. op'[c].at = place /\ op'[c].rq = b /\ \A d \in Cpus : d # c => op'[d] = op[d]
    BY <1>1, <1>2, <1>5, <2>2 DEF BalanceOps
  <2>4. Holds(c)' = IF op[c].at = "spin" THEN {c, b} ELSE {b}
    BY <2>3 DEF Holds
  <2>5. op[c].at = "busiest" => b < c
    BY <1>2 DEF Locks, InOrder, At
  <2> QED  BY <1>2, <1>4, <1>5, <2>1, <2>2, <2>3, <2>4, <2>5, LockStep DEF At
<1>8. CASE LockThis(c)
  <2>1. Holds(c) = {b} /\ lock[c] = Free
    BY <1>2, <1>8 DEF LockThis, Holds, At
  <2>2. PICK nr : /\ lock' = [lock EXCEPT ![c] = c]
                  /\ op' = [op EXCEPT ![c] = [op[c] EXCEPT !.at = "pull", !.nr = nr]]
    BY <1>8 DEF LockThis, Goes
  <2>3. op'[c].at = "pull" /\ op'[c].rq = b /\ \A d \in Cpus : d # c => op'[d] = op[d]
    BY <1>1, <1>2, <1>5, <2>2 DEF BalanceOps
  <2>4. Holds(c)' = {c, b}
    BY <2>3 DEF Holds
  <2> QED  BY <1>2, <1>4, <1>5, <2>1, <2>2, <2>3, <2>4, LockStep DEF At
<1>9. CASE Pull(c)
  <2>1. Holds(c) = {c, b}
    BY <1>2, <1>9 DEF Pull, Holds, At
  <2>2. /\ lock' = [lock EXCEPT ![b] = Free,
                                ![c] = IF op[c].then = Running THEN Free ELSE @]
        /\ op' = [op EXCEPT ![c] = op[c].then]
    BY <1>2, <1>9 DEF Pull, Goes
  <2>3. op[c].then \in {Running, PickOp} /\ Running.at = "run" /\ PickOp.at = "pick"
    BY <1>1 DEF BalanceOps, Running, PickOp
  <2>4. op'[c] = op[c].then /\ \A d \in Cpus : d # c => op'[d] = op[d]
    BY <1>5, <2>2
  <2>5. Holds(c)' = IF op[c].then = Running THEN {} ELSE {c}
    BY <2>3, <2>4 DEF Holds
  <2>6. \A d \in Cpus : lock'[d] = IF d = c THEN IF op[c].then = Running THEN Free ELSE c
                                   ELSE IF d = b THEN Free ELSE lock[d]
    BY <1>2, <1>4, <1>5, <2>1, <2>2
  <2> QED  BY <1>2, <1>4, <1>5, <2>1, <2>3, <2>4, <2>5, <2>6, LockStep DEF At
<1> QED  BY <1>6, <1>7, <1>8, <1>9, SMTT(60)

LEMMA ScheduleLocks ==
    ASSUME Shapes, Locks, NEW c \in Cpus,
           Schedule(c) \/ BalanceTick(c) \/ Pick(c) \/ ContextSwitch(c)
    PROVE  Locks'
<1>1. \A d \in Cpus : lock[d] = c <=> d \in Holds(c)
  BY DEF Locks, LockHeld
<1>2. /\ lock \in [Cpus -> Cpus \cup {Free}] /\ op = [d \in Cpus |-> op[d]]
      /\ c # Free
  BY ThreadsAreApart DEF Shapes
<1>3. CASE Schedule(c) \/ BalanceTick(c)
  <2>1. Holds(c) = {} /\ lock[c] = Free /\ lock' = [lock EXCEPT ![c] = c]
    BY <1>3 DEF Schedule, BalanceTick, Holds, At
  <2>2. \E next : Goes(c, next) /\ next.at \in {"try", "pick"}
    <3>1. \/ Goes(c, [at |-> "pick"])
          \/ \E b, idle, then : Goes(c, BalanceOp(b, idle, then))
      <4>1. CASE Schedule(c)
        BY <4>1 DEF Schedule
      <4>2. CASE BalanceTick(c)
        BY <4>2 DEF BalanceTick
      <4> QED  BY <1>3, <4>1, <4>2
    <3>2. \A b, idle, then : BalanceOp(b, idle, then).at = "try"
      BY DEF BalanceOp
    <3> QED  BY <3>1, <3>2
  <2>3. op'[c].at \in {"try", "pick"} /\ \A d \in Cpus : d # c => op'[d] = op[d]
    BY <1>2, <2>2 DEF Goes
  <2>4. Holds(c)' = {c}
    BY <2>3 DEF Holds
  <2> QED  BY <1>1, <1>2, <2>1, <2>3, <2>4, LockStep DEF At
<1>4. CASE Pick(c) /\ Exits(c)
  <2>1. Holds(c) = {c} /\ UNCHANGED lock
    BY <1>4 DEF Pick, Holds, At
  <2>2. \E next : Goes(c, next) /\ next.at = "switch"
    BY <1>4 DEF Pick
  <2>3. op'[c].at = "switch" /\ \A d \in Cpus : d # c => op'[d] = op[d]
    BY <1>2, <2>2 DEF Goes
  <2>4. Holds(c)' = {c}
    BY <2>3 DEF Holds
  <2> QED  BY <1>1, <1>2, <2>1, <2>3, <2>4, LockStep DEF At
<1>5. CASE (Pick(c) /\ ~Exits(c)) \/ ContextSwitch(c)
  <2>1. Holds(c) = {c} /\ lock' = [lock EXCEPT ![c] = Free]
    BY <1>5 DEF Pick, ContextSwitch, Holds, At
  <2>2. Goes(c, Running)
    BY <1>5 DEF Pick, ContextSwitch
  <2>3. op'[c].at = "run" /\ \A d \in Cpus : d # c => op'[d] = op[d]
    BY <1>2, <2>2 DEF Goes, Running
  <2>4. Holds(c)' = {}
    BY <2>3 DEF Holds
  <2> QED  BY <1>1, <1>2, <2>1, <2>3, <2>4, LockStep DEF At
<1> QED  BY <1>3, <1>4, <1>5

LEMMA FirstOfTwo ==
    ASSUME NEW src \in Cpus, NEW dest \in Cpus
    PROVE  /\ LockedFirst(src, dest) \in {src, dest}
           /\ LockedFirst(src, dest) <= src /\ LockedFirst(src, dest) <= dest
BY FirstOfMask DEF LockedFirst

(* double_rq_lock() takes both locks, in order. *)
LEMMA SecondOfTwo ==
    ASSUME Shapes, Locks, NEW c \in Cpus, At(c, "second")
    PROVE  /\ Second(c) \in Cpus
           /\ LockedFirst(op[c].src, op[c].dest) \in Cpus
           /\ LockedFirst(op[c].src, op[c].dest) < Second(c)
           /\ {op[c].src, op[c].dest} = {LockedFirst(op[c].src, op[c].dest), Second(c)}
<1>1. PICK src \in Cpus, dest \in Cpus : src = op[c].src /\ dest = op[c].dest
  BY OpAtPlace DEF At, MoveOps
<1>2. src # dest /\ src \in Nat /\ dest \in Nat
  BY <1>1, CpusAssumption DEF Locks, InOrder
<1>3. PICK first \in {src, dest} : /\ first = LockedFirst(src, dest)
                                   /\ first <= src /\ first <= dest
  BY FirstOfTwo
<1>4. \E d \in {src, dest} : d # first
  BY <1>2
<1>5. PICK second \in {src, dest} : second = Second(c) /\ second # first
  BY <1>1, <1>3, <1>4 DEF Second
<1> QED  BY <1>1, <1>2, <1>3, <1>5

LEMMA MoveLocks ==
    ASSUME Shapes, Locks, NEW c \in Cpus, LockFirst(c) \/ LockSecond(c) \/ Move(c)
    PROVE  Locks'
<1>1. \A d \in Cpus : lock[d] = c <=> d \in Holds(c)
  BY DEF Locks, LockHeld
<1>2. /\ lock \in [Cpus -> Cpus \cup {Free}] /\ op = [d \in Cpus |-> op[d]]
      /\ c # Free
  BY ThreadsAreApart DEF Shapes
<1>3. CASE LockFirst(c)
  <2>1. PICK src \in Cpus, dest \in Cpus :
            /\ src = task[op[c].req.task].cpu /\ dest = op[c].dest
    <3>1. op[c] \in FirstOps
      BY <1>3, OpAtPlace DEF LockFirst
    <3> QED  BY <3>1, ThreadsAreApart DEF FirstOps, Request, Shapes, Thread
  <2>2. PICK first \in Cpus : first = LockedFirst(src, dest) /\ first \in {src, dest}
    BY FirstOfTwo
  <2>3. Holds(c) = {} /\ lock[first] = Free /\ lock' = [lock EXCEPT ![first] = c]
    BY <1>3, <2>1, <2>2 DEF LockFirst, Holds, At
  <2>4. Goes(c, [at |-> IF src = dest THEN "move" ELSE "second",
                 req |-> op[c].req, src |-> src, dest |-> dest])
    BY <1>3, <2>1 DEF LockFirst
  <2>5. /\ op'[c].at = IF src = dest THEN "move" ELSE "second"
        /\ op'[c].src = src /\ op'[c].dest = dest
        /\ \A d \in Cpus : d # c => op'[d] = op[d]
    BY <1>2, <2>4 DEF Goes
  <2>6. Holds(c)' = {first}
    BY <2>2, <2>5 DEF Holds
  <2> QED  BY <1>1, <1>2, <2>3, <2>5, <2>6, LockStep DEF At
<1>4. CASE LockSecond(c)
  <2>1. PICK first \in Cpus, second \in Cpus :
            /\ first = LockedFirst(op[c].src, op[c].dest) /\ second = Second(c)
            /\ {op[c].src, op[c].dest} = {first, second}
    BY <1>4, SecondOfTwo DEF LockSecond
  <2>2. Holds(c) = {first} /\ lock[second] = Free /\ lock' = [lock EXCEPT ![second] = c]
    BY <1>4, <2>1 DEF LockSecond, Holds, At
  <2>3. op[c] \in MoveOps
    BY <1>4, OpAtPlace DEF LockSecond, At
  <2>4. /\ op'[c].at = "move" /\ op'[c].src = op[c].src /\ op'[c].dest = op[c].dest
        /\ \A d \in Cpus : d # c => op'[d] = op[d]
    BY <1>2, <1>4, <2>3 DEF LockSecond, Goes, MoveOps
  <2>5. Holds(c)' = {first, second}
    BY <2>1, <2>4 DEF Holds
  <2> QED  BY <1>1, <1>2, <2>2, <2>4, <2>5, LockStep DEF At
<1>5. CASE Move(c)
  <2>1. PICK src \in Cpus, dest \in Cpus : src = op[c].src /\ dest = op[c].dest
    BY <1>5, OpAtPlace DEF Move, At, MoveOps
  <2>2. Holds(c) = {src, dest} /\ lock' = [lock EXCEPT ![src] = Free, ![dest] = Free]
    BY <1>5, <2>1 DEF Move, Holds, At
  <2>3. \E next : Goes(c, next) /\ next.at \in {"first", "loop", "wake"}
    BY <1>5 DEF Move, WakeOp
  <2>4. op'[c].at \in {"first", "loop", "wake"} /\ \A d \in Cpus : d # c => op'[d] = op[d]
    BY <1>2, <2>3 DEF Goes
  <2>5. Holds(c)' = {}
    BY <2>4 DEF Holds
  <2> QED  BY <1>1, <1>2, <2>2, <2>4, <2>5, LockStep DEF At
<1> QED  BY <1>3, <1>4, <1>5

LEMMA LocksNext ==
    ASSUME Shapes, Locks, Next
    PROVE  Locks'
<1>1. PICK c \in Cpus :
        \/ StartWake(c) \/ Wake(c)
        \/ NextRequest(c) \/ ChooseDest(c)
        \/ \E p \in Targets, mask \in (SUBSET Cpus) \ {{}} : SetCpusAllowed(c, p, mask)
        \/ Sleep(c) \/ Exit(c) \/ Down(c) \/ \E p \in Mortal : ReleaseTask(c, p)
        \/ TryLock(c) \/ LockBusiest(c) \/ LockThis(c) \/ Pull(c)
        \/ Schedule(c) \/ BalanceTick(c) \/ Pick(c) \/ ContextSwitch(c)
        \/ LockFirst(c) \/ LockSecond(c) \/ Move(c)
  BY DEF Next
<1>2. CASE UNCHANGED <<lock, op>>
  BY <1>2, LockStep DEF Locks, LockHeld, InOrder, Holds, At
<1>3. CASE StartWake(c)
  <2>1. Holds(c) = {}
    BY <1>3 DEF StartWake, Holds, At
  <2>2. UNCHANGED lock /\ \E next : Goes(c, next) /\ next.at \in {"run", "wake"}
    BY <1>3 DEF StartWake, TryToWakeUp, Running
  <2> QED  BY <2>1, <2>2, NoLock
<1>4. CASE Wake(c)
  <2>1. Holds(c) = {}
    BY <1>4 DEF Wake, Holds, At
  <2>2. op[c].then \in {Running, LoopOp}
    BY <1>4, OpAtPlace DEF Wake, WakeOps
  <2>3. UNCHANGED lock /\ \E next : Goes(c, next) /\ next.at \in {"run", "loop", "wake"}
    BY <1>4, <2>2 DEF Wake, TryToWakeUp, Running, LoopOp
  <2> QED  BY <2>1, <2>3, NoLock
<1>5. CASE NextRequest(c) \/ ChooseDest(c)
  <2>1. Holds(c) = {}
    BY <1>5 DEF NextRequest, ChooseDest, Holds, At
  <2>2. UNCHANGED lock /\ \E next : Goes(c, next) /\ next.at \in {"run", "dest", "first"}
    BY <1>5 DEF NextRequest, ChooseDest, Running
  <2> QED  BY <2>1, <2>2, NoLock
<1>6. CASE \E p \in Targets, mask \in (SUBSET Cpus) \ {{}} : SetCpusAllowed(c, p, mask)
  <2>1. Holds(c) = {}
    BY <1>6 DEF SetCpusAllowed, InUser, Holds, At
  <2>2. \/ UNCHANGED <<lock, op>>
        \/ UNCHANGED lock /\ \E next : Goes(c, next) /\ next.at = "wake"
    BY <1>6 DEF SetCpusAllowed, WakeOp
  <2> QED  BY <1>2, <2>1, <2>2, NoLock
<1>7. CASE Sleep(c) \/ Exit(c) \/ Down(c) \/ \E p \in Mortal : ReleaseTask(c, p)
  BY <1>2, <1>7 DEF Sleep, Exit, Down, ReleaseTask
<1> QED
  BY <1>1, <1>3, <1>4, <1>5, <1>6, <1>7, BalanceLocks, ScheduleLocks, MoveLocks

------------------------------------------------------------------------------
(* Places *)

(* What a step that picks no thread may do with one of them. *)
SameThread(t) == /\ task'[t].state = task[t].state /\ task'[t].cpu = task[t].cpu
                 /\ task'[t].array = task[t].array

LiveThread(t) == /\ ~Gone(t) /\ ~Gone(t)'
                 /\ task'[t].array \in {None, task'[t].cpu}
                 /\ \A d \in Cpus : curr[d] = t => task'[t].cpu = d

LooseThread(t) == /\ task'[t].state = task[t].state
                  /\ task[t].array = None /\ task'[t].array = None
                  /\ \A d \in Cpus : t \notin OnProcessor(d)

LEMMA PlacesStep ==
    ASSUME Shapes, Places, NEW c \in Cpus, UNCHANGED curr,
           \A d \in Cpus : d # c => op'[d] = op[d],
           At(c, "wake")' => ~Gone(op[c].task)',
           ToPick(c)' => ToPick(c),
           At(c, "switch")' => op'[c] = op[c],
           InThread(c)' => curr[c] = Migration(c),
           \A t \in Threads : SameThread(t) \/ LiveThread(t) \/ LooseThread(t)
    PROVE  Places'
<1>1. \A d \in Cpus : /\ ToPick(d)' => ToPick(d)
                      /\ At(d, "switch")' => op'[d] = op[d] /\ At(d, "switch")
                      /\ OnProcessor(d)' \subseteq OnProcessor(d)
                      /\ InThread(d)' => curr[d] = Migration(d)
  BY DEF ToPick, At, OnProcessor, InThread, Places, OwnThread
<1>2. Placed'
  <2>1. \A t \in Threads : task'[t].array \in {None, task'[t].cpu}
    BY DEF Places, Placed, SameThread, LiveThread, LooseThread
  <2>2. \A d \in Cpus : curr'[d] # Idle => task'[curr'[d]].cpu = d
    <3> SUFFICES ASSUME NEW d \in Cpus, curr[d] # Idle  PROVE task'[curr[d]].cpu = d
      OBVIOUS
    <3>1. PICK t \in Threads : t = curr[d]
      BY DEF Shapes
    <3>2. ~LooseThread(t)
      BY <3>1 DEF LooseThread, OnProcessor
    <3> QED  BY <3>1, <3>2 DEF Places, Placed, SameThread, LiveThread
  <2>3. \A t \in Threads : task'[t].state = "released" =>
            task'[t].array = None /\ \A d \in Cpus : t \notin OnProcessor(d)'
    BY <1>1 DEF Places, Placed, SameThread, LiveThread, LooseThread, Gone
  <2> QED  BY <2>1, <2>2, <2>3 DEF Placed
<1>3. Zombies'
  <2>1. \A d \in Cpus : At(d, "wake")' => ~Gone(op[d].task)'
    <3> SUFFICES ASSUME NEW d \in Cpus, At(d, "wake")', d # c
                 PROVE  ~Gone(op[d].task)'
      OBVIOUS
    <3>1. op'[d] = op[d] /\ At(d, "wake") /\ op[d].task \in Threads
      BY OpAtPlace DEF At, WakeOps
    <3>2. ~Gone(op[d].task)
      BY <3>1 DEF Places, Zombies
    <3> QED  BY <3>1, <3>2 DEF SameThread, LiveThread, LooseThread, Gone
  <2>2. \A t \in Threads : Gone(t)' => t \in Mortal
    BY DEF Places, Zombies, SameThread, LiveThread, LooseThread, Gone
  <2>3. \A t \in Threads : task'[t].state = "zombie" /\ task'[t].array # None =>
            /\ curr'[task'[t].cpu] = t
            /\ ~ToPick(task[t].cpu)' /\ ~At(task[t].cpu, "switch")'
    <3> SUFFICES ASSUME NEW t \in Threads, task'[t].state = "zombie", task'[t].array # None
                 PROVE  /\ curr'[task'[t].cpu] = t
                        /\ ~ToPick(task[t].cpu)' /\ ~At(task[t].cpu, "switch")'
      OBVIOUS
    <3>1. SameThread(t)
      BY DEF LiveThread, LooseThread, Gone
    <3>2. PICK d \in Cpus : d = task[t].cpu
      BY DEF Shapes, Thread
    <3>3. curr[d] = t /\ ~ToPick(d) /\ ~At(d, "switch")
      BY <3>1, <3>2 DEF Places, Zombies, SameThread
    <3>4. d = task'[t].cpu
      BY <3>1, <3>2 DEF SameThread
    <3>5. ~ToPick(d)' /\ ~At(d, "switch")'
      BY <1>1, <3>3
    <3> QED  BY <3>2, <3>3, <3>4, <3>5 DEF ToPick, At
  <2>4. \A d \in Cpus : At(d, "switch")' =>
            LET prev == op'[d].prev
            IN  /\ task'[prev].state = "zombie" /\ task'[prev].cpu = d
                /\ task'[prev].array = None
    <3> SUFFICES ASSUME NEW d \in Cpus, At(d, "switch")'
                 PROVE  LET prev == op'[d].prev
                        IN  /\ task'[prev].state = "zombie" /\ task'[prev].cpu = d
                            /\ task'[prev].array = None
      OBVIOUS
    <3>1. op'[d] = op[d] /\ At(d, "switch")
      BY <1>1
    <3>2. PICK t \in Threads : t = op[d].prev
      BY <3>1, OpAtPlace DEF SwitchOps
    <3>3. task[t].state = "zombie" /\ task[t].cpu = d /\ task[t].array = None
      BY <3>1, <3>2 DEF Places, Zombies
    <3>4. t \in OnProcessor(d)
      BY <3>1, <3>2 DEF OnProcessor
    <3>5. SameThread(t)
      BY <3>3, <3>4 DEF LiveThread, LooseThread, Gone
    <3> QED  BY <3>1, <3>2, <3>3, <3>5 DEF SameThread
  <2> QED  BY <2>1, <2>2, <2>3, <2>4 DEF Zombies
<1>4. OwnThread'
  BY <1>1 DEF OwnThread
<1> QED  BY <1>2, <1>3, <1>4 DEF Places

LEMMA WakePlaces ==
    ASSUME Shapes, Places, NEW c \in Cpus, NEW p \in Threads, NEW sync \in BOOLEAN,
           NEW then \in {Running, LoopOp}, ~Gone(p),
           then = LoopOp => curr[c] = Migration(c),
           TryToWakeUp(c, p, sync, then)
    PROVE  Places'
<1>1. task \in [Threads -> Thread] /\ op = [d \in Cpus |-> op[d]]
  BY DEF Shapes
<1>2. UNCHANGED curr /\ \A d \in Cpus : d # c => op'[d] = op[d]
  BY <1>1 DEF TryToWakeUp, Goes
<1>3. /\ ~Gone(p)' /\ task'[p].array \in {None, task'[p].cpu}
      /\ \A d \in Cpus : curr[d] = p => task'[p].cpu = d
  <2>1. \A d \in Cpus : curr[d] = p => task[p].cpu = d
    BY ThreadsAreApart DEF Places, Placed
  <2>2. task[p].array \in {None, task[p].cpu} /\ task[p].cpu \in Cpus
    BY <1>1 DEF Places, Placed, Thread
  <2>3. CASE task' = [task EXCEPT ![p].cpu = c] /\ task[p].array = None /\ FastMigrates(c, p)
    BY <1>1, <2>1, <2>3 DEF FastMigrates, Gone, Thread
  <2>4. CASE task' = [task EXCEPT ![p].array = task[p].cpu, ![p].state = "running"]
    BY <1>1, <2>1, <2>4 DEF Gone, Thread
  <2>5. CASE task' = [task EXCEPT ![p].state = "running"]
    BY <1>1, <2>1, <2>2, <2>5 DEF Gone, Thread
  <2> QED  BY <2>3, <2>4, <2>5 DEF TryToWakeUp
<1>4. \A t \in Threads : t # p => task'[t] = task[t]
  BY <1>1 DEF TryToWakeUp
<1>5. \/ op'[c] = then
      \/ op'[c] = [at |-> "wake", task |-> p, sync |-> sync, then |-> then]
  BY <1>1 DEF TryToWakeUp, Goes
<1>6. then \in {[at |-> "run"], [at |-> "loop"]}
  BY DEF Running, LoopOp
<1>7. \A t \in Threads : SameThread(t) \/ LiveThread(t)
  BY <1>3, <1>4 DEF SameThread, LiveThread
<1>8. At(c, "wake")' => ~Gone(op[c].task)'
  BY <1>3, <1>5, <1>6 DEF At, Gone
<1>9. ~ToPick(c)' /\ ~At(c, "switch")'
  BY <1>5, <1>6 DEF ToPick, At, Balancing
<1>10. InThread(c)' => curr[c] = Migration(c)
  BY <1>5, <1>6 DEF InThread, At, LoopOp
<1> QED  BY <1>2, <1>7, <1>8, <1>9, <1>10, PlacesStep

LEMMA LoadPlaces ==
    ASSUME Shapes, Places, NEW c \in Cpus,
           TryLock(c) \/ LockBusiest(c) \/ LockThis(c) \/ BalanceTick(c) \/ ContextSwitch(c)
    PROVE  Places'
<1>1. op = [d \in Cpus |-> op[d]]
  BY DEF Shapes
<1>2. UNCHANGED <<task, curr>> /\ \E next : Goes(c, next)
  BY DEF TryLock, LockBusiest, LockThis, BalanceTick, ContextSwitch, queues
<1>3. \A d \in Cpus : d # c => op'[d] = op[d]
  BY <1>1, <1>2 DEF Goes
<1>4. \A t \in Threads : SameThread(t)
  BY <1>2 DEF SameThread
<1>5. ~At(c, "wake")' /\ ~At(c, "switch")' /\ ~InThread(c)' /\ (ToPick(c)' => ToPick(c))
  <2>1. CASE TryLock(c) \/ LockBusiest(c) \/ LockThis(c)
    <3>1. op[c] \in BalanceOps(c) /\ op[c].at \in Balancing
      BY <2>1, OpAtPlace DEF TryLock, LockBusiest, LockThis, At, Balancing
    <3>2. op'[c].at \in Balancing /\ op'[c].then = op[c].then
      <4>1. CASE TryLock(c)
        BY <1>1, <3>1, <4>1 DEF TryLock, Goes, BalanceOps, Balancing
      <4>2. CASE LockBusiest(c)
        BY <1>1, <3>1, <4>2 DEF LockBusiest, Goes, BalanceOps, Balancing
      <4>3. CASE LockThis(c)
        BY <1>1, <3>1, <4>3 DEF LockThis, Goes, BalanceOps, Balancing
      <4> QED  BY <2>1, <4>1, <4>2, <4>3
    <3> QED  BY <3>1, <3>2, SMTT(60) DEF At, InThread, ToPick, Balancing
  <2>2. CASE BalanceTick(c)
    <3>1. PICK b, idle : Goes(c, BalanceOp(b, idle, Running))
      BY <2>2 DEF BalanceTick
    <3>2. op'[c].at = "try" /\ op'[c].then = Running
      BY <1>1, <3>1 DEF Goes, BalanceOp
    <3> QED  BY <3>2 DEF At, InThread, ToPick, PickOp, Running
  <2>3. CASE ContextSwitch(c)
    <3>1. op'[c] = Running
      BY <1>1, <2>3 DEF ContextSwitch, Goes
    <3> QED  BY <3>1 DEF At, InThread, ToPick, Running, Balancing
  <2> QED  BY <2>1, <2>2, <2>3
<1> QED  BY <1>2, <1>3, <1>4, <1>5, PlacesStep

LEMMA PullPlaces ==
    ASSUME Shapes, Places, NEW c \in Cpus, Pull(c)
    PROVE  Places'
<1>1. op[c] \in BalanceOps(c) /\ op = [d \in Cpus |-> op[d]] /\ task \in [Threads -> Thread]
  BY OpAtPlace DEF Pull, At, Balancing, Shapes
<1>2. PICK moved \in SUBSET CanMigrate(c, op[c].rq) :
          task' = [t \in Threads |->
                      IF t \in moved THEN [task[t] EXCEPT !.cpu = c, !.array = c]
                      ELSE task[t]]
  BY DEF Pull
<1>3. UNCHANGED curr /\ op' = [op EXCEPT ![c] = op[c].then]
  BY DEF Pull, Goes
<1>4. op'[c] \in {Running, PickOp} /\ (op'[c] = PickOp => ToPick(c))
  BY <1>1, <1>3 DEF BalanceOps, ToPick, Pull, At, Balancing
<1>5. ~At(c, "wake")' /\ ~At(c, "switch")' /\ ~InThread(c)' /\ (ToPick(c)' => ToPick(c))
  BY <1>4 DEF At, InThread, ToPick, Running, PickOp, Balancing
<1>6. ASSUME NEW t \in Threads  PROVE SameThread(t) \/ LiveThread(t)
  <2>1. CASE t \in moved
    <3>1. task[t].array = op[c].rq /\ t # curr[op[c].rq] /\ op[c].rq \in Cpus
      BY <1>1, <1>2, <2>1 DEF CanMigrate, Queued, BalanceOps, Others
    <3>2. task[t].cpu = op[c].rq /\ task[t].array # None
      BY <3>1, ThreadsAreApart DEF Places, Placed
    <3>3. \A d \in Cpus : curr[d] # t
      BY <3>1, <3>2, ThreadsAreApart DEF Places, Placed
    <3>4. ~Gone(t)
      BY <3>1, <3>2 DEF Places, Placed, Zombies, Gone
    <3>5. /\ task'[t].state = task[t].state /\ task'[t].cpu = c /\ task'[t].array = c
      BY <1>1, <1>2, <2>1 DEF Thread
    <3> QED  BY <3>3, <3>4, <3>5 DEF LiveThread, Gone
  <2>2. CASE t \notin moved
    BY <1>2, <2>2 DEF SameThread
  <2> QED  BY <2>1, <2>2
<1> QED  BY <1>1, <1>3, <1>5, <1>6, PlacesStep

(* A task that sleeps, or waits for its request. *)
LEMMA SleepPlaces ==
    ASSUME Shapes, Places, NEW c \in Cpus, Sleep(c) \/ Down(c)
    PROVE  Places'
<1>1. PICK st \in {"sleeping", "waiting"} : task' = [task EXCEPT ![curr[c]].state = st]
  BY DEF Sleep, Down
<1>2. /\ task[curr[c]].state = "running" /\ curr[c] \in Threads
      /\ UNCHANGED <<curr, op>> /\ At(c, "run")
  BY TasksAssumption, ThreadsAreApart DEF Sleep, Down, InUser
<1>3. task \in [Threads -> Thread]
  BY DEF Shapes
<1>4. ASSUME NEW t \in Threads  PROVE SameThread(t) \/ LiveThread(t)
  <2>1. CASE t = curr[c]
    <3>1. task'[t].state = st /\ task'[t].cpu = task[t].cpu /\ task'[t].array = task[t].array
      BY <1>1, <1>3, <2>1 DEF Thread
    <3>2. \A d \in Cpus : curr[d] = t => task[t].cpu = d
      BY ThreadsAreApart DEF Places, Placed
    <3> QED  BY <1>2, <2>1, <3>1, <3>2 DEF LiveThread, Gone, Places, Placed
  <2>2. CASE t # curr[c]
    BY <1>1, <1>3, <2>2 DEF SameThread
  <2> QED  BY <2>1, <2>2
<1>5. ~At(c, "wake")' /\ ~At(c, "switch")' /\ ~InThread(c)' /\ ~ToPick(c)'
  BY <1>2 DEF At, InThread, ToPick, Balancing
<1> QED  BY <1>2, <1>4, <1>5, PlacesStep

LEMMA ExitPlaces ==
    ASSUME Shapes, Places, NEW c \in Cpus, Exit(c)
    PROVE  Places'
<1>1. PICK p \in Threads : /\ p = curr[c] /\ p \in Mortal /\ ~BeingWoken(p)
                           /\ task' = [task EXCEPT ![p].state = "zombie"]
  BY TasksAssumption, ThreadsAreApart DEF Exit, InUser
<1>2. UNCHANGED <<curr, op>> /\ At(c, "run") /\ task[p].state = "running" /\ task[p].cpu = c
  BY <1>1, ThreadsAreApart DEF Exit, InUser, Places, Placed
<1>3. task \in [Threads -> Thread]
  BY DEF Shapes
<1>4. /\ \A t \in Threads : t # p => task'[t] = task[t]
      /\ task'[p].state = "zombie" /\ task'[p].cpu = c /\ task'[p].array = task[p].array
  BY <1>1, <1>2, <1>3 DEF Thread
<1>5. \A t \in Threads : task'[t].cpu = task[t].cpu /\ task'[t].array = task[t].array
  BY <1>2, <1>4
<1>6. \A d \in Cpus : OnProcessor(d)' = OnProcessor(d)
  BY <1>2 DEF OnProcessor, At
<1>7. \A t \in Threads : task'[t].state = "released" => task[t].state = "released"
  BY <1>4
<1>8. Placed'
  <2>1. \A d \in Cpus : curr'[d] # Idle => task'[curr'[d]].cpu = d
    BY <1>2, <1>5 DEF Places, Placed, Shapes
  <2>2. \A t \in Threads : task'[t].array \in {None, task'[t].cpu}
    BY <1>5 DEF Places, Placed
  <2>3. \A t \in Threads : task'[t].state = "released" =>
            task'[t].array = None /\ \A d \in Cpus : t \notin OnProcessor(d)'
    BY <1>5, <1>6, <1>7 DEF Places, Placed
  <2> QED  BY <2>1, <2>2, <2>3 DEF Placed
<1>9. Zombies'
  <2>1. \A d \in Cpus : At(d, "wake")' => ~Gone(op[d].task)'
    <3> SUFFICES ASSUME NEW d \in Cpus, At(d, "wake")  PROVE ~Gone(op[d].task)'
      BY <1>2 DEF At
    <3>1. op[d].task \in Threads /\ op[d].task # p /\ ~Gone(op[d].task)
      BY <1>1, OpAtPlace DEF BeingWoken, WakeOps, Places, Zombies
    <3> QED  BY <1>2, <1>4, <3>1 DEF Gone
  <2>2. \A t \in Threads : Gone(t)' => t \in Mortal
    BY <1>1, <1>4 DEF Gone, Places, Zombies
  <2>3. \A t \in Threads : task'[t].state = "zombie" /\ task'[t].array # None =>
            /\ curr'[task'[t].cpu] = t
            /\ ~ToPick(task[t].cpu)' /\ ~At(task[t].cpu, "switch")'
    <3> SUFFICES ASSUME NEW t \in Threads, task'[t].state = "zombie", task'[t].array # None
                 PROVE  /\ curr[task[t].cpu] = t
                        /\ ~ToPick(task[t].cpu) /\ ~At(task[t].cpu, "switch")
      BY <1>2, <1>5 DEF ToPick, At
    <3>1. CASE t = p
      BY <1>1, <1>2, <3>1 DEF ToPick, At, Balancing
    <3>2. CASE t # p
      BY <1>4, <3>2 DEF Places, Zombies
    <3> QED  BY <3>1, <3>2
  <2>4. \A d \in Cpus : At(d, "switch")' =>
            LET prev == op'[d].prev
            IN  /\ task'[prev].state = "zombie" /\ task'[prev].cpu = d
                /\ task'[prev].array = None
    <3> SUFFICES ASSUME NEW d \in Cpus, At(d, "switch")
                 PROVE  LET prev == op[d].prev
                        IN  /\ task'[prev].state = "zombie" /\ task'[prev].cpu = d
                            /\ task'[prev].array = None
      BY <1>2 DEF At
    <3>1. op[d].prev \in Threads
      BY OpAtPlace DEF SwitchOps
    <3> QED  BY <1>2, <1>4, <3>1 DEF Places, Zombies
  <2> QED  BY <1>2, <2>1, <2>2, <2>3, <2>4 DEF Zombies
<1>10. OwnThread'
  BY <1>2 DEF Places, OwnThread, InThread, At
<1> QED  BY <1>8, <1>9, <1>10 DEF Places

(* wait_task_inactive() has seen the task off its processor: the lock is   *)
(* released after the stack is left.                                       *)
LEMMA ReleasePlaces ==
    ASSUME Shapes, Locks, Places, NEW c \in Cpus, NEW p \in Mortal, ReleaseTask(c, p)
    PROVE  Places'
<1>1. p \in Threads /\ task' = [task EXCEPT ![p].state = "released"] /\ UNCHANGED <<curr, op>>
  BY TasksAssumption, ThreadsAreApart DEF ReleaseTask
<1>2. task[p].state = "zombie" /\ lock[task[p].cpu] = Free /\ curr[task[p].cpu] # p
  BY DEF ReleaseTask, Inactive
<1>3. task \in [Threads -> Thread]
  BY DEF Shapes
<1>4. /\ \A t \in Threads : t # p => task'[t] = task[t]
      /\ task'[p].state = "released" /\ task'[p].cpu = task[p].cpu
      /\ task'[p].array = task[p].array
  BY <1>1, <1>3 DEF Thread
<1>5. task[p].array = None
  BY <1>1, <1>2 DEF Places, Zombies
<1>6. ASSUME NEW d \in Cpus  PROVE p \notin OnProcessor(d)
  <2>1. curr[d] # p
    BY <1>1, <1>2, ThreadsAreApart DEF Places, Placed
  <2>2. CASE At(d, "switch") /\ op[d].prev = p
    <3>1. task[p].cpu = d
      BY <2>2 DEF Places, Zombies
    <3>2. lock[d] = d
      BY <2>2 DEF Locks, LockHeld, Holds, At
    <3> QED  BY <1>2, <3>1, <3>2, ThreadsAreApart
  <2> QED  BY <2>1, <2>2 DEF OnProcessor
<1>7. \A d \in Cpus : OnProcessor(d)' = OnProcessor(d)
  BY <1>1 DEF OnProcessor, At
<1>8. Placed'
  <2>1. \A d \in Cpus : curr'[d] # Idle => task'[curr'[d]].cpu = d
    BY <1>1, <1>4 DEF Places, Placed, Shapes
  <2>2. \A t \in Threads : task'[t].array \in {None, task'[t].cpu}
    BY <1>4 DEF Places, Placed
  <2>3. \A t \in Threads : task'[t].state = "released" =>
            task'[t].array = None /\ \A d \in Cpus : t \notin OnProcessor(d)'
    BY <1>4, <1>5, <1>6, <1>7 DEF Places, Placed
  <2> QED  BY <2>1, <2>2, <2>3 DEF Placed
<1>9. Zombies'
  <2>1. \A d \in Cpus : At(d, "wake")' => ~Gone(op[d].task)'
    <3> SUFFICES ASSUME NEW d \in Cpus, At(d, "wake")  PROVE ~Gone(op[d].task)'
      BY <1>1 DEF At
    <3>1. op[d].task \in Threads /\ ~Gone(op[d].task)
      BY OpAtPlace DEF WakeOps, Places, Zombies
    <3> QED  BY <1>1, <1>2, <1>4, <3>1 DEF Gone
  <2>2. \A t \in Threads : Gone(t)' => t \in Mortal
    BY <1>4 DEF Gone, Places, Zombies
  <2>3. \A t \in Threads : task'[t].state = "zombie" /\ task'[t].array # None =>
            /\ curr'[task'[t].cpu] = t
            /\ ~ToPick(task[t].cpu)' /\ ~At(task[t].cpu, "switch")'
    <3> SUFFICES ASSUME NEW t \in Threads, task'[t].state = "zombie", task'[t].array # None
                 PROVE  /\ curr[task[t].cpu] = t
                        /\ ~ToPick(task[t].cpu) /\ ~At(task[t].cpu, "switch")
      BY <1>1, <1>4 DEF ToPick, At
    <3> QED  BY <1>4 DEF Places, Zombies
  <2>4. \A d \in Cpus : At(d, "switch")' =>
            LET prev == op'[d].prev
            IN  /\ task'[prev].state = "zombie" /\ task'[prev].cpu = d
                /\ task'[prev].array = None
    <3> SUFFICES ASSUME NEW d \in Cpus, At(d, "switch")
                 PROVE  LET prev == op[d].prev
                        IN  /\ task'[prev].state = "zombie" /\ task'[prev].cpu = d
                            /\ task'[prev].array = None
      BY <1>1 DEF At
    <3>1. op[d].prev \in Threads /\ op[d].prev # p
      BY <1>6, OpAtPlace DEF SwitchOps, OnProcessor
    <3> QED  BY <1>4, <3>1 DEF Places, Zombies
  <2> QED  BY <1>1, <2>1, <2>2, <2>3, <2>4 DEF Zombies
<1>10. OwnThread'
  BY <1>1 DEF Places, OwnThread, InThread, At
<1> QED  BY <1>8, <1>9, <1>10 DEF Places

LEMMA SchedulePlaces ==
    ASSUME Shapes, Places, NEW c \in Cpus, Schedule(c)
    PROVE  Places'
<1>1. op = [d \in Cpus |-> op[d]] /\ task \in [Threads -> Thread]
  BY DEF Shapes
<1>2. At(c, "run") /\ UNCHANGED curr
  BY DEF Schedule
<1>3. \E next : Goes(c, next) /\ next.at \in {"try", "pick"}
  <2>1. \/ Goes(c, [at |-> "pick"])
        \/ \E b, idle, then : Goes(c, BalanceOp(b, idle, then))
    BY DEF Schedule
  <2>2. \A b, idle, then : BalanceOp(b, idle, then).at = "try"
    BY DEF BalanceOp
  <2> QED  BY <2>1, <2>2
<1>4. op'[c].at \in {"try", "pick"} /\ \A d \in Cpus : d # c => op'[d] = op[d]
  BY <1>1, <1>3 DEF Goes
<1>5. \A t \in Threads :
          /\ task'[t].state = task[t].state /\ task'[t].cpu = task[t].cpu
          /\ task'[t].array \in {None, task[t].array}
          /\ t = curr[c] /\ Stops(c) => task'[t].array = None
  <2>1. CASE Stops(c) /\ task[curr[c]].array # None
    <3>1. task' = [task EXCEPT ![curr[c]].array = None]
      BY <2>1 DEF Schedule
    <3> QED  BY <1>1, <3>1 DEF Thread
  <2>2. CASE ~(Stops(c) /\ task[curr[c]].array # None)
    <3>1. task' = task
      BY <2>2 DEF Schedule
    <3> QED  BY <2>2, <3>1
  <2> QED  BY <2>1, <2>2
<1>6. \A d \in Cpus : OnProcessor(d)' \subseteq OnProcessor(d)
  BY <1>2, <1>4 DEF OnProcessor, At
<1>7. Placed'
  <2>1. \A d \in Cpus : curr'[d] # Idle => task'[curr'[d]].cpu = d
    BY <1>2, <1>5, ZenonT(60) DEF Places, Placed, Shapes
  <2>2. \A t \in Threads : task'[t].array \in {None, task'[t].cpu}
    BY <1>5 DEF Places, Placed
  <2>3. \A t \in Threads : task'[t].state = "released" =>
            task'[t].array = None /\ \A d \in Cpus : t \notin OnProcessor(d)'
    BY <1>5, <1>6 DEF Places, Placed
  <2> QED  BY <2>1, <2>2, <2>3 DEF Placed
<1>8. Zombies'
  <2>1. \A d \in Cpus : At(d, "wake")' => ~Gone(op[d].task)'
    <3> SUFFICES ASSUME NEW d \in Cpus, At(d, "wake")'  PROVE ~Gone(op[d].task)'
      OBVIOUS
    <3>1. op'[d] = op[d] /\ At(d, "wake")
      BY <1>4 DEF At
    <3>2. op[d].task \in Threads /\ ~Gone(op[d].task)
      BY <3>1, OpAtPlace DEF WakeOps, Places, Zombies
    <3> QED  BY <1>5, <3>1, <3>2 DEF Gone
  <2>2. \A t \in Threads : Gone(t)' => t \in Mortal
    BY <1>5 DEF Gone, Places, Zombies
  <2>3. \A t \in Threads : task'[t].state = "zombie" /\ task'[t].array # None =>
            /\ curr'[task'[t].cpu] = t
            /\ ~ToPick(task[t].cpu)' /\ ~At(task[t].cpu, "switch")'
    <3> SUFFICES ASSUME NEW t \in Threads, task'[t].state = "zombie", task'[t].array # None
                 PROVE  /\ curr[task'[t].cpu] = t
                        /\ ~ToPick(task[t].cpu)' /\ ~At(task[t].cpu, "switch")'
      BY <1>2
    <3>1. task[t].state = "zombie" /\ task[t].array # None
      BY <1>5
    <3>2. PICK d \in Cpus : d = task[t].cpu /\ d = task'[t].cpu
      BY <1>1, <1>5 DEF Thread
    <3>3. curr[d] = t /\ ~ToPick(d) /\ ~At(d, "switch")
      BY <3>1, <3>2 DEF Places, Zombies
    <3>4. d # c
      BY <1>5, <3>1, <3>3, ThreadsAreApart DEF Stops
    <3>5. op'[d] = op[d]
      BY <1>4, <3>4
    <3>6. ~ToPick(d)' /\ ~At(d, "switch")'
      BY <3>3, <3>5 DEF ToPick, At
    <3> QED  BY <3>2, <3>3, <3>6 DEF ToPick, At
  <2>4. \A d \in Cpus : At(d, "switch")' =>
            LET prev == op'[d].prev
            IN  /\ task'[prev].state = "zombie" /\ task'[prev].cpu = d
                /\ task'[prev].array = None
    <3> SUFFICES ASSUME NEW d \in Cpus, At(d, "switch")'
                 PROVE  LET prev == op'[d].prev
                        IN  /\ task'[prev].state = "zombie" /\ task'[prev].cpu = d
                            /\ task'[prev].array = None
      OBVIOUS
    <3>1. op'[d] = op[d] /\ At(d, "switch")
      BY <1>4 DEF At
    <3>2. op[d].prev \in Threads
      BY <3>1, OpAtPlace DEF SwitchOps
    <3> QED  BY <1>5, <3>1, <3>2 DEF Places, Zombies
  <2> QED  BY <2>1, <2>2, <2>3, <2>4 DEF Zombies
<1>9. OwnThread'
  BY <1>2, <1>4 DEF Places, OwnThread, InThread, At
<1> QED  BY <1>7, <1>8, <1>9 DEF Places

LEMMA PickPlaces ==
    ASSUME Shapes, Places, NEW c \in Cpus, Pick(c)
    PROVE  Places'
<1>1. op = [d \in Cpus |-> op[d]] /\ curr \in [Cpus -> Threads \cup {Idle}]
  BY DEF Shapes
<1>2. PICK next \in Queued(c) \cup {Idle} :
          /\ curr' = [curr EXCEPT ![c] = next]
          /\ IF Exits(c) THEN Goes(c, [at |-> "switch", prev |-> curr[c]])
             ELSE Goes(c, Running)
  BY DEF Pick
<1>3. At(c, "pick") /\ UNCHANGED task
  BY DEF Pick
<1>4. /\ \A d \in Cpus : d # c => op'[d] = op[d] /\ curr'[d] = curr[d]
      /\ curr'[c] = next
      /\ op'[c].at \in {"switch", "run"}
      /\ At(c, "switch")' => Exits(c) /\ op'[c].prev = curr[c]
  BY <1>1, <1>2 DEF Goes, Running, At
<1>5. ToPick(c)
  BY <1>3 DEF ToPick
<1>6. Exits(c) => /\ curr[c] \in Threads /\ task[curr[c]].state = "zombie"
                  /\ task[curr[c]].cpu = c /\ task[curr[c]].array = None
  BY <1>1, <1>5 DEF Exits, Places, Placed, Zombies
<1>7. Placed'
  <2>1. \A d \in Cpus : curr'[d] # Idle => task'[curr'[d]].cpu = d
    BY <1>2, <1>3, <1>4, ThreadsAreApart DEF Places, Placed, Queued
  <2>2. \A t \in Threads : task'[t].array \in {None, task'[t].cpu}
    BY <1>3 DEF Places, Placed
  <2>3. ASSUME NEW t \in Threads, task'[t].state = "released"
        PROVE  task'[t].array = None /\ \A d \in Cpus : t \notin OnProcessor(d)'
    <3>1. task[t].state = "released" /\ task[t].array = None
          /\ \A d \in Cpus : t \notin OnProcessor(d)
      BY <1>3, <2>3 DEF Places, Placed
    <3>2. \A d \in Cpus : d # c => t \notin OnProcessor(d)'
      BY <1>4, <3>1 DEF OnProcessor, At
    <3>3. t # next
      BY <1>2, <3>1, ThreadsAreApart DEF Queued
    <3>4. t \notin OnProcessor(c)'
      BY <1>4, <1>6, <3>1, <3>3 DEF OnProcessor, At
    <3> QED  BY <1>3, <3>1, <3>2, <3>4
  <2> QED  BY <2>1, <2>2, <2>3 DEF Placed
<1>8. Zombies'
  <2>1. \A d \in Cpus : At(d, "wake")' => ~Gone(op[d].task)'
    BY <1>3, <1>4 DEF At, Gone, Places, Zombies
  <2>2. \A t \in Threads : Gone(t)' => t \in Mortal
    BY <1>3 DEF Gone, Places, Zombies
  <2>3. ASSUME NEW t \in Threads, task'[t].state = "zombie", task'[t].array # None
        PROVE  /\ curr'[task'[t].cpu] = t
               /\ ~ToPick(task[t].cpu)' /\ ~At(task[t].cpu, "switch")'
    <3>1. PICK d \in Cpus : d = task[t].cpu /\ d = task'[t].cpu
      BY <1>3 DEF Shapes, Thread
    <3>2. curr[d] = t /\ ~ToPick(d) /\ ~At(d, "switch")
      BY <1>3, <2>3, <3>1 DEF Places, Zombies
    <3>3. d # c /\ op'[d] = op[d] /\ curr'[d] = t
      BY <1>4, <1>5, <3>2
    <3>4. ~ToPick(d)' /\ ~At(d, "switch")'
      BY <3>2, <3>3 DEF ToPick, At
    <3> QED  BY <3>1, <3>3, <3>4 DEF ToPick, At
  <2>4. \A d \in Cpus : At(d, "switch")' =>
            LET prev == op'[d].prev
            IN  /\ task'[prev].state = "zombie" /\ task'[prev].cpu = d
                /\ task'[prev].array = None
    BY <1>3, <1>4, <1>6 DEF Places, Zombies, At
  <2> QED  BY <2>1, <2>2, <2>3, <2>4 DEF Zombies
<1>9. OwnThread'
  BY <1>4 DEF Places, OwnThread, InThread, At
<1> QED  BY <1>7, <1>8, <1>9 DEF Places

LEMMA SetCpusAllowedPlaces ==
    ASSUME Shapes, Locks, Places, NEW c \in Cpus, NEW p \in Targets,
           NEW mask \in (SUBSET Cpus) \ {{}}, SetCpusAllowed(c, p, mask)
    PROVE  Places'
<1>1. /\ op = [d \in Cpus |-> op[d]] /\ task \in [Threads -> Thread]
      /\ p \in Threads /\ p \in Tasks
  BY TasksAssumption, ThreadsAreApart DEF Shapes
<1>2. PICK rq \in Cpus : rq = task[p].cpu
  BY <1>1 DEF Thread
<1>3. /\ UNCHANGED curr /\ At(c, "run") /\ lock[rq] = Free
      /\ \A t \in Threads : t # p => task'[t] = task[t]
  BY <1>1, <1>2 DEF SetCpusAllowed, InUser
<1>4. SameThread(p) \/ LooseThread(p)
  <2>1. CASE task' = [task EXCEPT ![p].cpus_allowed = mask]
    BY <1>1, <2>1 DEF SameThread, Thread
  <2>2. CASE /\ task' = [task EXCEPT ![p].cpus_allowed = mask, ![p].cpu = ffs(mask)]
             /\ task[p].array = None /\ curr[rq] # p
    <3>1. task'[p].state = task[p].state /\ task'[p].array = None
      BY <1>1, <2>2 DEF Thread
    <3>2. ASSUME NEW d \in Cpus  PROVE p \notin OnProcessor(d)
      <4>1. curr[d] # p
        BY <1>1, <1>2, <2>2, ThreadsAreApart DEF Places, Placed
      <4>2. CASE At(d, "switch") /\ op[d].prev = p
        <5>1. task[p].cpu = d
          BY <4>2 DEF Places, Zombies
        <5>2. lock[d] = d
          BY <4>2 DEF Locks, LockHeld, Holds, At
        <5> QED  BY <1>2, <1>3, <5>1, <5>2, ThreadsAreApart
      <4> QED  BY <4>1, <4>2 DEF OnProcessor
    <3> QED  BY <2>2, <3>1, <3>2 DEF LooseThread
  <2> QED  BY <1>2, <2>1, <2>2 DEF SetCpusAllowed
<1>5. \A t \in Threads : SameThread(t) \/ LooseThread(t)
  BY <1>3, <1>4 DEF SameThread
<1>6. UNCHANGED op \/ op' = [op EXCEPT ![c] = WakeOp(Migration(rq), Running)]
  BY <1>2 DEF SetCpusAllowed, Goes
<1>7. CASE UNCHANGED op
  BY <1>3, <1>5, <1>7, PlacesStep DEF At, ToPick, InThread, Balancing
<1>8. CASE op' = [op EXCEPT ![c] = WakeOp(Migration(rq), Running)]
  <2>1. op'[c] = WakeOp(Migration(rq), Running) /\ \A d \in Cpus : d # c => op'[d] = op[d]
    BY <1>1, <1>8
  <2>2. /\ op'[c].at = "wake" /\ op'[c].task = Migration(rq) /\ op'[c].then = Running
        /\ Running # LoopOp
    BY <2>1 DEF WakeOp, Running, LoopOp
  <2>3. ~Gone(op[c].task)'
    <3>1. Migration(rq) \in Threads /\ Migration(rq) \notin Mortal
      BY TasksAssumption, ThreadsAreApart
    <3>2. ~Gone(Migration(rq)) /\ Migration(rq) # p
      BY <1>1, <3>1, ThreadsAreApart DEF Places, Zombies
    <3> QED  BY <1>3, <2>2, <3>1, <3>2 DEF Gone
  <2>4. ~ToPick(c)' /\ ~At(c, "switch")' /\ ~InThread(c)'
    BY <2>2 DEF ToPick, At, InThread, Balancing
  <2> QED  BY <1>3, <1>5, <2>1, <2>3, <2>4, PlacesStep
<1> QED  BY <1>6, <1>7, <1>8

LEMMA ThreadPlaces ==
    ASSUME Shapes, Places, NEW c \in Cpus,
           NextRequest(c) \/ ChooseDest(c) \/ LockFirst(c) \/ LockSecond(c)
    PROVE  Places'
<1>1. /\ op = [d \in Cpus |-> op[d]] /\ task \in [Threads -> Thread]
      /\ Migration(c) \in Threads
  BY ThreadsAreApart DEF Shapes
<1>2. curr[c] = Migration(c) /\ UNCHANGED curr
  BY DEF NextRequest, ChooseDest, LockFirst, LockSecond, Places, OwnThread, InThread, At, queues
<1>3. ~Gone(Migration(c)) /\ task[Migration(c)].cpu = c
  BY <1>1, <1>2, TasksAssumption, ThreadsAreApart DEF Places, Placed, Zombies
<1>4. \/ UNCHANGED task
      \/ task' = [task EXCEPT ![Migration(c)].state = "sleeping"]
  BY DEF NextRequest, ChooseDest, LockFirst, LockSecond, queues
<1>5. ASSUME NEW t \in Threads  PROVE SameThread(t) \/ LiveThread(t)
  <2>1. CASE UNCHANGED task \/ t # Migration(c)
    BY <1>1, <1>4, <2>1 DEF SameThread
  <2>2. CASE task' = [task EXCEPT ![Migration(c)].state = "sleeping"] /\ t = Migration(c)
    <3>1. task'[t].state = "sleeping" /\ task'[t].cpu = c /\ task'[t].array = task[t].array
      BY <1>1, <1>3, <2>2 DEF Thread
    <3>2. \A d \in Cpus : curr[d] = t => c = d
      BY <1>1, <1>3, <2>2, ThreadsAreApart DEF Places, Placed
    <3> QED  BY <1>3, <2>2, <3>1, <3>2 DEF LiveThread, Gone, Places, Placed
  <2> QED  BY <1>4, <2>1, <2>2
<1>6. \E next : Goes(c, next) /\ next.at \in {"run", "dest", "first", "second", "move"}
  <2>1. CASE NextRequest(c)
    BY <2>1 DEF NextRequest, Running
  <2>2. CASE ChooseDest(c)
    BY <2>2 DEF ChooseDest
  <2>3. CASE LockFirst(c)
    BY <2>3 DEF LockFirst
  <2>4. CASE LockSecond(c)
    <3>1. op[c] \in MoveOps
      BY <2>4, OpAtPlace DEF LockSecond, At
    <3> QED  BY <2>4, <3>1 DEF LockSecond, MoveOps
  <2> QED  BY <2>1, <2>2, <2>3, <2>4
<1>7. /\ op'[c].at \in {"run", "dest", "first", "second", "move"}
      /\ \A d \in Cpus : d # c => op'[d] = op[d]
  BY <1>1, <1>6 DEF Goes
<1>8. ~At(c, "wake")' /\ ~At(c, "switch")' /\ ~ToPick(c)'
  BY <1>7 DEF At, ToPick, Balancing
<1> QED  BY <1>2, <1>5, <1>7, <1>8, PlacesStep

LEMMA MovePlaces ==
    ASSUME Shapes, Places, NEW c \in Cpus, Move(c)
    PROVE  Places'
<1>1. op = [d \in Cpus |-> op[d]] /\ task \in [Threads -> Thread] /\ op[c] \in MoveOps
  BY OpAtPlace DEF Shapes, Move, At
<1>2. PICK p \in Tasks, caller \in Tasks, src \in Cpus, dest \in Cpus :
          /\ p = op[c].req.task /\ caller = op[c].req.caller
          /\ src = op[c].src /\ dest = op[c].dest
  BY <1>1 DEF MoveOps, Request
<1>3. p \in Threads /\ caller \in Threads
  BY <1>2, ThreadsAreApart
<1>4. curr[c] = Migration(c) /\ UNCHANGED curr
  BY DEF Move, Places, OwnThread, InThread, At
<1>5. ASSUME src = c, task[p].cpu = src  PROVE \A d \in Cpus : curr[d] # p
  BY <1>2, <1>3, <1>4, <1>5, ThreadsAreApart, SMTT(60) DEF Places, Placed
<1>6. /\ \A t \in Threads : t # p => task'[t] = task[t]
      /\ task'[p].state = task[p].state
      /\ SameThread(p) \/ LiveThread(p) \/ LooseThread(p)
  <2>1. CASE Moved(c, p, src, dest) /\ src = c /\ task[p].array # None
    <3>1. task' = [task EXCEPT ![p].cpu = dest, ![p].array = dest] /\ task[p].cpu = src
      BY <2>1 DEF Moved
    <3>2. ~Gone(p)
      BY <1>3, <1>5, <2>1, <3>1 DEF Places, Placed, Zombies, Gone
    <3>3. task'[p].state = task[p].state /\ task'[p].cpu = dest /\ task'[p].array = dest
      BY <1>1, <1>3, <3>1 DEF Thread
    <3>4. LiveThread(p)
      BY <1>5, <2>1, <3>1, <3>2, <3>3 DEF LiveThread, Gone
    <3> QED  BY <1>1, <3>1, <3>3, <3>4
  <2>2. CASE Moved(c, p, src, dest) /\ src = c /\ task[p].array = None
    <3>1. task' = [task EXCEPT ![p].cpu = dest] /\ task[p].cpu = src
      BY <2>2 DEF Moved
    <3>2. task'[p].state = task[p].state /\ task'[p].array = None
      BY <1>1, <1>3, <2>2, <3>1 DEF Thread
    <3>3. ASSUME NEW d \in Cpus  PROVE p \notin OnProcessor(d)
      <4>1. At(d, "switch") /\ op[d].prev = p => task[p].cpu = d
        BY DEF Places, Zombies
      <4>2. ~At(c, "switch")
        BY DEF Move, At
      <4> QED  BY <1>5, <2>2, <3>1, <4>1, <4>2 DEF OnProcessor
    <3> QED  BY <1>1, <2>2, <3>1, <3>2, <3>3 DEF LooseThread
  <2>3. CASE UNCHANGED task
    BY <2>3 DEF SameThread
  <2> QED  BY <1>2, <2>1, <2>2, <2>3 DEF Move, Moved
<1>7. \A t \in Threads : SameThread(t) \/ LiveThread(t) \/ LooseThread(t)
  BY <1>6 DEF SameThread
<1>8. \/ op' = [op EXCEPT ![c] = LoopOp]
      \/ op' = [op EXCEPT ![c] = WakeOp(caller, LoopOp)] /\ task[caller].state = "waiting"
      \/ op' = [op EXCEPT ![c] = [at |-> "first", req |-> op[c].req, dest |-> op[c].dest]]
  BY <1>2 DEF Move, Goes, LoopOp
<1>9. \A d \in Cpus : d # c => op'[d] = op[d]
  BY <1>1, <1>8
<1>10. /\ op'[c].at \in {"loop", "wake", "first"}
       /\ At(c, "wake")' => op'[c].task = caller /\ task[caller].state = "waiting"
  BY <1>1, <1>8 DEF LoopOp, WakeOp, At
<1>11. At(c, "wake")' => ~Gone(op[c].task)'
  BY <1>3, <1>6, <1>10 DEF Gone
<1>12. ~ToPick(c)' /\ ~At(c, "switch")'
  BY <1>10 DEF ToPick, At, Balancing
<1> QED  BY <1>4, <1>7, <1>9, <1>11, <1>12, PlacesStep

LEMMA PlacesNext ==
    ASSUME Shapes, Locks, Places, Next
    PROVE  Places'
<1>1. PICK c \in Cpus :
        \/ StartWake(c) \/ Wake(c)
        \/ TryLock(c) \/ LockBusiest(c) \/ LockThis(c) \/ BalanceTick(c) \/ ContextSwitch(c)
        \/ Pull(c) \/ Sleep(c) \/ Down(c) \/ Exit(c)
        \/ \E p \in Mortal : ReleaseTask(c, p)
        \/ Schedule(c) \/ Pick(c)
        \/ \E p \in Targets, mask \in (SUBSET Cpus) \ {{}} : SetCpusAllowed(c, p, mask)
        \/ NextRequest(c) \/ ChooseDest(c) \/ LockFirst(c) \/ LockSecond(c)
        \/ Move(c)
  BY DEF Next
<1>2. CASE StartWake(c)
  BY <1>2, WakePlaces, ThreadsAreApart DEF StartWake, Gone, Running, LoopOp
<1>3. CASE Wake(c)
  <2>1. op[c] \in WakeOps /\ ~Gone(op[c].task)
    BY <1>3, OpAtPlace DEF Wake, Places, Zombies
  <2>2. op[c].then = LoopOp => curr[c] = Migration(c)
    BY <1>3 DEF Wake, InThread, Places, OwnThread
  <2> QED  BY <1>3, <2>1, <2>2, WakePlaces DEF Wake, WakeOps
<1> QED
  BY <1>1, <1>2, <1>3, LoadPlaces, PullPlaces, SleepPlaces, ExitPlaces, ReleasePlaces,
     SchedulePlaces, PickPlaces, SetCpusAllowedPlaces, ThreadPlaces, MovePlaces

------------------------------------------------------------------------------
(* Affinity *)

AllowedDest(c) == \/ op[c].dest \in task[op[c].req.task].cpus_allowed
                  \/ op[c].req.task \in overtaken

HasDest(c) == op[c].at \in {"first", "second", "move"}

LEMMA AffinityStep ==
    ASSUME Shapes, Affinity, NEW c \in Cpus, UNCHANGED overtaken,
           \A d \in Cpus : d # c => op'[d] = op[d] /\ migration_queue'[d] = migration_queue[d],
           Requests(c) \subseteq Requests(c)',
           HasDest(c)' => AllowedDest(c)',
           \A t \in Threads : /\ task'[t].cpus_allowed = task[t].cpus_allowed
                              /\ \/ task'[t].cpu = task[t].cpu
                                 \/ task'[t].cpu \in task[t].cpus_allowed
    PROVE  Affinity'
<1>1. \A d \in Cpus : Requests(d) \subseteq Requests(d)'
  BY DEF Requests, InHand
<1>2. ASSUME NEW d \in Cpus, HasDest(d)'  PROVE AllowedDest(d)'
  <2>1. CASE d # c
    <3>1. op'[d] = op[d] /\ op[d].at \in {"first", "second", "move"}
      BY <1>2, <2>1 DEF HasDest
    <3>2. op[d].req.task \in Threads
      BY <3>1, OpAtPlace, ThreadsAreApart DEF At, FirstOps, MoveOps, Request
    <3> QED  BY <3>1, <3>2 DEF AllowedDest, Affinity
  <2> QED  BY <1>2, <2>1
<1>3. ASSUME NEW t \in Tasks \ overtaken, task'[t].cpu \notin task'[t].cpus_allowed
      PROVE  \E r \in Requests(task[t].cpu)' : r.task = t
  <2>1. t \in Threads
    BY ThreadsAreApart
  <2>2. PICK d \in Cpus : d = task[t].cpu
    BY <2>1 DEF Shapes, Thread
  <2>3. d = task'[t].cpu /\ \E r \in Requests(d) : r.task = t
    BY <1>3, <2>1, <2>2 DEF Affinity
  <2>4. \E r \in Requests(d)' : r.task = t
    BY <1>1, <2>3
  <2> QED  BY <2>2, <2>3, <2>4 DEF Requests, InHand
<1> QED  BY <1>2, <1>3 DEF Affinity, HasDest, AllowedDest

(* Steps that neither take nor answer a request. *)
LEMMA AffinityFrame ==
    ASSUME Shapes, Affinity, NEW c \in Cpus, UNCHANGED <<overtaken, migration_queue>>,
           NEW next, Goes(c, next), InHand(c) = {}, 
           next.at \notin {"dest", "first", "second", "move"},
           \A t \in Threads : /\ task'[t].cpus_allowed = task[t].cpus_allowed
                              /\ \/ task'[t].cpu = task[t].cpu
                                 \/ task'[t].cpu \in task[t].cpus_allowed
    PROVE  Affinity'
<1>1. op'[c] = next /\ \A d \in Cpus : d # c => op'[d] = op[d]
  BY DEF Goes, Shapes
<1>2. Requests(c) \subseteq Requests(c)'
  BY DEF Requests
<1>3. ~HasDest(c)'
  BY <1>1 DEF HasDest
<1> QED  BY <1>1, <1>2, <1>3, AffinityStep

LEMMA WakeAffinity ==
    ASSUME Shapes, Affinity, NEW c \in Cpus, NEW p \in Threads, NEW sync,
           NEW then \in {Running, LoopOp}, TryToWakeUp(c, p, sync, then), InHand(c) = {}
    PROVE  Affinity'
<1>1. task \in [Threads -> Thread]
  BY DEF Shapes
<1>2. \A t \in Threads : /\ task'[t].cpus_allowed = task[t].cpus_allowed
                         /\ \/ task'[t].cpu = task[t].cpu
                            \/ task'[t].cpu \in task[t].cpus_allowed
  <2>1. CASE task' = [task EXCEPT ![p].cpu = c] /\ FastMigrates(c, p)
    BY <1>1, <2>1 DEF FastMigrates, Thread
  <2>2. CASE task' = [task EXCEPT ![p].array = task[p].cpu, ![p].state = "running"]
    BY <1>1, <2>2 DEF Thread
  <2>3. CASE task' = [task EXCEPT ![p].state = "running"]
    BY <1>1, <2>3 DEF Thread
  <2> QED  BY <2>1, <2>2, <2>3 DEF TryToWakeUp
<1>3. \E next : Goes(c, next) /\ next.at \in {"run", "loop", "wake"}
  BY DEF TryToWakeUp, Running, LoopOp
<1> QED  BY <1>2, <1>3, AffinityFrame DEF TryToWakeUp, history

LEMMA SetCpusAllowedAffinity ==
    ASSUME Shapes, Affinity, NEW c \in Cpus, NEW p \in Targets,
           NEW mask \in (SUBSET Cpus) \ {{}}, SetCpusAllowed(c, p, mask)
    PROVE  Affinity'
<1>1. /\ op = [d \in Cpus |-> op[d]] /\ task \in [Threads -> Thread]
      /\ p \in Threads /\ p \in Tasks /\ migration_queue \in [Cpus -> Seq(Request)]
  BY TasksAssumption, ThreadsAreApart DEF Shapes
<1>2. PICK rq \in Cpus : rq = task[p].cpu
  BY <1>1 DEF Thread
<1>3. /\ At(c, "run") /\ overtaken' = IF Chosen(p) THEN overtaken \cup {p} ELSE overtaken \ {p}
      /\ \A t \in Threads : t # p => task'[t] = task[t]
  BY <1>1 DEF SetCpusAllowed, InUser
<1>4. PICK caller : \/ UNCHANGED <<migration_queue, op>>
                    \/ /\ migration_queue' = [migration_queue EXCEPT ![rq] =
                                                 <<[task |-> p, caller |-> caller]>> \o @]
                       /\ op' = [op EXCEPT ![c] = WakeOp(Migration(rq), Running)]
  BY <1>2 DEF SetCpusAllowed, Goes
<1>5. \A d \in Cpus : /\ op'[d] = op[d] \/ (InHand(d) = {} /\ InHand(d)' = {})
                      /\ HasDest(d)' => op'[d] = op[d]
  <2>1. CASE UNCHANGED op
    BY <2>1
  <2>2. CASE op' = [op EXCEPT ![c] = WakeOp(Migration(rq), Running)]
    <3>1. /\ \A d \in Cpus : d # c => op'[d] = op[d]
          /\ op[c].at = "run" /\ op'[c].at = "wake"
      BY <1>1, <1>3, <2>2 DEF At, WakeOp
    <3>2. InHand(c) = {} /\ InHand(c)' = {} /\ ~HasDest(c)'
      BY <3>1 DEF InHand, HasDest
    <3> QED  BY <3>1, <3>2
  <2> QED  BY <1>4, <2>1, <2>2
<1>6. ASSUME NEW d \in Cpus  PROVE Requests(d) \subseteq Requests(d)'
  <2>1. InHand(d)' = InHand(d)
    BY <1>5 DEF InHand
  <2>2. CASE migration_queue'[d] = migration_queue[d]
    BY <2>1, <2>2 DEF Requests
  <2>3. CASE migration_queue'[d] = <<[task |-> p, caller |-> caller]>> \o migration_queue[d]
    <3> DEFINE q == migration_queue[d]
               r == [task |-> p, caller |-> caller]
    <3>1. \A i \in DOMAIN q : i + 1 \in DOMAIN migration_queue'[d]
                              /\ migration_queue'[d][i + 1] = q[i]
      BY <1>1, <2>3
    <3> QED  BY <2>1, <3>1 DEF Requests
  <2> QED  BY <1>1, <1>4, <2>2, <2>3
<1>7. ASSUME NEW d \in Cpus, HasDest(d)'  PROVE AllowedDest(d)'
  <2>1. op'[d] = op[d] /\ HasDest(d)
    BY <1>5, <1>7 DEF HasDest
  <2>2. op[d].req.task \in Threads
    BY <2>1, OpAtPlace, ThreadsAreApart DEF At, FirstOps, MoveOps, Request, HasDest
  <2>3. CASE op[d].req.task = p
    BY <1>3, <2>1, <2>3 DEF Chosen, HasDest, AllowedDest
  <2>4. CASE op[d].req.task # p
    BY <1>3, <2>1, <2>2, <2>4 DEF Affinity, HasDest, AllowedDest
  <2> QED  BY <2>3, <2>4
<1>8. ASSUME NEW t \in Tasks \ overtaken', task'[t].cpu \notin task'[t].cpus_allowed
      PROVE  \E r \in Requests(task[t].cpu)' : r.task = t
  <2>1. CASE t # p
    <3>1. t \in Threads /\ t \notin overtaken /\ task'[t] = task[t]
      BY <1>3, <1>8, <2>1, ThreadsAreApart
    <3>2. PICK d \in Cpus : d = task[t].cpu /\ d = task'[t].cpu
      BY <1>1, <3>1 DEF Thread
    <3>3. \E r \in Requests(d) : r.task = t
      BY <1>8, <3>1, <3>2 DEF Affinity
    <3>4. \E r \in Requests(d)' : r.task = t
      BY <1>6, <3>3
    <3> QED  BY <3>2, <3>4 DEF Requests, InHand
  <2>2. CASE t = p
    <3>1. CASE task' = [task EXCEPT ![p].cpus_allowed = mask] /\ rq \in mask
      BY <1>1, <1>2, <1>8, <2>2, <3>1 DEF Thread
    <3>2. CASE task' = [task EXCEPT ![p].cpus_allowed = mask, ![p].cpu = ffs(mask)]
      <4>1. ffs(mask) \in mask
        BY FirstOfMask
      <4>2. task'[p].cpu = ffs(mask) /\ task'[p].cpus_allowed = mask
        BY <1>1, <3>2 DEF Thread
      <4> QED  BY <1>8, <2>2, <4>1, <4>2
    <3>3. CASE /\ task' = [task EXCEPT ![p].cpus_allowed = mask]
               /\ migration_queue' = [migration_queue EXCEPT ![rq] =
                                          <<[task |-> p, caller |-> curr[c]]>> \o @]
      <4> DEFINE r == [task |-> p, caller |-> curr[c]]
      <4>1. task'[p].cpu = rq
        BY <1>1, <1>2, <3>3 DEF Thread
      <4>2. migration_queue'[rq] = <<r>> \o migration_queue[rq]
        BY <1>1, <3>3
      <4>3. 1 \in DOMAIN migration_queue'[rq] /\ migration_queue'[rq][1] = r
        BY <1>1, <4>2
      <4>4. r \in Requests(rq)'
        BY <4>3 DEF Requests
      <4> QED  BY <2>2, <4>1, <4>4 DEF Requests, InHand
    <3> QED  BY <1>2, <3>1, <3>2, <3>3 DEF SetCpusAllowed
  <2> QED  BY <2>1, <2>2
<1> QED  BY <1>7, <1>8 DEF Affinity, HasDest, AllowedDest

LEMMA NextRequestAffinity ==
    ASSUME Shapes, Affinity, NEW c \in Cpus, NextRequest(c)
    PROVE  Affinity'
<1>1. /\ op = [d \in Cpus |-> op[d]] /\ task \in [Threads -> Thread]
      /\ migration_queue \in [Cpus -> Seq(Request)]
  BY DEF Shapes
<1>2. task' = [task EXCEPT ![Migration(c)].state = "sleeping"] /\ UNCHANGED overtaken
  BY DEF NextRequest, history
<1>3. \A t \in Threads : /\ task'[t].cpus_allowed = task[t].cpus_allowed
                         /\ task'[t].cpu = task[t].cpu
  BY <1>1, <1>2, ThreadsAreApart, SMTT(60) DEF Thread
<1>4. InHand(c) = {}
  BY DEF NextRequest, InHand, At
<1>5. CASE migration_queue[c] = << >>
  <2>1. UNCHANGED migration_queue /\ Goes(c, Running)
    BY <1>5 DEF NextRequest
  <2> QED  BY <1>2, <1>3, <1>4, <2>1, AffinityFrame DEF Running
<1>6. CASE migration_queue[c] # << >>
  <2> DEFINE q == migration_queue[c]
  <2>1. /\ op' = [op EXCEPT ![c] = [at |-> "dest", req |-> Head(q)]]
        /\ migration_queue' = [migration_queue EXCEPT ![c] = Tail(q)]
    BY <1>6 DEF NextRequest, Goes
  <2>2. /\ op'[c].at = "dest" /\ op'[c].req = Head(q) /\ migration_queue'[c] = Tail(q)
        /\ \A d \in Cpus : d # c => op'[d] = op[d] /\ migration_queue'[d] = migration_queue[d]
    BY <1>1, <2>1
  <2>3. InHand(c)' = {Head(q)} /\ ~HasDest(c)'
    BY <2>2 DEF InHand, HasDest
  <2>4. ASSUME NEW r \in Requests(c)  PROVE r \in Requests(c)'
    <3>1. PICK i \in DOMAIN q : r = q[i]
      BY <1>4 DEF Requests
    <3>2. q \in Seq(Request) /\ q # << >>
      BY <1>1, <1>6
    <3>3. CASE i = 1
      BY <2>3, <3>1, <3>2, <3>3 DEF Requests
    <3>4. CASE i # 1
      <4>1. i - 1 \in DOMAIN Tail(q) /\ Tail(q)[i - 1] = r
        BY <3>1, <3>2, <3>4
      <4> QED  BY <2>2, <4>1 DEF Requests
    <3> QED  BY <3>3, <3>4
  <2> QED  BY <1>2, <1>3, <2>2, <2>3, <2>4, AffinityStep
<1> QED  BY <1>5, <1>6

LEMMA ThreadAffinity ==
    ASSUME Shapes, Affinity, NEW c \in Cpus, ChooseDest(c) \/ LockFirst(c) \/ LockSecond(c)
    PROVE  Affinity'
<1>1. op = [d \in Cpus |-> op[d]] /\ task \in [Threads -> Thread]
  BY DEF Shapes
<1>2. UNCHANGED <<task, migration_queue, overtaken>>
  BY DEF ChooseDest, LockFirst, LockSecond, queues, history
<1>3. /\ op[c].at \in {"dest", "first", "second"} /\ op[c].req \in Request
      /\ At(c, "second") => op[c] \in MoveOps
  BY OpAtPlace DEF ChooseDest, LockFirst, LockSecond, At, DestOps, FirstOps, MoveOps
<1>4. \E next : /\ Goes(c, next) /\ next.req = op[c].req
                /\ next.at \in {"first", "second", "move"}
                /\ \/ next.dest \in task[op[c].req.task].cpus_allowed
                   \/ HasDest(c) /\ next.dest = op[c].dest
  <2>1. CASE ChooseDest(c)
    <3> DEFINE dest == ffs(task[op[c].req.task].cpus_allowed)
    <3>1. task[op[c].req.task] \in Thread
      BY <1>1, <1>3, ThreadsAreApart DEF Request
    <3>2. dest \in task[op[c].req.task].cpus_allowed
      BY <3>1, FirstOfMask DEF Thread
    <3>3. Goes(c, [at |-> "first", req |-> op[c].req, dest |-> dest])
      BY <2>1 DEF ChooseDest
    <3> HIDE DEF dest
    <3> QED  BY <3>2, <3>3
  <2>2. CASE LockFirst(c)
    <3>1. HasDest(c)
      BY <2>2 DEF LockFirst, At, HasDest
    <3>2. \E src : Goes(c, [at |-> IF src = op[c].dest THEN "move" ELSE "second",
                            req |-> op[c].req, src |-> src, dest |-> op[c].dest])
      BY <2>2 DEF LockFirst
    <3> QED  BY <3>1, <3>2
  <2>3. CASE LockSecond(c)
    BY <1>3, <2>3 DEF LockSecond, At, HasDest, MoveOps
  <2> QED  BY <2>1, <2>2, <2>3
<1>5. PICK next : /\ op' = [op EXCEPT ![c] = next] /\ next.req = op[c].req
                  /\ next.at \in {"first", "second", "move"}
                  /\ \/ next.dest \in task[op[c].req.task].cpus_allowed
                     \/ HasDest(c) /\ next.dest = op[c].dest
  BY <1>4 DEF Goes
<1>6. op'[c] = next /\ \A d \in Cpus : d # c => op'[d] = op[d]
  BY <1>1, <1>5
<1>7. InHand(c) = {op[c].req} /\ InHand(c)' = {op[c].req}
  BY <1>3, <1>5, <1>6 DEF InHand
<1>8. Requests(c)' = Requests(c)
  BY <1>2, <1>7 DEF Requests
<1>9. AllowedDest(c)'
  BY <1>2, <1>5, <1>6 DEF AllowedDest, HasDest, Affinity
<1> QED  BY <1>2, <1>6, <1>8, <1>9, AffinityStep

LEMMA MoveAffinity ==
    ASSUME Shapes, Affinity, NEW c \in Cpus, Move(c)
    PROVE  Affinity'
<1>1. op = [d \in Cpus |-> op[d]] /\ task \in [Threads -> Thread] /\ op[c] \in MoveOps
  BY OpAtPlace DEF Shapes, Move, At
<1>2. PICK p \in Tasks, src \in Cpus, dest \in Cpus :
          p = op[c].req.task /\ src = op[c].src /\ dest = op[c].dest
  BY <1>1 DEF MoveOps, Request
<1>3. p \in Threads /\ UNCHANGED <<overtaken, migration_queue>>
  BY <1>2, ThreadsAreApart DEF Move
<1>4. dest \in task[p].cpus_allowed \/ p \in overtaken
  BY <1>2 DEF Affinity, Move, At
<1>5. CASE task[p].cpu # src
  <2>1. /\ op' = [op EXCEPT ![c] = [at |-> "first", req |-> op[c].req, dest |-> dest]]
        /\ UNCHANGED task
    BY <1>2, <1>5 DEF Move, Moved, Goes
  <2>2. /\ op'[c].at = "first" /\ op'[c].req = op[c].req /\ op'[c].dest = dest
        /\ \A d \in Cpus : d # c => op'[d] = op[d]
    BY <1>1, <2>1
  <2>3. InHand(c)' = InHand(c)
    BY <2>2 DEF InHand, Move, At
  <2>4. Requests(c)' = Requests(c)
    BY <1>3, <2>3 DEF Requests
  <2>5. AllowedDest(c)'
    BY <1>2, <1>3, <1>4, <2>1, <2>2 DEF AllowedDest
  <2> QED  BY <1>3, <2>1, <2>2, <2>4, <2>5, AffinityStep
<1>6. CASE task[p].cpu = src
  <2>1. Moved(c, p, src, dest)
    BY <1>2, <1>6 DEF Move
  <2>2. \E next : Goes(c, next) /\ next.at \in {"loop", "wake"}
    BY <1>2, <1>6 DEF Move, WakeOp
  <2>3. op'[c].at \in {"loop", "wake"} /\ \A d \in Cpus : d # c => op'[d] = op[d]
    BY <1>1, <2>2 DEF Goes
  <2>4. /\ \A t \in Threads : t # p => task'[t] = task[t]
        /\ task'[p].cpus_allowed = task[p].cpus_allowed
        /\ task'[p].cpu = IF src = c THEN dest ELSE src
    <3>1. CASE src = c /\ task[p].array # None
      <4>1. task' = [task EXCEPT ![p].cpu = dest, ![p].array = dest]
        BY <2>1, <3>1 DEF Moved
      <4> QED  BY <1>1, <1>3, <3>1, <4>1 DEF Thread
    <3>2. CASE src = c /\ task[p].array = None
      <4>1. task' = [task EXCEPT ![p].cpu = dest]
        BY <2>1, <3>2 DEF Moved
      <4> QED  BY <1>1, <1>3, <3>2, <4>1 DEF Thread
    <3>3. CASE src # c
      BY <1>6, <2>1, <3>3 DEF Moved
    <3> QED  BY <3>1, <3>2, <3>3
  <2>5. \A d \in Cpus : d # c => Requests(d)' = Requests(d)
    BY <1>3, <2>3 DEF Requests, InHand
  <2>6. \A r \in Requests(c) : r.task # p => r \in Requests(c)'
    BY <1>2, <1>3 DEF Requests, InHand
  <2>7. ASSUME NEW d \in Cpus, HasDest(d)'  PROVE AllowedDest(d)'
    <3>1. d # c /\ op'[d] = op[d] /\ HasDest(d)
      BY <2>3, <2>7 DEF HasDest
    <3>2. op[d].req.task \in Threads
      BY <3>1, OpAtPlace, ThreadsAreApart DEF At, FirstOps, MoveOps, Request, HasDest
    <3>3. task'[op[d].req.task].cpus_allowed = task[op[d].req.task].cpus_allowed
      BY <2>4, <3>2
    <3> QED  BY <1>3, <3>1, <3>3 DEF AllowedDest, Affinity, HasDest
  <2>8. ASSUME NEW t \in Tasks \ overtaken, task'[t].cpu \notin task'[t].cpus_allowed
        PROVE  \E r \in Requests(task[t].cpu)' : r.task = t
    <3>1. t \in Threads
      BY ThreadsAreApart
    <3>2. ~(t = p /\ src = c)
      BY <1>4, <2>4, <2>8
    <3>3. task'[t].cpu = task[t].cpu /\ task'[t].cpus_allowed = task[t].cpus_allowed
      BY <1>6, <2>4, <3>1, <3>2
    <3>4. PICK d \in Cpus : d = task[t].cpu /\ d = task'[t].cpu
      BY <1>1, <3>1, <3>3 DEF Thread
    <3>5. PICK r \in Requests(d) : r.task = t
      BY <2>8, <3>3, <3>4 DEF Affinity
    <3>6. r \in Requests(d)'
      BY <1>6, <2>5, <2>6, <3>2, <3>4, <3>5
    <3> QED  BY <3>4, <3>5, <3>6 DEF Requests, InHand
  <2> QED  BY <1>3, <2>7, <2>8 DEF Affinity, HasDest, AllowedDest
<1> QED  BY <1>5, <1>6

LEMMA AffinityNext ==
    ASSUME Shapes, Affinity, Next
    PROVE  Affinity'
<1>1. PICK c \in Cpus :
        \/ StartWake(c) \/ Wake(c)
        \/ \E p \in Targets, mask \in (SUBSET Cpus) \ {{}} : SetCpusAllowed(c, p, mask)
        \/ NextRequest(c)
        \/ ChooseDest(c) \/ LockFirst(c) \/ LockSecond(c)
        \/ Move(c)
        \/ TryLock(c) \/ LockBusiest(c) \/ LockThis(c)
        \/ Pull(c) \/ Schedule(c)
        \/ BalanceTick(c) \/ ContextSwitch(c) \/ Pick(c)
        \/ Sleep(c) \/ Down(c) \/ Exit(c) \/ \E p \in Mortal : ReleaseTask(c, p)
  BY DEF Next
<1>2. task \in [Threads -> Thread] /\ op = [d \in Cpus |-> op[d]]
  BY DEF Shapes
<1>3. CASE StartWake(c) \/ Wake(c)
  <2>1. InHand(c) = {}
    BY <1>3 DEF StartWake, Wake, InHand, At
  <2>2. At(c, "wake") => op[c].task \in Threads /\ op[c].then \in {Running, LoopOp}
    BY OpAtPlace DEF WakeOps
  <2> QED  BY <1>3, <2>1, <2>2, WakeAffinity, ThreadsAreApart DEF StartWake, Wake
<1>4. CASE TryLock(c) \/ LockBusiest(c) \/ LockThis(c)
  <2>1. op[c] \in BalanceOps(c) /\ op[c].at \in Balancing
    BY <1>4, OpAtPlace DEF TryLock, LockBusiest, LockThis, At, Balancing
  <2>2. InHand(c) = {} /\ UNCHANGED <<task, overtaken, migration_queue>>
    BY <1>4, <2>1 DEF TryLock, LockBusiest, LockThis, InHand, Balancing, queues, history
  <2>3. \E next : Goes(c, next) /\ next.at \in Balancing
    <3>1. CASE TryLock(c)
      BY <2>1, <3>1 DEF TryLock, BalanceOps, Balancing
    <3>2. CASE LockBusiest(c)
      BY <2>1, <3>2 DEF LockBusiest, BalanceOps, Balancing
    <3>3. CASE LockThis(c)
      <4>1. PICK nr : Goes(c, [op[c] EXCEPT !.at = "pull", !.nr = nr])
        BY <3>3 DEF LockThis
      <4>2. [op[c] EXCEPT !.at = "pull", !.nr = nr].at = "pull"
        BY <2>1 DEF BalanceOps
      <4> QED  BY <4>1, <4>2 DEF Balancing
    <3> QED  BY <1>4, <3>1, <3>2, <3>3
  <2> QED  BY <2>2, <2>3, AffinityFrame DEF Balancing
<1>5. CASE Pull(c)
  <2>1. op[c] \in BalanceOps(c)
    BY <1>5, OpAtPlace DEF Pull, At, Balancing
  <2>2. InHand(c) = {} /\ UNCHANGED <<overtaken, migration_queue>>
    BY <1>5 DEF Pull, InHand, At, history
  <2>3. Goes(c, op[c].then) /\ op[c].then.at \in {"run", "pick"}
    <3>1. Goes(c, op[c].then)
      BY <1>5 DEF Pull
    <3>2. op[c].then \in {Running, PickOp}
      BY <2>1 DEF BalanceOps
    <3> QED  BY <3>1, <3>2 DEF Running, PickOp
  <2>4. PICK moved \in SUBSET CanMigrate(c, op[c].rq) :
            task' = [t \in Threads |->
                        IF t \in moved THEN [task[t] EXCEPT !.cpu = c, !.array = c]
                        ELSE task[t]]
    BY <1>5 DEF Pull
  <2>5. \A t \in Threads : /\ task'[t].cpus_allowed = task[t].cpus_allowed
                           /\ \/ task'[t].cpu = task[t].cpu
                              \/ task'[t].cpu \in task[t].cpus_allowed
    <3>1. \A t \in moved : c \in task[t].cpus_allowed
      BY <2>4 DEF CanMigrate
    <3> QED  BY <1>2, <2>4, <3>1 DEF Thread
  <2> QED  BY <2>2, <2>3, <2>5, AffinityFrame
<1>6. CASE Schedule(c)
  <2>1. InHand(c) = {} /\ UNCHANGED <<overtaken, migration_queue>>
    BY <1>6 DEF Schedule, InHand, At, history
  <2>2. \E next : Goes(c, next) /\ next.at \in {"try", "pick"}
    <3>1. \/ Goes(c, [at |-> "pick"])
          \/ \E b, idle, then : Goes(c, BalanceOp(b, idle, then))
      BY <1>6 DEF Schedule
    <3>2. \A b, idle, then : BalanceOp(b, idle, then).at = "try"
      BY DEF BalanceOp
    <3> QED  BY <3>1, <3>2
  <2>3. \/ UNCHANGED task
        \/ task' = [task EXCEPT ![curr[c]].array = None]
    BY <1>6 DEF Schedule
  <2>4. \A t \in Threads : /\ task'[t].cpus_allowed = task[t].cpus_allowed
                           /\ task'[t].cpu = task[t].cpu
    BY <1>2, <2>3 DEF Thread
  <2> QED  BY <2>1, <2>2, <2>4, AffinityFrame
<1>7. CASE BalanceTick(c) \/ ContextSwitch(c) \/ Pick(c)
  <2>1. InHand(c) = {} /\ UNCHANGED <<task, overtaken, migration_queue>>
    BY <1>7 DEF BalanceTick, ContextSwitch, Pick, InHand, At, queues, history
  <2>2. \E next : Goes(c, next) /\ next.at \in {"try", "run", "switch"}
    <3>1. \A b, idle, then : BalanceOp(b, idle, then).at = "try"
      BY DEF BalanceOp
    <3>2. \/ Goes(c, Running)
          \/ Goes(c, [at |-> "switch", prev |-> curr[c]])
          \/ \E b, idle, then : Goes(c, BalanceOp(b, idle, then))
      BY <1>7 DEF BalanceTick, ContextSwitch, Pick
    <3> QED  BY <3>1, <3>2 DEF Running
  <2> QED  BY <2>1, <2>2, AffinityFrame
<1>8. CASE Sleep(c) \/ Down(c) \/ Exit(c) \/ \E p \in Mortal : ReleaseTask(c, p)
  <2>1. UNCHANGED <<op, overtaken, migration_queue>>
        /\ \E p, st : task' = [task EXCEPT ![p].state = st]
    BY <1>8 DEF Sleep, Down, Exit, ReleaseTask, history
  <2>2. \A t \in Threads : /\ task'[t].cpus_allowed = task[t].cpus_allowed
                           /\ task'[t].cpu = task[t].cpu
    BY <1>2, <2>1 DEF Thread
  <2>3. Requests(c)' = Requests(c)
    BY <2>1 DEF Requests, InHand
  <2>4. HasDest(c)' => AllowedDest(c)'
    <3>1. HasDest(c) => op[c].req.task \in Threads /\ AllowedDest(c)
      BY OpAtPlace, ThreadsAreApart
         DEF HasDest, AllowedDest, Affinity, At, FirstOps, MoveOps, Request
    <3> QED  BY <2>1, <2>2, <3>1 DEF HasDest, AllowedDest
  <2> QED  BY <2>1, <2>2, <2>3, <2>4, AffinityStep
<1> QED
  BY <1>1, <1>3, <1>4, <1>5, <1>6, <1>7, <1>8, SetCpusAllowedAffinity,
     NextRequestAffinity, ThreadAffinity, MoveAffinity

------------------------------------------------------------------------------
(* Noticed and Answered *)

(* How a step of c may change the place where c is. *)
LEMMA OpSteps ==
    ASSUME Shapes, NEW c \in Cpus
    PROVE  /\ TryLock(c) \/ LockBusiest(c) \/ LockThis(c) =>
                  /\ op[c].at \in Balancing /\ op'[c].at \in Balancing
                  /\ op'[c].then = op[c].then
           /\ Pull(c) => At(c, "pull") /\ op'[c] = op[c].then /\ op'[c] \in {Running, PickOp}
           /\ Schedule(c) => At(c, "run") /\ ToPick(c)'
           /\ BalanceTick(c) => At(c, "run") /\ op'[c].at = "try"
           /\ Pick(c) => At(c, "pick") /\ op'[c].at \in {"run", "switch"}
           /\ ContextSwitch(c) => At(c, "switch") /\ At(c, "run")'
           /\ ChooseDest(c) \/ LockFirst(c) \/ LockSecond(c) =>
                  /\ op[c].at \in {"dest", "first", "second"}
                  /\ op'[c].at \in {"first", "second", "move"}
           /\ Move(c) => At(c, "move") /\ InThread(c)'
<1>1. op = [d \in Cpus |-> op[d]]
  BY DEF Shapes
<1>2. TryLock(c) \/ LockBusiest(c) \/ LockThis(c) =>
          op[c] \in BalanceOps(c) /\ op[c].at \in Balancing
  BY OpAtPlace DEF TryLock, LockBusiest, LockThis, At, Balancing
<1>3. TryLock(c) => op'[c].at \in Balancing /\ op'[c].then = op[c].then
  BY <1>1, <1>2 DEF TryLock, Goes, BalanceOps, Balancing
<1>4. LockBusiest(c) => op'[c].at \in Balancing /\ op'[c].then = op[c].then
  BY <1>1, <1>2 DEF LockBusiest, Goes, BalanceOps, Balancing
<1>5. LockThis(c) => op'[c].at \in Balancing /\ op'[c].then = op[c].then
  BY <1>1, <1>2 DEF LockThis, Goes, BalanceOps, Balancing
<1>6. ASSUME Pull(c)
      PROVE  At(c, "pull") /\ op'[c] = op[c].then /\ op'[c] \in {Running, PickOp}
  <2>1. op[c] \in BalanceOps(c) /\ At(c, "pull") /\ op' = [op EXCEPT ![c] = op[c].then]
    BY <1>6, OpAtPlace DEF Pull, At, Balancing, Goes
  <2> QED  BY <1>1, <2>1 DEF BalanceOps
<1>7. ASSUME Schedule(c)  PROVE At(c, "run") /\ ToPick(c)'
  <2>1. \/ op' = [op EXCEPT ![c] = PickOp]
        \/ \E b : op' = [op EXCEPT ![c] = BalanceOp(b, TRUE, PickOp)]
    BY <1>7 DEF Schedule, Goes, PickOp
  <2>2. \/ op'[c] = PickOp
        \/ op'[c].at = "try" /\ op'[c].then = PickOp
    BY <1>1, <2>1 DEF BalanceOp
  <2> QED  BY <1>7, <2>2 DEF Schedule, ToPick, PickOp, At, Balancing
<1>8. BalanceTick(c) => At(c, "run") /\ op'[c].at = "try"
  BY <1>1 DEF BalanceTick, Goes, BalanceOp
<1>9. Pick(c) => At(c, "pick") /\ op'[c].at \in {"run", "switch"}
  BY <1>1 DEF Pick, Goes, Running
<1>10. ContextSwitch(c) => At(c, "switch") /\ At(c, "run")'
  BY <1>1 DEF ContextSwitch, Goes, Running, At
<1>11. ChooseDest(c) => At(c, "dest") /\ op'[c].at = "first"
  BY <1>1 DEF ChooseDest, Goes
<1>12. LockFirst(c) => At(c, "first") /\ op'[c].at \in {"second", "move"}
  BY <1>1 DEF LockFirst, Goes
<1>13. ASSUME LockSecond(c)  PROVE At(c, "second") /\ op'[c].at = "move"
  <2>1. op[c] \in MoveOps
    BY <1>13, OpAtPlace DEF LockSecond, At
  <2> QED  BY <1>1, <1>13, <2>1 DEF LockSecond, Goes, MoveOps
<1>14. ASSUME Move(c)  PROVE At(c, "move") /\ InThread(c)'
  <2>1. \/ op' = [op EXCEPT ![c] = LoopOp]
        \/ \E q : op' = [op EXCEPT ![c] = WakeOp(q, LoopOp)]
        \/ \E q, dest : op' = [op EXCEPT ![c] = [at |-> "first", req |-> q, dest |-> dest]]
    BY <1>14 DEF Move, Goes, LoopOp
  <2>2. \/ op'[c].at \in {"loop", "first"}
        \/ op'[c].at = "wake" /\ op'[c].then = LoopOp
    BY <1>1, <2>1 DEF WakeOp, LoopOp
  <2> QED  BY <1>14, <2>2 DEF Move, InThread, At
<1> QED
  BY <1>2, <1>3, <1>4, <1>5, <1>6, <1>7, <1>8, <1>9, <1>10, <1>11, <1>12, <1>13, <1>14 DEF At

(* Every step is one of a processor. *)
LEMMA OtherOps ==
    ASSUME Shapes, NEW c \in Cpus,
           \/ StartWake(c) \/ Wake(c)
           \/ TryLock(c) \/ LockBusiest(c) \/ LockThis(c) \/ Pull(c)
           \/ Sleep(c) \/ Schedule(c) \/ Pick(c) \/ ContextSwitch(c) \/ BalanceTick(c)
           \/ Exit(c)
           \/ \E p \in Mortal : ReleaseTask(c, p)
           \/ \E p \in Targets, mask \in (SUBSET Cpus) \ {{}} : SetCpusAllowed(c, p, mask)
           \/ Down(c)
           \/ NextRequest(c) \/ ChooseDest(c) \/ LockFirst(c) \/ LockSecond(c) \/ Move(c)
    PROVE  \A d \in Cpus : d # c => op'[d] = op[d]
<1>1. UNCHANGED op \/ \E next : Goes(c, next)
  BY DEF StartWake, Wake, TryToWakeUp, TryLock, LockBusiest, LockThis, Pull, Sleep, Schedule,
         Pick, ContextSwitch, BalanceTick, Exit, ReleaseTask, SetCpusAllowed, Down,
         NextRequest, ChooseDest, LockFirst, LockSecond, Move
<1> QED  BY <1>1, SMTT(60) DEF Goes, Shapes

LEMMA NoticedStep ==
    ASSUME Shapes, Noticed, NEW c \in Cpus, UNCHANGED curr,
           \A d \in Cpus : d # c => op'[d] = op[d],
           ToPick(c) => ToPick(c)',
           \A d \in Cpus : need_resched[d] \/ d \in unnoticed =>
                               need_resched'[d] \/ d \in unnoticed',
           \A t \in Threads, d \in Cpus :
               task'[t].array = d /\ task[t].array # d /\ curr[d] = Idle =>
                   need_resched'[d] \/ d \in unnoticed'
    PROVE  Noticed'
<1> SUFFICES ASSUME NEW d \in Cpus, curr[d] = Idle, NEW t \in Threads, task'[t].array = d
             PROVE  need_resched'[d] \/ d \in unnoticed' \/ ToPick(d)'
  BY DEF Noticed, Queued
<1>1. ToPick(d) => ToPick(d)'
  BY DEF ToPick, At
<1>2. CASE task[t].array = d
  <2>1. t \in Queued(d)
    BY <1>2 DEF Queued
  <2> QED  BY <1>1, <2>1 DEF Noticed
<1>3. CASE task[t].array # d
  BY <1>3, Zenon
<1> QED  BY <1>2, <1>3

LEMMA AnsweredStep ==
    ASSUME Shapes, Answered, NEW c \in Cpus,
           \A d \in Cpus : d # c => op'[d] = op[d],
           \A d \in Cpus : migration_queue'[d] # << >> =>
               \/ migration_queue[d] # << >>
               \/ At(c, "wake")' /\ op'[c].task = Migration(d),
           \A d \in Cpus : task[Migration(d)].state = "running" =>
               \/ task'[Migration(d)].state = "running"
               \/ d = c /\ (InThread(c)' \/ migration_queue'[c] = << >>),
           InThread(c) => InThread(c)' \/ migration_queue'[c] = << >>,
           At(c, "wake") => \/ At(c, "wake")' /\ op'[c].task = op[c].task
                            \/ task'[op[c].task].state = "running"
    PROVE  Answered'
<1> SUFFICES ASSUME NEW d \in Cpus, migration_queue'[d] # << >>,
                    ~InThread(d)', task'[Migration(d)].state # "running"
             PROVE  \E e \in Cpus : At(e, "wake")' /\ op'[e].task = Migration(d)
  BY DEF Answered
<1>1. CASE migration_queue[d] # << >>
  <2>1. task[Migration(d)].state # "running"
    OBVIOUS
  <2>2. ~InThread(d)
    BY DEF InThread, At
  <2>3. PICK e \in Cpus : At(e, "wake") /\ op[e].task = Migration(d)
    BY <1>1, <2>1, <2>2 DEF Answered
  <2> QED  BY <2>3 DEF At
<1>2. CASE migration_queue[d] = << >>
  BY <1>2
<1> QED  BY <1>1, <1>2

LEMMA WakeNoticed ==
    ASSUME Shapes, Noticed, NEW c \in Cpus, NEW p \in Threads, NEW sync, NEW then,
           TryToWakeUp(c, p, sync, then), ~ToPick(c)
    PROVE  Noticed'
<1>1. /\ task \in [Threads -> Thread] /\ op = [d \in Cpus |-> op[d]]
      /\ need_resched \in [Cpus -> BOOLEAN]
  BY DEF Shapes
<1>2. UNCHANGED <<curr, unnoticed>> /\ \E next : Goes(c, next)
  BY DEF TryToWakeUp, history
<1>3. \A d \in Cpus : d # c => op'[d] = op[d]
  BY <1>1, <1>2 DEF Goes
<1>4. CASE /\ task' = [task EXCEPT ![p].array = task[p].cpu, ![p].state = "running"]
           /\ need_resched' = [need_resched EXCEPT ![task[p].cpu] =
                                  @ \/ Preempts(p, task[p].cpu)]
  <2>1. \A t \in Threads : task'[t].array = IF t = p THEN task[p].cpu ELSE task[t].array
    BY <1>1, <1>4 DEF Thread
  <2>2. \A d \in Cpus : need_resched[d] => need_resched'[d]
    BY <1>1, <1>4
  <2>3. \A d \in Cpus : d = task[p].cpu /\ curr[d] = Idle => need_resched'[d]
    BY <1>1, <1>4 DEF Preempts
  <2> QED  BY <1>2, <1>3, <2>1, <2>2, <2>3, NoticedStep
<1>5. CASE /\ UNCHANGED need_resched
           /\ \A t \in Threads : task'[t].array = task[t].array
  BY <1>2, <1>3, <1>5, NoticedStep
<1>6. \/ /\ task' = [task EXCEPT ![p].array = task[p].cpu, ![p].state = "running"]
         /\ need_resched' = [need_resched EXCEPT ![task[p].cpu] =
                                @ \/ Preempts(p, task[p].cpu)]
      \/ /\ UNCHANGED need_resched
         /\ \/ task' = [task EXCEPT ![p].cpu = c]
            \/ task' = [task EXCEPT ![p].state = "running"]
  BY DEF TryToWakeUp
<1> QED  BY <1>1, <1>4, <1>5, <1>6 DEF Thread

LEMMA PullNoticed ==
    ASSUME Shapes, Noticed, NEW c \in Cpus, Pull(c)
    PROVE  Noticed'
<1>1. /\ task \in [Threads -> Thread] /\ need_resched \in [Cpus -> BOOLEAN]
      /\ UNCHANGED <<curr, unnoticed>>
  BY DEF Shapes, Pull, history
<1>2. PICK moved :
          /\ task' = [t \in Threads |->
                         IF t \in moved THEN [task[t] EXCEPT !.cpu = c, !.array = c]
                         ELSE task[t]]
          /\ need_resched' = [need_resched EXCEPT ![c] =
                                 @ \/ (moved # {} /\ curr[c] = Idle)]
  BY DEF Pull
<1>3. \A t \in Threads : task'[t].array = IF t \in moved THEN c ELSE task[t].array
  BY <1>1, <1>2 DEF Thread
<1>4. \A d \in Cpus : need_resched[d] => need_resched'[d]
  BY <1>1, <1>2
<1>5. moved # {} /\ curr[c] = Idle => need_resched'[c]
  BY <1>1, <1>2
<1>6. ToPick(c) => ToPick(c)'
  BY OpSteps DEF ToPick, At, PickOp, Balancing, Running
<1>7. \A d \in Cpus : d # c => op'[d] = op[d]
  BY OtherOps
<1>8. \A t \in Threads, d \in Cpus :
          task'[t].array = d /\ task[t].array # d /\ curr[d] = Idle => need_resched'[d]
  <2> SUFFICES ASSUME NEW t \in Threads, NEW d \in Cpus, task'[t].array = d,
                      task[t].array # d, curr[d] = Idle
               PROVE  need_resched'[d]
    OBVIOUS
  <2>1. t \in moved /\ d = c
    BY <1>3
  <2>2. moved # {} /\ curr[c] = Idle
    BY <2>1
  <2> QED  BY <1>5, <2>1, <2>2, Zenon
<1> QED  BY <1>1, <1>4, <1>6, <1>7, <1>8, NoticedStep

LEMMA MoveNoticed ==
    ASSUME Shapes, Noticed, NEW c \in Cpus, Move(c)
    PROVE  Noticed'
<1>1. PICK p \in Threads, src \in Cpus, dest \in Cpus :
          p = op[c].req.task /\ src = op[c].src /\ dest = op[c].dest
  BY OpAtPlace, ThreadsAreApart DEF Move, At, MoveOps, Request
<1>2. task \in [Threads -> Thread] /\ UNCHANGED <<curr, need_resched>>
  BY DEF Shapes, Move
<1>3. ~ToPick(c) /\ \A d \in Cpus : d # c => op'[d] = op[d]
  BY OtherOps DEF Move, ToPick, At, Balancing
<1>4. CASE /\ task' = [task EXCEPT ![p].cpu = dest, ![p].array = dest]
           /\ unnoticed' = IF curr[dest] = Idle THEN unnoticed \cup {dest} ELSE unnoticed
  <2>1. \A t \in Threads : task'[t].array = IF t = p THEN dest ELSE task[t].array
    BY <1>2, <1>4 DEF Thread
  <2>2. \A t \in Threads, d \in Cpus :
            task'[t].array = d /\ task[t].array # d /\ curr[d] = Idle => d \in unnoticed'
    BY <1>4, <2>1
  <2>3. unnoticed \subseteq unnoticed'
    BY <1>4
  <2> QED  BY <1>2, <1>3, <2>2, <2>3, NoticedStep
<1>5. CASE UNCHANGED unnoticed /\ \A t \in Threads : task'[t].array = task[t].array
  BY <1>2, <1>3, <1>5, NoticedStep
<1>6. \/ /\ task' = [task EXCEPT ![p].cpu = dest, ![p].array = dest]
         /\ unnoticed' = IF curr[dest] = Idle THEN unnoticed \cup {dest} ELSE unnoticed
      \/ UNCHANGED unnoticed /\ (UNCHANGED task \/ task' = [task EXCEPT ![p].cpu = dest])
  BY <1>1 DEF Move, Moved
<1> QED  BY <1>2, <1>4, <1>5, <1>6 DEF Thread

(* Only a processor that has nothing to run takes the idle task.           *)
LEMMA PickNoticed ==
    ASSUME Shapes, Counted, Noticed, NEW c \in Cpus, Pick(c)
    PROVE  Noticed'
<1>1. PICK next : /\ curr' = [curr EXCEPT ![c] = next]
                  /\ \/ next \in Threads
                     \/ nr_running[c] = 0
  BY ThreadsAreApart DEF Pick, Queued
<1>2. /\ UNCHANGED task /\ need_resched' = [need_resched EXCEPT ![c] = FALSE]
      /\ unnoticed' = unnoticed \ {c}
  BY DEF Pick
<1>3. /\ need_resched \in [Cpus -> BOOLEAN] /\ curr \in [Cpus -> Threads \cup {Idle}]
      /\ \A d \in Cpus : d # c => op'[d] = op[d]
  BY OtherOps DEF Shapes
<1>4. \A d \in Cpus : Queued(d)' = Queued(d)
  BY <1>2 DEF Queued
<1>5. ~(curr'[c] = Idle /\ Queued(c)' # {})
  <2>1. nr_running[c] = 0 => Queued(c) = {}
    BY Lengths, FS_EmptySet
  <2> QED  BY <1>1, <1>3, <1>4, <2>1, ThreadsAreApart
<1>6. ASSUME NEW d \in Cpus, d # c, curr'[d] = Idle /\ Queued(d)' # {}
      PROVE  need_resched'[d] \/ d \in unnoticed' \/ ToPick(d)'
  <2>1. curr[d] = Idle /\ Queued(d) # {}
    BY <1>1, <1>3, <1>4, <1>6
  <2>2. need_resched[d] \/ d \in unnoticed \/ ToPick(d)
    BY <2>1 DEF Noticed
  <2>3. need_resched[d] => need_resched'[d]
    BY <1>2, <1>3, <1>6
  <2>4. ToPick(d) => ToPick(d)'
    BY <1>3, <1>6 DEF ToPick, At
  <2> QED  BY <1>2, <1>6, <2>2, <2>3, <2>4
<1> QED  BY <1>5, <1>6 DEF Noticed

LEMMA NoticedNext ==
    ASSUME Shapes, Counted, Noticed, Next
    PROVE  Noticed'
<1>1. PICK c \in Cpus :
        \/ StartWake(c) \/ Wake(c)
        \/ Pull(c) \/ Move(c) \/ Pick(c)
        \/ Schedule(c)
        \/ TryLock(c) \/ LockBusiest(c) \/ LockThis(c) \/ ContextSwitch(c) \/ BalanceTick(c)
        \/ ChooseDest(c) \/ LockFirst(c) \/ LockSecond(c)
        \/ Sleep(c) \/ Down(c) \/ Exit(c) \/ \E p \in Mortal : ReleaseTask(c, p)
        \/ NextRequest(c)
        \/ \E p \in Targets, mask \in (SUBSET Cpus) \ {{}} : SetCpusAllowed(c, p, mask)
  BY DEF Next
<1>2. task \in [Threads -> Thread] /\ \A d \in Cpus : d # c => op'[d] = op[d]
  BY <1>1, OtherOps DEF Shapes
<1>3. CASE StartWake(c) \/ Wake(c)
  <2>1. ~ToPick(c)
    BY <1>3 DEF StartWake, Wake, ToPick, At, Balancing
  <2>2. At(c, "wake") => op[c].task \in Threads
    BY OpAtPlace DEF WakeOps
  <2> QED  BY <1>3, <2>1, <2>2, WakeNoticed, ThreadsAreApart DEF StartWake, Wake
<1>4. CASE Pull(c) \/ Move(c) \/ Pick(c)
  BY <1>4, PullNoticed, MoveNoticed, PickNoticed
<1>5. CASE Schedule(c)
  <2>1. UNCHANGED <<curr, need_resched, unnoticed>> /\ ToPick(c)'
    BY <1>5, OpSteps DEF Schedule, history
  <2>2. task' = task \/ task' = [task EXCEPT ![curr[c]].array = None]
    BY <1>5 DEF Schedule
  <2>3. \A t \in Threads : task'[t].array \in {None, task[t].array}
    BY <1>2, <2>2 DEF Thread
  <2> QED  BY <1>2, <2>1, <2>3, NoticedStep, ThreadsAreApart
<1>6. CASE \/ TryLock(c) \/ LockBusiest(c) \/ LockThis(c) \/ ContextSwitch(c)
           \/ BalanceTick(c) \/ ChooseDest(c) \/ LockFirst(c) \/ LockSecond(c)
  <2>1. UNCHANGED <<task, curr, need_resched, unnoticed>>
    BY <1>6 DEF TryLock, LockBusiest, LockThis, ContextSwitch, BalanceTick,
                ChooseDest, LockFirst, LockSecond, queues, history
  <2>2. ToPick(c) => ToPick(c)'
    BY <1>6, OpSteps DEF ToPick, At, Balancing
  <2> QED  BY <1>2, <2>1, <2>2, NoticedStep
<1>7. CASE \/ Sleep(c) \/ Down(c) \/ Exit(c) \/ \E p \in Mortal : ReleaseTask(c, p)
           \/ NextRequest(c)
           \/ \E p \in Targets, mask \in (SUBSET Cpus) \ {{}} : SetCpusAllowed(c, p, mask)
  <2>1. UNCHANGED <<curr, need_resched, unnoticed>>
    BY <1>7 DEF Sleep, Down, Exit, ReleaseTask, NextRequest, SetCpusAllowed, history
  <2>2. ~ToPick(c)
    BY <1>7 DEF Sleep, Down, Exit, ReleaseTask, NextRequest, SetCpusAllowed, InUser,
                ToPick, At, Balancing
  <2>3. \A t \in Threads : task'[t].array = task[t].array
    <3>1. CASE \E p, st : task' = [task EXCEPT ![p].state = st]
      BY <1>2, <3>1 DEF Thread
    <3>2. CASE \E p \in Targets, mask \in (SUBSET Cpus) \ {{}} : SetCpusAllowed(c, p, mask)
      <4>1. PICK p \in Threads, mask \in SUBSET Cpus : SetCpusAllowed(c, p, mask)
        BY <3>2, TasksAssumption, ThreadsAreApart
      <4>2. CASE task' = [task EXCEPT ![p].cpus_allowed = mask]
        BY <1>2, <4>2 DEF Thread
      <4>3. CASE task' = [task EXCEPT ![p].cpus_allowed = mask, ![p].cpu = ffs(mask)]
        BY <1>2, <4>3 DEF Thread
      <4> QED  BY <4>1, <4>2, <4>3 DEF SetCpusAllowed
    <3> QED  BY <1>7, <3>1, <3>2 DEF Sleep, Down, Exit, ReleaseTask, NextRequest
  <2> QED  BY <1>2, <2>1, <2>2, <2>3, NoticedStep
<1> QED  BY <1>1, <1>3, <1>4, <1>5, <1>6, <1>7

LEMMA WakeAnswered ==
    ASSUME Shapes, Answered, NEW c \in Cpus, NEW p \in Threads, NEW sync,
           NEW then \in {Running, LoopOp}, TryToWakeUp(c, p, sync, then),
           At(c, "wake") => op[c].task = p /\ op[c].then = then,
           InThread(c) => At(c, "wake")
    PROVE  Answered'
<1>1. task \in [Threads -> Thread] /\ op = [d \in Cpus |-> op[d]]
  BY DEF Shapes
<1>2. UNCHANGED migration_queue /\ \E next : Goes(c, next)
  BY DEF TryToWakeUp
<1>3. \A d \in Cpus : d # c => op'[d] = op[d]
  BY <1>1, <1>2 DEF Goes
<1>4. \/ /\ op'[c] = [at |-> "wake", task |-> p, sync |-> sync, then |-> then]
         /\ task' = [task EXCEPT ![p].cpu = c]
      \/ /\ op'[c] = then
         /\ \/ task' = [task EXCEPT ![p].array = task[p].cpu, ![p].state = "running"]
            \/ task' = [task EXCEPT ![p].state = "running"]
  BY <1>1 DEF TryToWakeUp, Goes
<1>5. /\ \A t \in Threads : task[t].state = "running" => task'[t].state = "running"
      /\ op'[c] = then => task'[p].state = "running"
  BY <1>1, <1>4 DEF Thread, Running, LoopOp
<1>6. InThread(c) => InThread(c)'
  <2>1. InThread(c) => then = LoopOp
    BY DEF InThread, At
  <2> QED  BY <1>4, <2>1 DEF InThread, At, LoopOp
<1>7. At(c, "wake") => \/ At(c, "wake")' /\ op'[c].task = op[c].task
                       \/ task'[op[c].task].state = "running"
  BY <1>4, <1>5 DEF At
<1> QED  BY <1>2, <1>3, <1>5, <1>6, <1>7, AnsweredStep, ThreadsAreApart

LEMMA NextRequestAnswered ==
    ASSUME Shapes, Answered, NEW c \in Cpus, NextRequest(c)
    PROVE  Answered'
<1>1. /\ op = [d \in Cpus |-> op[d]] /\ task \in [Threads -> Thread]
      /\ migration_queue \in [Cpus -> Seq(Request)]
  BY DEF Shapes
<1>2. task' = [task EXCEPT ![Migration(c)].state = "sleeping"] /\ ~At(c, "wake")
  BY DEF NextRequest, At
<1>3. \A d \in Cpus : d # c => task'[Migration(d)] = task[Migration(d)]
  BY <1>1, <1>2, ThreadsAreApart
<1>4. \/ migration_queue'[c] = << >>
      \/ migration_queue[c] # << >> /\ InThread(c)'
  BY <1>1 DEF NextRequest, Goes, InThread, At
<1>5. \A d \in Cpus : d # c => op'[d] = op[d] /\ migration_queue'[d] = migration_queue[d]
  BY <1>1, OtherOps DEF NextRequest
<1> QED  BY <1>2, <1>3, <1>4, <1>5, AnsweredStep

LEMMA SetCpusAllowedAnswered ==
    ASSUME Shapes, Answered, NEW c \in Cpus, NEW p \in Targets,
           NEW mask \in (SUBSET Cpus) \ {{}}, SetCpusAllowed(c, p, mask)
    PROVE  Answered'
<1>1. /\ op = [d \in Cpus |-> op[d]] /\ task \in [Threads -> Thread]
      /\ migration_queue \in [Cpus -> Seq(Request)]
      /\ p \in Threads /\ \A d \in Cpus : Migration(d) # p
  BY TasksAssumption, ThreadsAreApart DEF Shapes
<1>2. \A d \in Cpus : task'[Migration(d)] = task[Migration(d)]
  <2>1. \A t \in Threads : t # p => task'[t] = task[t]
    BY <1>1 DEF SetCpusAllowed
  <2> QED  BY <1>1, <2>1, ThreadsAreApart
<1>3. ~At(c, "wake") /\ ~InThread(c)
  BY DEF SetCpusAllowed, InUser, At, InThread
<1>4. \A d \in Cpus : d # c => op'[d] = op[d]
  BY OtherOps
<1>5. CASE UNCHANGED migration_queue
  BY <1>2, <1>3, <1>4, <1>5, AnsweredStep
<1>6. CASE \E q : /\ migration_queue' = [migration_queue EXCEPT ![task[p].cpu] = q]
                  /\ Goes(c, WakeOp(Migration(task[p].cpu), Running))
  <2>1. At(c, "wake")' /\ op'[c].task = Migration(task[p].cpu)
    BY <1>1, <1>6 DEF Goes, WakeOp, At
  <2>2. \A d \in Cpus : migration_queue'[d] # << >> =>
            migration_queue[d] # << >> \/ d = task[p].cpu
    BY <1>1, <1>6
  <2> QED  BY <1>2, <1>3, <1>4, <2>1, <2>2, AnsweredStep
<1> QED  BY <1>5, <1>6 DEF SetCpusAllowed

LEMMA AnsweredNext ==
    ASSUME Shapes, Answered, Next
    PROVE  Answered'
<1>1. PICK c \in Cpus :
        \/ StartWake(c) \/ Wake(c)
        \/ \E p \in Targets, mask \in (SUBSET Cpus) \ {{}} : SetCpusAllowed(c, p, mask)
        \/ NextRequest(c)
        \/ TryLock(c) \/ LockBusiest(c) \/ LockThis(c) \/ ContextSwitch(c) \/ BalanceTick(c)
        \/ Pull(c) \/ Schedule(c) \/ Pick(c)
        \/ ChooseDest(c) \/ LockFirst(c) \/ LockSecond(c) \/ Move(c)
        \/ Sleep(c) \/ Down(c) \/ Exit(c) \/ \E p \in Mortal : ReleaseTask(c, p)
  BY DEF Next
<1>2. task \in [Threads -> Thread] /\ \A d \in Cpus : d # c => op'[d] = op[d]
  BY <1>1, OtherOps DEF Shapes
<1>3. CASE StartWake(c)
  <2>1. ~At(c, "wake") /\ ~InThread(c)
    BY <1>3 DEF StartWake, At, InThread
  <2> QED  BY <1>3, <2>1, WakeAnswered, ThreadsAreApart DEF StartWake
<1>4. CASE Wake(c)
  <2>1. op[c] \in WakeOps
    BY <1>4, OpAtPlace DEF Wake
  <2> QED  BY <1>4, <2>1, WakeAnswered DEF Wake, WakeOps
<1>5. CASE \/ TryLock(c) \/ LockBusiest(c) \/ LockThis(c) \/ ContextSwitch(c)
           \/ BalanceTick(c) \/ Pull(c) \/ Schedule(c) \/ Pick(c)
           \/ ChooseDest(c) \/ LockFirst(c) \/ LockSecond(c) \/ Move(c)
  <2>1. UNCHANGED migration_queue
    BY <1>5 DEF TryLock, LockBusiest, LockThis, ContextSwitch, BalanceTick, Pull, Schedule,
                Pick, ChooseDest, LockFirst, LockSecond, Move
  <2>2. ~At(c, "wake") /\ (InThread(c) => InThread(c)')
    BY <1>5, OpSteps, SMTT(60) DEF InThread, At, Balancing
  <2>3. \A t \in Threads : task'[t].state = task[t].state
    <3>1. CASE UNCHANGED task
      BY <3>1
    <3>2. CASE Pull(c)
      <4>1. PICK moved : task' = [t \in Threads |->
                                     IF t \in moved THEN [task[t] EXCEPT !.cpu = c, !.array = c]
                                     ELSE task[t]]
        BY <3>2 DEF Pull
      <4> QED  BY <1>2, <4>1 DEF Thread
    <3>3. CASE Schedule(c)
      <4>1. UNCHANGED task \/ task' = [task EXCEPT ![curr[c]].array = None]
        BY <3>3 DEF Schedule
      <4> QED  BY <1>2, <4>1 DEF Thread
    <3>4. CASE Move(c)
      <4>1. PICK p \in Threads, dest \in Cpus : p = op[c].req.task /\ dest = op[c].dest
        BY <3>4, OpAtPlace, ThreadsAreApart DEF Move, At, MoveOps, Request
      <4>2. CASE task' = [task EXCEPT ![p].cpu = dest]
        BY <1>2, <4>2 DEF Thread
      <4>3. CASE task' = [task EXCEPT ![p].cpu = dest, ![p].array = dest]
        BY <1>2, <4>3 DEF Thread
      <4> QED  BY <3>4, <4>1, <4>2, <4>3 DEF Move, Moved
    <3> QED
      BY <1>5, <3>1, <3>2, <3>3, <3>4
         DEF TryLock, LockBusiest, LockThis, ContextSwitch, BalanceTick, Pick,
             ChooseDest, LockFirst, LockSecond, queues
  <2> QED  BY <1>2, <2>1, <2>2, <2>3, AnsweredStep, ThreadsAreApart
<1>6. CASE Sleep(c) \/ Down(c) \/ Exit(c) \/ \E p \in Mortal : ReleaseTask(c, p)
  <2>1. UNCHANGED <<op, migration_queue>>
        /\ \E p \in Tasks, st \in States : task' = [task EXCEPT ![p].state = st]
    BY <1>6, TasksAssumption DEF Sleep, Down, Exit, ReleaseTask, InUser, States
  <2>2. \A d \in Cpus : task'[Migration(d)] = task[Migration(d)]
    BY <1>2, <2>1, ThreadsAreApart
  <2> QED  BY <2>1, <2>2, AnsweredStep DEF At, InThread
<1> QED  BY <1>1, <1>3, <1>4, <1>5, <1>6, NextRequestAnswered, SetCpusAllowedAnswered

------------------------------------------------------------------------------
(* The invariant *)

LEMMA InitIInv == Init => IInv
<1> SUFFICES ASSUME Init  PROVE IInv
  OBVIOUS
<1>1. /\ \A c \in Cpus : op[c] = Running /\ lock[c] = Free /\ migration_queue[c] = << >>
      /\ op = [c \in Cpus |-> op[c]]
  BY DEF Init
<1>2. \A c \in Cpus : ~HasDest(c) /\ ~InThread(c) /\ Holds(c) = {}
                      /\ ~At(c, "wake") /\ ~At(c, "switch")
  BY <1>1 DEF HasDest, InThread, Holds, At, Running
<1>3. /\ \A t \in Tasks : task[t] = [state |-> "running", cpu |-> Boot, array |-> Boot,
                                     cpus_allowed |-> Cpus]
      /\ \A c \in Cpus : task[Migration(c)] = [state |-> "sleeping", cpu |-> c,
                                               array |-> None, cpus_allowed |-> {c}]
  BY ThreadsAreApart DEF Init, Migration
<1>4. /\ \A t \in Threads : t \in Tasks \/ \E c \in Cpus : t = Migration(c)
      /\ task = [t \in Threads |-> task[t]]
  BY DEF Threads, Init
<1>5. PICK first \in Tasks : curr = [c \in Cpus |-> IF c = Boot THEN first ELSE Idle]
  BY DEF Init
<1>6. Shapes
  <2>1. ASSUME NEW t \in Threads  PROVE task[t] \in Thread
    <3>1. CASE t \in Tasks
      BY <1>3, <3>1, CpusAssumption DEF Thread, States
    <3>2. CASE t \notin Tasks
      <4>1. PICK c \in Cpus : t = Migration(c)
        BY <1>4, <3>2
      <4>2. task[t] = [state |-> "sleeping", cpu |-> c, array |-> None, cpus_allowed |-> {c}]
        BY <1>3, <4>1
      <4> QED  BY <4>2 DEF Thread, States
    <3> QED  BY <3>1, <3>2
  <2>2. migration_queue \in [Cpus -> Seq(Request)]
    BY DEF Init
  <2>3. \A c \in Cpus : op[c] \in Ops(c)
    BY <1>1, KnownOps
  <2> QED
    BY <1>1, <1>4, <1>5, <2>1, <2>2, <2>3, ThreadsAreApart DEF Shapes, Init
<1>6a. ASSUME NEW t \in Threads, t \notin Tasks
      PROVE  task[t].state = "sleeping" /\ task[t].array = None
  <2>1. PICK c \in Cpus : t = Migration(c)
    BY <1>6a, <1>4
  <2>2. task[t] = [state |-> "sleeping", cpu |-> c, array |-> None, cpus_allowed |-> {c}]
    BY <1>3, <2>1
  <2> QED  BY <2>2
<1>7. /\ Queued(Boot) = Tasks
      /\ \A c \in Cpus : c # Boot => Queued(c) = {}
  <2>1. \A t \in Tasks : t \in Threads /\ task[t].array = Boot
    BY <1>3, ThreadsAreApart
  <2> QED  BY <1>6a, <2>1, CpusAssumption, ThreadsAreApart DEF Queued
<1>8. Counted
  <2>1. Cardinality(Queued(Boot)) = Cardinality(Tasks)
    BY <1>7, Zenon
  <2>2. \A c \in Cpus : c # Boot => Cardinality(Queued(c)) = 0
    BY <1>7, FS_EmptySet, Zenon
  <2> QED  BY <2>1, <2>2 DEF Counted, Init
<1>9. Locks
  BY <1>1, <1>2, ThreadsAreApart DEF Locks, LockHeld, InOrder, At, Running
<1>10. Places
  <2>1. \A t \in Threads : ~Gone(t) /\ task[t].array \in {None, task[t].cpu}
    BY <1>6a, <1>3 DEF Gone
  <2>2. \A c \in Cpus : curr[c] # Idle => task[curr[c]].cpu = c
    BY <1>3, <1>5
  <2> QED  BY <1>2, <2>1, <2>2 DEF Places, Placed, Zombies, OwnThread, Gone
<1>11. Affinity
  BY <1>2, <1>3, CpusAssumption DEF Affinity, HasDest
<1>12. Noticed
  BY <1>5, <1>7, ThreadsAreApart DEF Noticed
<1>13. Answered
  BY <1>1 DEF Answered
<1> QED  BY <1>6, <1>8, <1>9, <1>10, <1>11, <1>12, <1>13 DEF IInv

(* The invariant holds throughout: threads, locks, requests and what the   *)
(* processors have been told fit together at every step of every one.      *)
THEOREM Invariance == Spec => []IInv
<1>1. IInv /\ [Next]_vars => IInv'
  <2> SUFFICES ASSUME IInv, [Next]_vars  PROVE IInv'
    OBVIOUS
  <2>1. CASE Next
    <3>1. Shapes /\ Counted /\ Locks /\ Places /\ Placed /\ Affinity /\ Noticed /\ Answered
      BY DEF IInv, Places
    <3> QED
      BY <2>1, <3>1, ShapesNext, CountNext, LocksNext, PlacesNext, AffinityNext,
         NoticedNext, AnsweredNext DEF IInv
  <2>2. CASE UNCHANGED vars
    <3>1. Shapes' /\ Counted'
      BY <2>2 DEF vars, IInv, Shapes, Counted, Queued
    <3>2. Locks'
      BY <2>2 DEF vars, IInv, Locks, LockHeld, InOrder, Holds, At
    <3>3. Places'
      BY <2>2 DEF vars, IInv, Places, Placed, Zombies, OwnThread, InThread, ToPick, Gone,
                  OnProcessor, At
    <3>4. Affinity' /\ Noticed' /\ Answered'
      BY <2>2 DEF vars, IInv, Affinity, Noticed, Answered, Requests, InHand, InThread,
                  ToPick, Queued, At
    <3> QED  BY <3>1, <3>2, <3>3, <3>4 DEF IInv
  <2> QED  BY <2>1, <2>2 DEF vars
<1> QED  BY <1>1, InitIInv, PTL DEF Spec

(* A thread is on the queue of its own processor or on none, runs nowhere  *)
(* else, is released only when it is nowhere at all, and every run queue   *)
(* is as long as it says: load_balance(), try_to_wake_up() and the         *)
(* migration threads each hold the locks that this takes.                  *)
THEOREM TasksAtOnePlace == Spec => []OnePlace
<1>1. IInv => OnePlace
  <2> SUFFICES ASSUME IInv  PROVE OnePlace
    OBVIOUS
  <2>1. TypeOK
    <3>1. task \in [Threads -> [state : {"running", "sleeping", "waiting",
                                         "zombie", "released"}, cpu : Cpus,
                                array : Cpus \cup {None}, cpus_allowed : SUBSET Cpus]]
      BY DEF IInv, Shapes, Thread, States
    <3>2. nr_running \in [Cpus -> Nat]
      BY Lengths DEF IInv
    <3> QED  BY <3>1, <3>2 DEF TypeOK, IInv, Shapes
  <2>2. \A c \in Cpus : nr_running[c] = Cardinality(Queued(c))
    BY Lengths DEF IInv
  <2>3. \A c \in Cpus, t \in Mortal : task[t].state = "released" =>
            t \notin OnProcessor(c) \cup Queued(c)
    BY TasksAssumption, ThreadsAreApart DEF IInv, Places, Placed, Queued
  <2> QED  BY <2>1, <2>2, <2>3 DEF OnePlace, IInv, Places, Placed
<1> QED  BY <1>1, Invariance, PTL

(* double_lock_balance() and double_rq_lock() keep the order of the locks, *)
(* so no processors wait for each other in a circle: the one that owns the *)
(* last of the locks in it would wait for a lock behind that.              *)
THEOREM LocksInOrder == Spec => []NoDeadlock
<1>1. IInv => NoDeadlock
  <2> SUFFICES ASSUME IInv  PROVE NoDeadlock
    OBVIOUS
  <2>1. ASSUME NEW c \in Cpus, NEW a \in Awaits(c)
        PROVE  a \in Cpus /\ \A b \in Holds(c) : b < a
    <3>1. CASE At(c, "spin") \/ At(c, "busiest") \/ At(c, "this")
      <4>1. op[c].rq \in Cpus /\ op[c].at \in {"spin", "busiest", "this"}
        BY <3>1, OpAtPlace DEF IInv, At, Balancing, BalanceOps, Others
      <4> QED  BY <2>1, <4>1 DEF Holds, Awaits, IInv, Locks, InOrder, At
    <3>2. CASE At(c, "second")
      BY <2>1, <3>2, SecondOfTwo DEF Holds, Awaits, IInv, At
    <3> QED  BY <2>1, <3>1, <3>2 DEF Awaits, At
  <2>2. ASSUME NEW c \in Cpus, NEW a \in Awaits(c), NEW b \in Cpus, lock[b] = c
        PROVE  b < a
    BY <2>1, <2>2 DEF IInv, Locks, LockHeld
  <2> SUFFICES ASSUME NEW S \in SUBSET Cpus, S # {},
                      \A c \in S : \E a \in Awaits(c) : lock[a] \in S
               PROVE  FALSE
    BY DEF NoDeadlock
  <2> DEFINE Wanted == {a \in Cpus : \E c \in S : a \in Awaits(c) /\ lock[a] \in S}
  <2>3. Wanted # {}
    BY <2>1
  <2>4. PICK last \in Wanted : \A a \in Wanted : a <= last
    <3> HIDE DEF Wanted
    <3> QED  BY <2>3, GreatestCpu DEF Wanted
  <2>5. PICK a \in Awaits(lock[last]) : lock[a] \in S
    BY <2>4
  <2>6. a \in Wanted
    BY <2>1, <2>4, <2>5
  <2>7. last < a
    BY <2>2, <2>4, <2>5
  <2> QED  BY <2>4, <2>6, <2>7, CpusAssumption
<1> QED  BY <1>1, Invariance, PTL

(* Where a task may not run, the migration thread of that very processor   *)
(* has or will have the request that moves it.                             *)
THEOREM AffinityHolds == Spec => []AffinityKept
<1>1. IInv => AffinityKept
  <2> SUFFICES ASSUME IInv, NEW t \in Tasks \ overtaken,
                      task[t].cpu \notin task[t].cpus_allowed
               PROVE  \E c \in Cpus : \E r \in Requests(c) : r.task = t
    BY DEF AffinityKept
  <2>1. task[t].cpu \in Cpus
    BY ThreadsAreApart DEF IInv, Shapes, Thread
  <2> QED  BY <2>1 DEF IInv, Affinity
<1> QED  BY <1>1, Invariance, PTL

(* A migration thread with requests in its queue is awake or about to be   *)
(* woken (sched.c:1845), and an idle processor with tasks on its queue is  *)
(* about to reschedule, but for the tasks that a migration thread moved    *)
(* there (line 1916: unnoticed).                                           *)
THEOREM NothingForgotten == Spec => []NobodyForgotten
<1>1. IInv => NobodyForgotten
  BY DEF IInv, Noticed, Answered, NobodyForgotten, InThread, ToPick, At, Balancing, LoopOp
<1> QED  BY <1>1, Invariance, PTL
==============================================================================
