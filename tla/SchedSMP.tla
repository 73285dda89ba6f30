-------------------------------- MODULE SchedSMP --------------------------------
(***************************************************************************)
(* The scheduler of HW2 (kernel/sched.c) on several processors: a run      *)
(* queue with a lock for each, wake-ups from other processors, load        *)
(* balancing, and set_cpus_allowed() with the migration threads.           *)
(*                                                                         *)
(* Sched models what is done under one lock.  Here priorities and time     *)
(* slices are choices of the model, but that a migration thread runs first *)
(* and idle last, and what matters is the order in which the locks are     *)
(* taken and what may have changed by then.  op[c] is where processor c is *)
(* in the code; a step ends where a lock is awaited or others' data read.  *)
(* A processor that spins for a lock and holds none is one that has not    *)
(* begun, so that task_rq_lock(), which looks again whether the task is    *)
(* still there, takes the lock of the task's run queue in one step.        *)
(***************************************************************************)
EXTENDS Integers, Sequences, FiniteSets

CONSTANTS Cpus,            \* in the order of their run queues' addresses
          Tasks,
          ShortTasks,      \* those with policy SCHED_SHORT
          Callers,         \* tasks that call set_cpus_allowed()
          Targets,         \* on one of these
          Mortal,          \* tasks that may exit
          Boot,            \* the processor where all tasks are at first
          Idle, None, Free

Migration(c) == <<"migration", c>>
Threads == Tasks \cup {Migration(c) : c \in Cpus}

ASSUME CpusAssumption == Cpus \subseteq Nat /\ Boot \in Cpus
ASSUME TasksAssumption == ShortTasks \cup Callers \cup Targets \cup Mortal \subseteq Tasks
ASSUME FiniteAssumption == IsFiniteSet(Cpus) /\ IsFiniteSet(Tasks)
ASSUME NamesAssumption == /\ Idle \notin Threads /\ {None, Free} \cap Cpus = {}
                          /\ \A c \in Cpus : Migration(c) \notin Tasks

VARIABLES task,            \* state, cpu, array (the processor whose array it
                           \* is on) and cpus_allowed of each thread
          nr_running,      \* of each run queue, as are the next four
          curr,
          need_resched,    \* of curr, when it is the idle task
          lock,            \* the processor that holds the lock
          migration_queue, \* requests [task, caller]
          op,
          overtaken,       \* history: targets of a second call while a
                           \* migration thread had chosen their destination
          unnoticed        \* history: idle processors to which a migration
                           \* thread moved a task

vars == <<task, nr_running, curr, need_resched, lock, migration_queue, op,
          overtaken, unnoticed>>

Running == [at |-> "run"]

Init ==
    /\ task = [t \in Threads |->
                  IF t \in Tasks
                  THEN [state |-> "running", cpu |-> Boot, array |-> Boot,
                        cpus_allowed |-> Cpus]
                  ELSE [state |-> "sleeping", cpu |-> t[2], array |-> None,
                        cpus_allowed |-> {t[2]}]]
    /\ nr_running = [c \in Cpus |-> IF c = Boot THEN Cardinality(Tasks) ELSE 0]
    /\ \E t \in Tasks : curr = [c \in Cpus |-> IF c = Boot THEN t ELSE Idle]
    /\ need_resched = [c \in Cpus |-> FALSE]
    /\ lock = [c \in Cpus |-> Free]
    /\ migration_queue = [c \in Cpus |-> << >>]
    /\ op = [c \in Cpus |-> Running]
    /\ overtaken = {} /\ unnoticed = {}

Queued(c) == {t \in Threads : task[t].array = c}
ffs(mask) == CHOOSE c \in mask : \A d \in mask : c <= d

At(c, place) == op[c].at = place
Goes(c, next) == op' = [op EXCEPT ![c] = next]

history == <<overtaken, unnoticed>>
queues == <<task, nr_running, curr>>

(* The requests that a migration thread has yet to answer, and the task    *)
(* that is in down() until it does.                                        *)
InHand(c) == IF op[c].at \in {"dest", "first", "second", "move"} THEN {op[c].req}
             ELSE {}
Requests(c) == {migration_queue[c][i] : i \in DOMAIN migration_queue[c]} \cup InHand(c)
Pending(t) == \E c \in Cpus : \E r \in Requests(c) : r.caller = t

InUser(c) == /\ At(c, "run") /\ curr[c] \in Tasks /\ task[curr[c]].state = "running"
             /\ ~Pending(curr[c])

------------------------------------------------------------------------------
(* Wake-ups: try_to_wake_up(p, sync) on processor c *)

WakeOp(p, then) == [at |-> "wake", task |-> p, sync |-> FALSE, then |-> then]

(* MUTANT: the tests of lines 402-404 alone. *)
PreemptsForShort(p, rq) == curr[rq] = Idle /\ p \in ShortTasks

(* Lines 402-408: the idle task is the one that always has to give way. *)
Preempts(p, rq) == curr[rq] = Idle

(* MUTANT: a task whose processor is still switching away from it moves. *)
FastMigratesRunning(c, p) ==
    task[p].cpu # c /\ c \in task[p].cpus_allowed

(* Lines 384-386 *)
FastMigrates(c, p) ==
    curr[task[p].cpu] # p /\ task[p].cpu # c /\ c \in task[p].cpus_allowed

(* What is done while the lock of the task's run queue is held. *)
TryToWakeUp(c, p, sync, then) ==
    LET rq == task[p].cpu
    IN  /\ lock[rq] = Free
        /\ \/ /\ task[p].array = None /\ sync /\ FastMigrates(c, p)
              /\ task' = [task EXCEPT ![p].cpu = c]
              /\ Goes(c, [at |-> "wake", task |-> p, sync |-> sync, then |-> then])
              /\ UNCHANGED <<nr_running, need_resched>>
           \/ /\ task[p].array = None /\ ~(sync /\ FastMigrates(c, p))
              /\ task' = [task EXCEPT ![p].array = rq, ![p].state = "running"]
              /\ nr_running' = [nr_running EXCEPT ![rq] = @ + 1]
              /\ need_resched' = [need_resched EXCEPT ![rq] = @ \/ Preempts(p, rq)]
              /\ Goes(c, then)
           \/ /\ task[p].array # None
              /\ task' = [task EXCEPT ![p].state = "running"]
              /\ Goes(c, then)
              /\ UNCHANGED <<nr_running, need_resched>>
        /\ UNCHANGED <<curr, lock, migration_queue, history>>

(* The current task of c, or an interrupt, wakes p. *)
StartWake(c) ==
    /\ At(c, "run")
    /\ \E p \in Tasks, sync \in BOOLEAN :
          task[p].state = "sleeping" /\ TryToWakeUp(c, p, sync, Running)

Wake(c) ==
    /\ At(c, "wake")
    /\ TryToWakeUp(c, op[c].task, op[c].sync, op[c].then)

------------------------------------------------------------------------------
(* load_balance(this_rq, idle) *)

Others(c) == Cpus \ {c}

(* Line 623, and idle processors take what can be taken. *)
Imbalanced(idle, load, nr) == idle \/ (load - nr) \div 2 >= (load + 3) \div 4

(* Lines 594-624: the other run queues are looked at without their locks.  *)
(* Their former lengths, which smooth the loads of a busy processor, are   *)
(* left open.  The lengths are nr, those that c now has.                   *)
Candidates(c, idle, now) ==
    {b \in [rq : Others(c), load : 2 .. Cardinality(Threads),
            nr : now[c] .. Cardinality(Threads)] :
        /\ b.load <= now[b.rq]
        /\ idle => /\ b.nr = now[c]
                   /\ \A d \in Others(c) : now[d] <= b.load
        /\ Imbalanced(idle, b.load, b.nr)}

BalanceOp(b, idle, then) ==
    [at |-> "try", rq |-> b.rq, idle |-> idle, nr |-> b.nr,
     imbalance |-> IF idle THEN 1 ELSE (b.load - b.nr) \div 2, then |-> then]

(* MUTANT: a lock is waited for, whatever its address. *)
NeverDropped(c) == FALSE

(* Line 540: the lock that is held has to be released first. *)
Drops(c) == op[c].rq < c

(* double_lock_balance() *)
TryLock(c) ==
    LET b == op[c].rq
    IN  /\ At(c, "try")
        /\ \/ /\ lock[b] = Free
              /\ lock' = [lock EXCEPT ![b] = c]
              /\ Goes(c, [op[c] EXCEPT !.at = "pull"])
           \/ /\ lock[b] # Free /\ Drops(c)
              /\ lock' = [lock EXCEPT ![c] = Free]
              /\ Goes(c, [op[c] EXCEPT !.at = "busiest"])
           \/ /\ lock[b] # Free /\ ~Drops(c)
              /\ Goes(c, [op[c] EXCEPT !.at = "spin"])
              /\ UNCHANGED lock
        /\ UNCHANGED <<queues, need_resched, migration_queue, history>>

LockBusiest(c) ==
    /\ At(c, "spin") \/ At(c, "busiest")
    /\ lock[op[c].rq] = Free
    /\ lock' = [lock EXCEPT ![op[c].rq] = c]
    /\ Goes(c, [op[c] EXCEPT !.at = IF @ = "spin" THEN "pull" ELSE "this"])
    /\ UNCHANGED <<queues, need_resched, migration_queue, history>>

(* Lines 543-548: the length is read again. *)
LockThis(c) ==
    /\ At(c, "this") /\ lock[c] = Free
    /\ lock' = [lock EXCEPT ![c] = c]
    /\ \E nr \in nr_running[c] .. Cardinality(Threads) :
          /\ op[c].idle => nr = nr_running[c]
          /\ Goes(c, [op[c] EXCEPT !.at = "pull", !.nr = nr])
    /\ UNCHANGED <<queues, need_resched, migration_queue, history>>

(* MUTANT: CAN_MIGRATE_TASK without cpus_allowed. *)
CanMigrateAnywhere(c, b) == {t \in Queued(b) \ ShortTasks : t # curr[b]}

(* CAN_MIGRATE_TASK for tasks of the active and the expired array; those   *)
(* that are cache-hot are left open.                                       *)
CanMigrate(c, b) ==
    {t \in Queued(b) \ ShortTasks : t # curr[b] /\ c \in task[t].cpus_allowed}

(* Lines 631-705 *)
Pull(c) ==
    LET b == op[c].rq
    IN  /\ At(c, "pull")
        /\ \E moved \in SUBSET CanMigrate(c, b) :
              /\ Cardinality(moved) <=
                    IF nr_running[b] <= op[c].nr + 1 THEN 0 ELSE op[c].imbalance
              /\ task' = [t \in Threads |->
                             IF t \in moved THEN [task[t] EXCEPT !.cpu = c, !.array = c]
                             ELSE task[t]]
              /\ nr_running' = [nr_running EXCEPT ![b] = @ - Cardinality(moved),
                                                  ![c] = @ + Cardinality(moved)]
              /\ need_resched' = [need_resched EXCEPT ![c] =
                                     @ \/ (moved # {} /\ curr[c] = Idle)]
        /\ lock' = [lock EXCEPT ![b] = Free,
                                ![c] = IF op[c].then = Running THEN Free ELSE @]
        /\ Goes(c, op[c].then)
        /\ UNCHANGED <<curr, migration_queue, history>>

------------------------------------------------------------------------------
(* schedule() and scheduler_tick() on processor c *)

(* The current task is about to sleep. *)
Sleep(c) ==
    /\ InUser(c)
    /\ task' = [task EXCEPT ![curr[c]].state = "sleeping"]
    /\ UNCHANGED <<nr_running, curr, need_resched, lock, migration_queue, op, history>>

BeingWoken(t) == \E c \in Cpus : At(c, "wake") /\ op[c].task = t

(* do_exit(): the current task is a zombie, and runs on until schedule().  *)
(* A waker holds a lock, of a wait queue or of signals, that the task      *)
(* takes before it gets here.                                              *)
Exit(c) ==
    /\ InUser(c) /\ curr[c] \in Mortal /\ ~BeingWoken(curr[c])
    /\ task' = [task EXCEPT ![curr[c]].state = "zombie"]
    /\ UNCHANGED <<nr_running, curr, need_resched, lock, migration_queue, op, history>>

(* MUTANT: lines 332-336 alone, without the lock. *)
InactiveUnlocked(p) == curr[task[p].cpu] # p

(* wait_task_inactive(p) returns. *)
Inactive(p) == lock[task[p].cpu] = Free /\ curr[task[p].cpu] # p

(* release_task(p), called in wait4() by the current task of c. *)
ReleaseTask(c, p) ==
    /\ InUser(c) /\ task[p].state = "zombie" /\ Inactive(p)
    /\ task' = [task EXCEPT ![p].state = "released"]
    /\ UNCHANGED <<nr_running, curr, need_resched, lock, migration_queue, op, history>>

Stops(c) == curr[c] # Idle /\ task[curr[c]].state # "running"

Exits(c) == curr[c] # Idle /\ task[curr[c]].state = "zombie"

(* Lines 861-887: schedule() has the lock and takes a task that does not   *)
(* run off the queue; with nothing left to run, it balances.  Unless it is *)
(* the idle task, the current one calls it at any time: it waits, yields,  *)
(* or a better task or the timer has set its need_resched.                 *)
Schedule(c) ==
    LET prev == curr[c]
        gone == Stops(c) /\ task[prev].array # None
        now == [nr_running EXCEPT ![c] = IF gone THEN @ - 1 ELSE @]
        picks == [at |-> "pick"]
    IN  /\ At(c, "run") /\ lock[c] = Free /\ (curr[c] = Idle => need_resched[c])
        /\ lock' = [lock EXCEPT ![c] = c]
        /\ task' = IF gone THEN [task EXCEPT ![prev].array = None] ELSE task
        /\ nr_running' = now
        /\ IF now[c] = 0 /\ Candidates(c, TRUE, now) # {}
           THEN \E b \in Candidates(c, TRUE, now) : Goes(c, BalanceOp(b, TRUE, picks))
           ELSE Goes(c, picks)
        /\ UNCHANGED <<curr, need_resched, migration_queue, history>>

(* Lines 885-937: the next task is the current one before the processor    *)
(* has left the stack of the one before it and releases the lock.  Without *)
(* the lock curr is read for zombies only: else this is one step.          *)
Pick(c) ==
    /\ At(c, "pick")
    /\ \E next \in IF Migration(c) \in Queued(c) THEN {Migration(c)}
                   ELSE IF nr_running[c] = 0 THEN {Idle} ELSE Queued(c) :
          /\ curr' = [curr EXCEPT ![c] = next]
          /\ \/ /\ Exits(c)
                /\ Goes(c, [at |-> "switch", prev |-> curr[c]])
                /\ UNCHANGED lock
             \/ /\ ~Exits(c)
                /\ Goes(c, Running)
                /\ lock' = [lock EXCEPT ![c] = Free]
    /\ need_resched' = [need_resched EXCEPT ![c] = FALSE]
    /\ unnoticed' = unnoticed \ {c}
    /\ UNCHANGED <<task, nr_running, migration_queue, overtaken>>

(* Lines 930-935 *)
ContextSwitch(c) ==
    /\ At(c, "switch")
    /\ lock' = [lock EXCEPT ![c] = Free]
    /\ Goes(c, Running)
    /\ UNCHANGED <<queues, need_resched, migration_queue, history>>

(* idle_tick(), or a busy processor's turn to balance. *)
BalanceTick(c) ==
    LET idle == curr[c] = Idle
    IN  /\ At(c, "run") /\ lock[c] = Free
        /\ \E b \in Candidates(c, idle, nr_running) :
              Goes(c, BalanceOp(b, idle, Running))
        /\ lock' = [lock EXCEPT ![c] = c]
        /\ UNCHANGED <<queues, need_resched, migration_queue, history>>

------------------------------------------------------------------------------
(* set_cpus_allowed(p, mask), called by the current task of c *)

(* A migration thread has chosen where p goes. *)
Chosen(p) == \E c \in Cpus : /\ op[c].at \in {"first", "second", "move"}
                           /\ op[c].req.task = p

(* Lines 1822-1845 *)
SetCpusAllowed(c, p, mask) ==
    LET rq == task[p].cpu
        allowed == [task EXCEPT ![p].cpus_allowed = mask]
    IN  /\ InUser(c) /\ curr[c] \in Callers /\ task[p].state # "released"
        /\ lock[rq] = Free
        /\ \/ /\ rq \in mask
              /\ task' = allowed
              /\ UNCHANGED <<migration_queue, op>>
           \/ /\ rq \notin mask /\ task[p].array = None /\ curr[rq] # p
              /\ task' = [allowed EXCEPT ![p].cpu = ffs(mask)]
              /\ UNCHANGED <<migration_queue, op>>
           \/ /\ rq \notin mask /\ (task[p].array # None \/ curr[rq] = p)
              /\ task' = allowed
              /\ migration_queue' = [migration_queue EXCEPT ![rq] =
                                        <<[task |-> p, caller |-> curr[c]]>> \o @]
              /\ Goes(c, WakeOp(Migration(rq), Running))
        /\ overtaken' = IF Chosen(p) THEN overtaken \cup {p} ELSE overtaken \ {p}
        /\ UNCHANGED <<nr_running, curr, need_resched, lock, unnoticed>>

(* Line 1847: down(&req.sem) waits again when something else wakes it. *)
Down(c) ==
    /\ At(c, "run") /\ curr[c] \in Callers /\ Pending(curr[c])
    /\ task[curr[c]].state = "running"
    /\ task' = [task EXCEPT ![curr[c]].state = "waiting"]
    /\ UNCHANGED <<nr_running, curr, need_resched, lock, migration_queue, op, history>>

------------------------------------------------------------------------------
(* migration_thread() of processor c *)

(* Lines 1886-1896 *)
NextRequest(c) ==
    /\ \/ At(c, "loop")
       \/ At(c, "run") /\ curr[c] = Migration(c) /\ ~Stops(c)
    /\ lock[c] = Free
    /\ task' = [task EXCEPT ![Migration(c)].state = "sleeping"]
    /\ \/ /\ migration_queue[c] = << >>
          /\ Goes(c, Running)
          /\ UNCHANGED migration_queue
       \/ /\ migration_queue[c] # << >>
          /\ Goes(c, [at |-> "dest", req |-> Head(migration_queue[c])])
          /\ migration_queue' = [migration_queue EXCEPT ![c] = Tail(@)]
    /\ UNCHANGED <<nr_running, curr, need_resched, lock, history>>

(* Line 1899: read without a lock. *)
ChooseDest(c) ==
    LET req == op[c].req
    IN  /\ At(c, "dest")
        /\ Goes(c, [at |-> "first", req |-> req, dest |-> ffs(task[req.task].cpus_allowed)])
        /\ UNCHANGED <<queues, need_resched, lock, migration_queue, history>>

LockedFirst(src, dest) == ffs({src, dest})

(* Lines 1901-1906: double_rq_lock() *)
LockFirst(c) ==
    LET src == task[op[c].req.task].cpu
        dest == op[c].dest
        first == LockedFirst(src, dest)
    IN  /\ At(c, "first") /\ lock[first] = Free
        /\ lock' = [lock EXCEPT ![first] = c]
        /\ Goes(c, [at |-> IF src = dest THEN "move" ELSE "second",
                    req |-> op[c].req, src |-> src, dest |-> dest])
        /\ UNCHANGED <<queues, need_resched, migration_queue, history>>

Second(c) == CHOOSE d \in {op[c].src, op[c].dest} : d # LockedFirst(op[c].src, op[c].dest)

LockSecond(c) ==
    /\ At(c, "second") /\ lock[Second(c)] = Free
    /\ lock' = [lock EXCEPT ![Second(c)] = c]
    /\ Goes(c, [op[c] EXCEPT !.at = "move"])
    /\ UNCHANGED <<queues, need_resched, migration_queue, history>>

(* Lines 1907-1920.  Nothing tells the destination's current task.         *)
Moved(c, p, src, dest) ==
    /\ task[p].cpu = src
    /\ IF src = c /\ task[p].array # None
       THEN /\ task' = [task EXCEPT ![p].cpu = dest, ![p].array = dest]
            /\ nr_running' = [[nr_running EXCEPT ![src] = @ - 1] EXCEPT ![dest] = @ + 1]
            /\ unnoticed' = IF curr[dest] = Idle THEN unnoticed \cup {dest}
                            ELSE unnoticed
       ELSE /\ task' = IF src = c THEN [task EXCEPT ![p].cpu = dest] ELSE task
            /\ UNCHANGED <<nr_running, unnoticed>>

(* Line 1922: up(&req->sem) follows, before the next turn of the loop. *)
Move(c) ==
    LET req == op[c].req
    IN  /\ At(c, "move")
        /\ lock' = [lock EXCEPT ![op[c].src] = Free, ![op[c].dest] = Free]
        /\ \/ /\ Moved(c, req.task, op[c].src, op[c].dest)
              /\ Goes(c, IF task[req.caller].state = "waiting"
                         THEN WakeOp(req.caller, [at |-> "loop"]) ELSE [at |-> "loop"])
           \/ /\ task[req.task].cpu # op[c].src
              /\ Goes(c, [at |-> "first", req |-> req, dest |-> op[c].dest])
              /\ UNCHANGED <<task, nr_running, unnoticed>>
        /\ UNCHANGED <<curr, need_resched, migration_queue, overtaken>>

------------------------------------------------------------------------------
Next ==
    \E c \in Cpus :
        \/ StartWake(c) \/ Wake(c)
        \/ TryLock(c) \/ LockBusiest(c) \/ LockThis(c) \/ Pull(c)
        \/ Sleep(c) \/ Schedule(c) \/ Pick(c) \/ ContextSwitch(c) \/ BalanceTick(c)
        \/ Exit(c)
        \/ \E p \in Mortal : ReleaseTask(c, p)
        \/ \E p \in Targets, mask \in (SUBSET Cpus) \ {{}} : SetCpusAllowed(c, p, mask)
        \/ Down(c)
        \/ NextRequest(c) \/ ChooseDest(c) \/ LockFirst(c) \/ LockSecond(c) \/ Move(c)

Spec == Init /\ [][Next]_vars

------------------------------------------------------------------------------
(* PROPERTIES *)

TypeOK ==
    /\ task \in [Threads -> [state : {"running", "sleeping", "waiting",
                                      "zombie", "released"}, cpu : Cpus,
                             array : Cpus \cup {None}, cpus_allowed : SUBSET Cpus]]
    /\ nr_running \in [Cpus -> Nat]
    /\ curr \in [Cpus -> Threads \cup {Idle}]
    /\ need_resched \in [Cpus -> BOOLEAN]
    /\ lock \in [Cpus -> Cpus \cup {Free}]
    /\ overtaken \subseteq Tasks /\ unnoticed \subseteq Cpus

(* The tasks whose stack c uses. *)
OnProcessor(c) == {curr[c]} \cup IF At(c, "switch") THEN {op[c].prev} ELSE {}

(* A task is at one place: it is on no other queue than that of its cpu,   *)
(* runs on no other processor and never on two, and the lengths of the     *)
(* queues are right, whoever moves it and whatever lock was dropped.  A    *)
(* task that is released is at none.                                       *)
OnePlace ==
    /\ TypeOK
    /\ \A t \in Threads : task[t].array \in {None, task[t].cpu}
    /\ \A c \in Cpus :
          /\ curr[c] # Idle => task[curr[c]].cpu = c
          /\ nr_running[c] = Cardinality(Queued(c))
          /\ \A t \in Mortal : task[t].state = "released" =>
                t \notin OnProcessor(c) \cup Queued(c)

(* The locks that c waits for. *)
Awaits(c) ==
    CASE op[c].at \in {"spin", "busiest"} -> {op[c].rq}
      [] op[c].at = "this" -> {c}
      [] op[c].at = "second" -> {Second(c)}
      [] OTHER -> {}

(* "lock acquire operations must be ordered by ascending &runqueue" (lines *)
(* 132-134): no processors wait for each other in a circle, and none waits *)
(* for itself.                                                             *)
NoDeadlock ==
    \A S \in (SUBSET Cpus) \ {{}} : \E c \in S : \A a \in Awaits(c) : lock[a] \notin S

(* A task is on a processor where it may not run only while a request to   *)
(* move it is in a migration queue or in the migration thread's hands.     *)
(* Excepted: a second set_cpus_allowed() for the task came after line 1899 *)
(* had chosen the destination.                                             *)
AffinityKept ==
    \A t \in Tasks \ overtaken :
        task[t].cpu \notin task[t].cpus_allowed =>
            \E c \in Cpus : \E r \in Requests(c) : r.task = t

(* A request does not wait for a migration thread that sleeps, nor a task  *)
(* that can run for an idle processor that does not know of it: what will  *)
(* wake the one, or reschedule the other, is under way.  Excepted: a task  *)
(* moved by a migration thread, after which nothing reschedules.           *)
NobodyForgotten ==
    \A c \in Cpus :
        /\ migration_queue[c] # << >> =>
              \/ task[Migration(c)].state = "running" 
              \/ op[c].at \in {"dest", "first", "second", "move", "loop"}
              \/ At(c, "wake") /\ op[c].then = [at |-> "loop"]
              \/ \E d \in Cpus : At(d, "wake") /\ op[d].task = Migration(c)
        /\ At(c, "run") /\ curr[c] = Idle /\ Queued(c) # {} =>
              need_resched[c] \/ c \in unnoticed
==============================================================================
