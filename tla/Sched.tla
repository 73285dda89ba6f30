--------------------------------- MODULE Sched ---------------------------------
(***************************************************************************)
(* The O(1) scheduler of HW2 (kernel/sched.c) on one processor, with the   *)
(* policy SCHED_SHORT that HW2 adds: a third priority array, short_pr,     *)
(* between the real-time levels and those of SCHED_OTHER.                  *)
(*                                                                         *)
(* The kernel is not preempted: a system call of the current task is one   *)
(* step, timer ticks and wake-ups come between any two steps, and a switch *)
(* happens in schedule(), which the current task calls when it has to wait *)
(* or when it leaves the kernel with need_resched set.                     *)
(*                                                                         *)
(* What depends on measured times is a choice of the model: the bonus of   *)
(* effective_prio(), and TASK_INTERACTIVE and EXPIRED_STARVING at the end  *)
(* of a time slice.                                                        *)
(***************************************************************************)
EXTENDS Integers, Sequences, SequencesExt, FiniteSetsExt

CONSTANTS Tasks, FirstTask,
          Idle,
          MAX_RT_PRIO, MAX_PRIO,
          Asked,            \* real-time policies that callers ask for
          ShortPrios,       \* short_prio values that callers ask for
          RequestedTicks,   \* requested_time, in ticks
          TimeSlice,        \* TASK_TIMESLICE, the same for every nice level
          MaxTimeSlice,     \* MAX_TIMESLICE
          Nices,            \* static priorities that callers ask for
          MaxBonus,         \* 5 in the code
          ShortPenalty      \* 7 in the code

ASSUME TasksAssumption == FirstTask \in Tasks /\ Idle \notin Tasks
ASSUME FiniteAssumption == IsFiniteSet(Tasks)
ASSUME PrioAssumption == /\ MAX_RT_PRIO \in Nat \ {0} /\ MAX_PRIO \in Nat
                         /\ MAX_RT_PRIO < MAX_PRIO
ASSUME ShortAssumption == /\ ShortPrios \subseteq 0 .. MAX_PRIO - 1
                          /\ RequestedTicks \subseteq Nat \ {0}
ASSUME AskedAssumption == Asked \subseteq {"FIFO", "RR"}
ASSUME NicesAssumption == Nices \subseteq MAX_RT_PRIO .. MAX_PRIO - 1
ASSUME SliceAssumption == /\ TimeSlice \in Nat \ {0} /\ MaxTimeSlice \in Nat
                          /\ TimeSlice <= MaxTimeSlice
ASSUME BonusAssumption == MaxBonus \in Nat /\ ShortPenalty \in Nat

VARIABLES task,            \* the task_struct of each slot
          rq,              \* the runqueue
          curr,            \* rq->curr
          need_resched,    \* of the current task
          calling,         \* the current task is on its way into schedule()
          excused          \* history: a change of priorities without a
                           \* resched since the last schedule()

vars == <<task, rq, curr, need_resched, calling, excused>>

None == -1
Short == 2                       \* index of short_pr in rq->arrays
Levels == 0 .. MAX_PRIO - 1
NormalPrios == MAX_RT_PRIO .. MAX_PRIO - 1
RtPrios == 0 .. MAX_RT_PRIO - 2    \* MAX_USER_RT_PRIO-1 - rt_priority
Policies == {"FIFO", "RR", "OTHER", "SHORT"}

TypeOK ==
    /\ task \in [Tasks -> [state : {"free", "running", "sleeping", "zombie"},
                           policy : Policies, prio : Levels,
                           static_prio : NormalPrios, short_prio : Levels,
                           time_left : Nat, time_slice : 1 .. MaxTimeSlice,
                           first_time_slice : BOOLEAN,
                           array : {None, 0, 1, Short}]]
    /\ rq \in [active : {0, 1}, expired : {0, 1}, nr_running : Nat,
               arrays : [{0, 1, Short} -> [nr_active : Nat,
                                           bitmap : SUBSET Levels,
                                           queue : [Levels -> Seq(Tasks)]]]]
    /\ rq.active # rq.expired
    /\ curr \in Tasks \cup {Idle}
    /\ need_resched \in BOOLEAN
    /\ calling \in BOOLEAN
    /\ excused \in {"no", "nice", "policy"}

rt_task(p) == p.policy # "SHORT" /\ p.prio < MAX_RT_PRIO

(* Where a task is queued: its level in its array. *)
Level(p) == IF p.policy = "SHORT" THEN p.short_prio ELSE p.prio

------------------------------------------------------------------------------
(* The functions of sched.c, on S = [task, rq]. *)

Here == [task |-> task, rq |-> rq]

(* list_del() takes the task out of the list that it is in; the bitmap is  *)
(* looked after at the level that the task has now.                        *)
dequeue_task(S, t, a) ==
    LET level == Level(S.task[t])
        queue == [k \in Levels |-> RemoveFirst(S.rq.arrays[a].queue[k], t)]
    IN  [S EXCEPT !.rq.arrays[a] =
           [nr_active |-> @.nr_active - 1,
            queue |-> queue,
            bitmap |-> IF queue[level] = << >> THEN @.bitmap \ {level}
                                               ELSE @.bitmap]]

enqueue_task(S, t, a) ==
    LET level == Level(S.task[t])
        queue == [S.rq.arrays[a].queue EXCEPT ![level] = Append(@, t)]
    IN  [S EXCEPT !.task[t].array = a,
                  !.rq.arrays[a] =
           [nr_active |-> @.nr_active + 1,
            queue |-> queue,
            bitmap |-> @.bitmap \cup {level}]]

(* The values of effective_prio() for a task that is not SCHED_SHORT. *)
EffectivePrios(static_prio) ==
    {Max({MAX_RT_PRIO, Min({MAX_PRIO - 1, static_prio - bonus})}) :
        bonus \in -MaxBonus .. MaxBonus}

ArrayFor(S, t) ==
    IF S.task[t].policy = "SHORT" THEN Short ELSE S.rq.active

(* e is the effective priority of a task that has slept.  For one that has *)
(* not, e is its present priority.                                         *)
activate_task(S, t, e) ==
    LET T == IF rt_task(S.task[t]) \/ S.task[t].policy = "SHORT" THEN S
             ELSE [S EXCEPT !.task[t].prio = e]
    IN  [enqueue_task(T, t, ArrayFor(S, t)) EXCEPT !.rq.nr_running = @ + 1]

PriosOnWakeup(t) == {task[t].prio} \cup EffectivePrios(task[t].static_prio)

deactivate_task(S, t) ==
    [dequeue_task(S, t, S.task[t].array) EXCEPT !.rq.nr_running = @ - 1,
                                                !.task[t].array = None]

Becomes(S) == task' = S.task /\ rq' = S.rq

------------------------------------------------------------------------------
Fresh(state) == [state |-> state, policy |-> "OTHER", prio |-> MAX_RT_PRIO,
                 static_prio |-> MAX_RT_PRIO, short_prio |-> 0,
                 time_left |-> 0, time_slice |-> TimeSlice,
                 first_time_slice |-> FALSE, array |-> None]

EmptyArray == [nr_active |-> 0, bitmap |-> {}, queue |-> [k \in Levels |-> << >>]]

(* sched_init(), and the first task is running. *)
Init ==
    /\ LET boot == [task |-> [t \in Tasks |-> Fresh(IF t = FirstTask THEN "running"
                                                    ELSE "free")],
                    rq |-> [active |-> 0, expired |-> 1, nr_running |-> 0,
                            arrays |-> [a \in {0, 1, Short} |-> EmptyArray]]]
           S == activate_task(boot, FirstTask, MAX_RT_PRIO)
       IN  task = S.task /\ rq = S.rq
    /\ curr = FirstTask
    /\ need_resched = FALSE
    /\ calling = FALSE
    /\ excused = "no"

(* The current task, which is in the kernel or enters it. *)
InKernel == curr # Idle /\ ~calling

------------------------------------------------------------------------------
(* schedule() *)

FirstBit(S, a) == Min(S.rq.arrays[a].bitmap \cup {MAX_PRIO})
Head1(S, a, level) == Head(S.rq.arrays[a].queue[level])

(* Lines 896-905 *)
Switched(S) ==
    IF S.rq.arrays[S.rq.active].nr_active = 0
    THEN [S EXCEPT !.rq.active = S.rq.expired, !.rq.expired = S.rq.active]
    ELSE S

(* MUTANT: SCHED_SHORT comes after every task of the active array. *)
NextShortLast(S) ==
    LET idx == FirstBit(S, S.rq.active)
        idx_short == FirstBit(S, Short)
    IN  IF idx = MAX_PRIO THEN Head1(S, Short, idx_short)
                          ELSE Head1(S, S.rq.active, idx)

(* Lines 908-921 *)
NextTask(S) ==
    LET idx == FirstBit(S, S.rq.active)
        idx_short == FirstBit(S, Short)
    IN  IF idx >= MAX_RT_PRIO /\ idx_short < MAX_PRIO
        THEN Head1(S, Short, idx_short)
        ELSE Head1(S, S.rq.active, idx)

(* Lines 870-880: a task that waits leaves the runqueue, unless a signal   *)
(* is pending.                                                             *)
Leaves(S, signal) ==
    IF curr = Idle \/ S.task[curr].state = "running" THEN S
    ELSE IF S.task[curr].state = "sleeping" /\ signal
         THEN [S EXCEPT !.task[curr].state = "running"]
    ELSE deactivate_task(S, curr)

Schedule ==
    /\ calling \/ need_resched
    /\ \E signal \in BOOLEAN :
          LET left == Leaves(Here, signal)
              S == Switched(left)
          IN  IF left.rq.nr_running = 0
              THEN Becomes(left) /\ curr' = Idle
              ELSE Becomes(S) /\ curr' = NextTask(S)
    /\ need_resched' = FALSE
    /\ calling' = FALSE
    /\ excused' = "no"

------------------------------------------------------------------------------
(* scheduler_tick() of task t: what it makes of S, and whether it sets     *)
(* need_resched.  e is effective_prio() and stays says that the task is    *)
(* interactive and the expired tasks do not starve.                        *)

Ticked(S, resched) == [sys |-> S, resched |-> resched]

NewSlice(S, t) == [S EXCEPT !.task[t].time_slice = TimeSlice,
                            !.task[t].first_time_slice = FALSE]

TickRt(S, t) ==
    IF S.task[t].policy # "RR" THEN Ticked(S, FALSE)
    ELSE IF S.task[t].time_slice > 1
         THEN Ticked([S EXCEPT !.task[t].time_slice = @ - 1], FALSE)
    ELSE Ticked(enqueue_task(dequeue_task(NewSlice(S, t), t, S.rq.active),
                             t, S.rq.active), TRUE)

TickOther(S, t, e, stays) ==
    IF S.task[t].time_slice > 1
    THEN Ticked([S EXCEPT !.task[t].time_slice = @ - 1], FALSE)
    ELSE LET out == dequeue_task(S, t, S.rq.active)
             new == NewSlice([out EXCEPT !.task[t].prio = e], t)
         IN  Ticked(enqueue_task(new, t, IF stays THEN S.rq.active
                                                  ELSE S.rq.expired), TRUE)

(* MUTANT: the policy is changed before the task is taken out of the queue.*)
ExpiredTooEarly(S, t) ==
    dequeue_task([S EXCEPT !.task[t].policy = "OTHER"], t, Short)

(* Lines 827-828 *)
ShortExpired(S, t) ==
    [dequeue_task(S, t, Short) EXCEPT !.task[t].policy = "OTHER"]

(* A SCHED_SHORT task that has used up its time becomes SCHED_OTHER. *)
TickShort(S, t, e) ==
    IF S.task[t].time_left > 1
    THEN Ticked([S EXCEPT !.task[t].time_left = @ - 1], FALSE)
    ELSE LET out == [ShortExpired(S, t) EXCEPT
                       !.task[t].time_left = 0,
                       !.task[t].short_prio = 0,   \* not read from here on
                       !.task[t].static_prio =
                           IF @ + ShortPenalty < MAX_PRIO - 1
                           THEN @ + ShortPenalty ELSE MAX_PRIO - 1,
                       !.task[t].prio = e]
         IN  Ticked(enqueue_task(NewSlice(out, t), t, S.rq.active), TRUE)

scheduler_tick(S, t, e, stays) ==
    IF S.task[t].array \notin {S.rq.active, Short} THEN Ticked(S, TRUE)
    ELSE IF rt_task(S.task[t]) THEN TickRt(S, t)
    ELSE IF S.task[t].policy = "SHORT" THEN TickShort(S, t, e)
    ELSE TickOther(S, t, e, stays)

(* The static priority that effective_prio() sees in a tick. *)
StaticInTick(p) ==
    IF p.policy # "SHORT" THEN p.static_prio
    ELSE Min({p.static_prio + ShortPenalty, MAX_PRIO - 1})

Tick ==
    /\ curr # Idle
    /\ \E e \in EffectivePrios(StaticInTick(task[curr])), stays \in BOOLEAN :
          LET after == scheduler_tick(Here, curr, e, stays)
          IN  /\ Becomes(after.sys)
              /\ need_resched' = (need_resched \/ after.resched)
    /\ UNCHANGED <<curr, calling, excused>>

------------------------------------------------------------------------------
(* try_to_wake_up() *)

(* MUTANT: a short task does not preempt a normal one. *)
PreemptsByPrio(p, running) == p.prio < running.prio

(* Lines 402-407 *)
Preempts(p, running) ==
    \/ p.policy = "SHORT" /\ running.policy = "OTHER"
    \/ /\ p.policy = "SHORT" /\ running.policy = "SHORT"
       /\ p.short_prio < running.short_prio
    \/ rt_task(p) /\ running.policy = "SHORT"
    \/ p.prio < running.prio

IdleTask == [policy |-> "OTHER", prio |-> MAX_PRIO]
Running == IF curr = Idle THEN IdleTask ELSE task[curr]

(* An interrupt, or the current task, wakes t.  A task that has not left   *)
(* the runqueue yet is only made running again.                            *)
Wake(t) ==
    /\ task[t].state = "sleeping"
    /\ \E e \in PriosOnWakeup(t) :
          LET S == [Here EXCEPT !.task[t].state = "running"]
              T == activate_task(S, t, e)
          IN  IF task[t].array # None
              THEN Becomes(S) /\ UNCHANGED need_resched
              ELSE /\ Becomes(T)
                   /\ need_resched' = (need_resched \/ Preempts(T.task[t], Running))
    /\ UNCHANGED <<curr, calling, excused>>

(* The current task waits for something: it is not running any more, and   *)
(* calls schedule().                                                       *)
Sleep ==
    /\ InKernel
    /\ task' = [task EXCEPT ![curr].state = "sleeping"]
    /\ calling' = TRUE
    /\ UNCHANGED <<rq, curr, need_resched, excused>>

(* do_exit() *)
ExitTask ==
    /\ InKernel /\ curr # FirstTask
    /\ task' = [task EXCEPT ![curr].state = "zombie"]
    /\ calling' = TRUE
    /\ UNCHANGED <<rq, curr, need_resched, excused>>

(* release_task() of a zombie by the current task: sched_exit() gives the  *)
(* rest of a first time slice back.                                        *)
Reap(t) ==
    /\ InKernel
    /\ task[t].state = "zombie" /\ task[t].array = None
    /\ LET back == IF task[t].first_time_slice /\ task[t].policy # "SHORT"
                   THEN task[t].time_slice ELSE 0
       IN  task' = [task EXCEPT ![t] = Fresh("free"),
                                ![curr].time_slice = Min({@ + back, MaxTimeSlice})]
    /\ UNCHANGED <<rq, curr, need_resched, calling, excused>>

(* Lines 597-600 of fork.c *)
MayFork(p) == p.policy # "SHORT"

(* do_fork(): the child is a copy, on no queue; the time slice is shared;  *)
(* a parent that is left without one expires at once.  The parent of a     *)
(* vfork waits for the child.                                              *)
Fork(c, vfork) ==
    LET p == task[curr]
        half == p.time_slice \div 2
        child == [p EXCEPT !.array = None, !.first_time_slice = TRUE,
                           !.time_slice = (@ + 1) \div 2]
        S == [Here EXCEPT !.task[c] = child,
                          !.task[curr].time_slice = IF half = 0 THEN 1 ELSE half]
    IN  /\ InKernel /\ task[c].state = "free"
        /\ MayFork(p)
        /\ \E e \in EffectivePrios(StaticInTick(p)), stays \in BOOLEAN,
              d \in EffectivePrios(p.static_prio) :
              LET after == IF half = 0 THEN scheduler_tick(S, curr, e, stays)
                                       ELSE Ticked(S, FALSE)
                  T == activate_task(after.sys, c, d)
              IN  /\ Becomes(IF vfork
                             THEN [T EXCEPT !.task[curr].state = "sleeping"]
                             ELSE T)
                  /\ need_resched' = (need_resched \/ after.resched \/ ~vfork)
        /\ calling' = vfork
        /\ UNCHANGED <<curr, excused>>

(* sys_sched_yield(), up to its call of schedule(). *)
Yield ==
    LET p == task[curr]
        a == p.array
        queue == [k \in Levels |-> RemoveFirst(rq.arrays[a].queue[k], curr)]
        same == queue[Level(p)]
        bits == rq.arrays[a].bitmap \ {p.prio}
        i == Min(bits \cup {MAX_PRIO})
        down == IF i = MAX_PRIO \/ i <= p.prio THEN p.prio ELSE i
        (* list_add(x, queue.next): behind the first of the list *)
        behind(q) == IF q = << >> THEN <<curr>> ELSE InsertAt(q, 2, curr)
        requeued(k, q, bitmap) ==
            [rq EXCEPT !.arrays[a] = [nr_active |-> rq.arrays[a].nr_active,
                                      queue |-> [queue EXCEPT ![k] = q],
                                      bitmap |-> bitmap]]
    IN  /\ InKernel
        /\ \/ /\ rt_task(p) \/ p.policy = "SHORT"
              /\ rq' = requeued(Level(p), Append(same, curr), rq.arrays[a].bitmap)
              /\ UNCHANGED task
           \/ /\ p.policy = "OTHER" /\ ~rt_task(p) /\ same # << >>
              /\ rq' = requeued(p.prio, behind(same), rq.arrays[a].bitmap)
              /\ UNCHANGED task
           \/ /\ p.policy = "OTHER" /\ ~rt_task(p) /\ same = << >>
              /\ rq' = requeued(down, behind(queue[down]), bits \cup {down})
              /\ task' = [task EXCEPT ![curr].prio = down]
        /\ calling' = TRUE
        /\ UNCHANGED <<curr, need_resched, excused>>

------------------------------------------------------------------------------
Alive == {t \in Tasks : task[t].state # "free"}

(* MUTANT: the policy of a short task can be set. *)
AnyPolicyMaySet(p, policy) == policy = "SHORT" => p.policy = "OTHER"

(* Lines 1249-1252 *)
MaySetPolicy(p, policy) ==
    p.policy # "SHORT" /\ (policy = "SHORT" => p.policy = "OTHER")

(* setscheduler(), for arguments in range and a caller with the rights;    *)
(* otherwise nothing changes.  level is the priority that the arguments    *)
(* give.                                                                   *)
SetScheduler(t, policy, level, ticks, e) ==
    LET p == task[t]
        S == IF p.array # None THEN deactivate_task(Here, t) ELSE Here
        T == [S EXCEPT !.task[t].policy = policy,
                !.task[t].prio = CASE policy \in {"FIFO", "RR"} -> level
                                   [] policy = "OTHER" -> p.static_prio
                                   [] policy = "SHORT" -> p.prio,
                !.task[t].short_prio = IF policy = "SHORT" THEN level ELSE @,
                !.task[t].time_left = IF policy = "SHORT" THEN ticks ELSE @]
    IN  /\ InKernel /\ MaySetPolicy(p, policy)
        /\ Becomes(IF p.array # None THEN activate_task(T, t, e) ELSE T)
        /\ need_resched' = (need_resched \/ policy = "SHORT")
        /\ excused' = IF policy # "SHORT" /\ p.array # None THEN "policy"
                      ELSE excused
        /\ UNCHANGED <<curr, calling>>

SetPolicy(t) ==
    \/ \E policy \in Asked \cap {"FIFO", "RR"}, level \in RtPrios :
          SetScheduler(t, policy, level, 0, 0)
    \/ \E e \in {task[t].static_prio} \cup EffectivePrios(task[t].static_prio) :
          SetScheduler(t, "OTHER", 0, 0, e)
    \/ \E level \in ShortPrios, ticks \in RequestedTicks :
          SetScheduler(t, "SHORT", level, ticks, 0)

(* set_user_nice(), from sys_nice() and sys_setpriority(): nothing for a   *)
(* short task, only static_prio for a real-time one.  The test of line     *)
(* 1131 compares the new value with itself, so that only a change of the   *)
(* current task's own value reschedules.                                   *)
SetUserNice(t, new) ==
    LET p == task[t]
        S == IF p.array # None THEN dequeue_task(Here, t, p.array) ELSE Here
        T == [S EXCEPT !.task[t].static_prio = new, !.task[t].prio = new]
    IN  /\ InKernel
        /\ p.policy # "SHORT" /\ new # p.static_prio
        /\ IF rt_task(p)
           THEN /\ task' = [task EXCEPT ![t].static_prio = new]
                /\ UNCHANGED <<rq, need_resched, excused>>
           ELSE /\ Becomes(IF p.array # None THEN enqueue_task(T, t, p.array) ELSE T)
                /\ need_resched' = (need_resched \/ t = curr)
                /\ excused' = IF p.array # None /\ new < p.prio /\ t # curr
                              THEN "nice" ELSE excused
        /\ UNCHANGED <<curr, calling>>

------------------------------------------------------------------------------
(* The queries about SHORT processes (lines 2037-2115). *)

(* sys_is_short() *)
is_short(t) == task[t].policy = "SHORT"

(* MUTANT: the processes of the same level are not looked at. *)
WalkedAbove(t) == 0 .. task[t].short_prio - 1

(* The levels that the walk of lines 2103-2112 visits. *)
Walked(t) == 0 .. task[t].short_prio

(* sys_short_place_in_queue(): the walk ends at the process, or after the  *)
(* queue of its level when it is on none.  The caller itself is not looked *)
(* for.                                                                    *)
short_place_in_queue(t) ==
    LET queue(k) == rq.arrays[Short].queue[k]
        seen(k) == IF Contains(queue(k), t)
                   THEN SelectInSeq(queue(k), LAMBDA u : u = t) - 1
                   ELSE Len(queue(k))
    IN  IF t = curr THEN 0 ELSE MapThenSumSet(seen, Walked(t))

Next ==
    \/ Schedule \/ Tick \/ Sleep \/ ExitTask \/ Yield
    \/ \E t \in Tasks : Wake(t) \/ Reap(t)
    \/ \E c \in Tasks, vfork \in BOOLEAN : Fork(c, vfork)
    \/ \E t \in Alive : SetPolicy(t)
    \/ \E t \in Alive, new \in Nices : SetUserNice(t, new)

Spec == Init /\ [][Next]_vars

------------------------------------------------------------------------------
(* PROPERTIES *)

Queued(a) == {t \in Tasks : task[t].array = a}
SumOfLengths(a) == MapThenSumSet(LAMBDA k : Len(rq.arrays[a].queue[k]), Levels)
(* Bitmaps and counters agree with the queues. *)
QueuesCounted ==
    /\ \A a \in {0, 1, Short} :
          /\ rq.arrays[a].nr_active = Cardinality(Queued(a))
          /\ \A k \in Levels :
                /\ k \in rq.arrays[a].bitmap <=> rq.arrays[a].queue[k] # << >>
                /\ ToSet(rq.arrays[a].queue[k])
                      = {t \in Queued(a) : Level(task[t]) = k}
          /\ SumOfLengths(a) = Cardinality(Queued(a))
    /\ rq.nr_running = Cardinality({t \in Tasks : task[t].array # None})

(* Where a task may wait. *)
ArraysByPolicy ==
    \A t \in Tasks :
        /\ task[t].state = "running" => task[t].array # None
        /\ task[t].array # None =>
              /\ task[t].policy = "SHORT" <=> task[t].array = Short
              /\ rt_task(task[t]) => task[t].array = rq.active
              /\ task[t].state # "running" => t = curr

(* A task is on exactly the queue that its own fields name, and bitmaps    *)
(* and counters agree with the queues: what pick, dequeue and yield take   *)
(* for granted.  Runnable tasks are queued, and the array follows from the *)
(* policy: short tasks, and they alone, in short_pr; real-time tasks never *)
(* wait among the expired.                                                 *)
RunqueueConsistent == TypeOK /\ QueuesCounted /\ ArraysByPolicy

(* Who should run: real-time tasks first, then short ones, then normal     *)
(* ones that have not expired, and each group by priority.                 *)
Class(t) == CASE t = Idle -> 4
              [] t # Idle /\ rt_task(task[t]) -> 0
              [] t # Idle /\ task[t].policy = "SHORT" -> 1
              [] t # Idle /\ ~rt_task(task[t]) /\ task[t].policy # "SHORT" ->
                    IF task[t].array = rq.active THEN 2 ELSE 3
Before(t, u) == \/ Class(t) < Class(u)
                \/ /\ Class(t) = Class(u) /\ t # Idle
                   /\ Level(task[t]) < Level(task[u])
CurrIsBest == \A t \in Tasks : task[t].array # None => ~Before(t, curr)

(* A pending call of schedule() is over when it has switched to a task     *)
(* than which none has a better claim.                                     *)
PicksBest == (need_resched \/ calling) /\ ~need_resched' /\ ~calling' => CurrIsBest'

(* No better task waits while the current one returns to user mode: a      *)
(* reschedule is pending.  That holds but for the changes of priority that *)
(* setscheduler() and set_user_nice() make without one.  And schedule()    *)
(* switches to the best, also after one of those.                          *)
PreemptionPending ==
    [][/\ excused' = "no" /\ ~calling' /\ ~need_resched' => CurrIsBest'
       /\ PicksBest]_vars

(* Only a normal task that exists becomes SCHED_SHORT: by setscheduler(),  *)
(* never by fork.  It never gets more time, and is given another policy    *)
(* only when it has used its time up.                                      *)
ShortIsOneWay ==
    [][\A t \in Tasks :
          /\ is_short(t) =>
                \/ /\ task'[t].policy = "SHORT"
                   /\ task'[t].time_left <= task[t].time_left
                \/ /\ task'[t].policy = "OTHER" /\ task'[t].time_left = 0
                   /\ t = curr \/ task[t].state = "zombie"
          /\ is_short(t)' /\ ~is_short(t) =>
                task[t].policy = "OTHER" /\ task[t].state # "free"]_vars

(* short_place_in_queue() answers how many short processes are picked      *)
(* before the one asked for, if none comes or goes: those of smaller       *)
(* short_prio, and those of its own level that were queued before it (all  *)
(* of them for one that sleeps, which will be queued last).  The answer 0  *)
(* that the caller gets about itself is of that kind too.                  *)
AheadOf(t) ==
    {u \in Queued(Short) \ {t} :
        \/ Level(task[u]) < Level(task[t])
        \/ /\ Level(task[u]) = Level(task[t])
           /\ task[t].array = Short =>
                 LET q == rq.arrays[Short].queue[Level(task[t])]
                 IN  \E i, j \in DOMAIN q : i < j /\ q[i] = u /\ q[j] = t}

PlaceIsExact ==
    \A t \in Tasks :
        is_short(t) /\ (t = curr => ~calling /\ ~need_resched) =>
            short_place_in_queue(t) = Cardinality(AheadOf(t))

==============================================================================
