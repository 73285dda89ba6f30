--------------------------- MODULE PCQueueProofs ---------------------------
(***************************************************************************)
(* Proofs about PCQueue for every set of producers, consumers and items    *)
(* and every QueueBound: IInv is inductive, so the safety invariants hold, *)
(* and every step of the queue is a step of FifoQueue or changes nothing   *)
(* there.  One lemma per action; in each, one step per part of IInv.       *)
(***************************************************************************)
EXTENDS PCQueue, TLAPS

(* A producer outside push() neither holds the mutex nor sleeps, so
   starting a call disturbs only the types. *)
LEMMA PushCallKeeps ==
    ASSUME ThreadsAssumption, ItemsAssumption, IInv,
           NEW p \in Producers, NEW item \in Items, PushCall(p, item)
    PROVE  IInv'
<1> USE DEF ThreadsAssumption, ItemsAssumption,
        IInv, PushCall, Goto, vars, counters, sleepers, locals,
        Threads, ProducerPC, ConsumerPC, Holding
<1>1. TypeOK'
  BY DEF TypeOK, PopNonEmpty
<1>2. LockOwner'
  BY DEF LockOwner, TypeOK
<1>3. ExactCounters'
  BY DEF ExactCounters, LockOwner, TypeOK
<1>4. ProducerNeverSleeps'
  BY DEF ProducerNeverSleeps, TypeOK
<1>5. PopNonEmpty'
  BY DEF PopNonEmpty, TypeOK, LockOwner
<1>6. NoLostWakeup'
  BY DEF NoLostWakeup, TypeOK, LockOwner
<1>7. QED
  BY <1>1, <1>2, <1>3, <1>4, <1>5, <1>6

(* The mutex was free, so all three counters were 0; producers_waiting
   becomes 1 with its new owner. *)
LEMMA ProducersLockKeeps ==
    ASSUME ThreadsAssumption, ItemsAssumption, IInv,
           NEW p \in Producers, ProducersLock(p)
    PROVE  IInv'
<1> USE DEF ThreadsAssumption, ItemsAssumption,
        IInv, ProducersLock, Goto, vars, counters, sleepers, locals,
        Threads, ProducerPC, ConsumerPC, Holding, Lock
<1>1. TypeOK'
  BY DEF TypeOK, PopNonEmpty
<1>2. LockOwner'
  BY DEF LockOwner, TypeOK
<1>3. ExactCounters'
  BY DEF ExactCounters, LockOwner, TypeOK
<1>4. ProducerNeverSleeps'
  BY DEF ProducerNeverSleeps, TypeOK
<1>5. PopNonEmpty'
  BY DEF PopNonEmpty, TypeOK, LockOwner
<1>6. NoLostWakeup'
  BY DEF NoLostWakeup, TypeOK, LockOwner
<1>7. QED
  BY <1>1, <1>2, <1>3, <1>4, <1>5, <1>6

(* The producer at line 30 owns the mutex, so nobody is inside and the
   wait of line 31 is not reached. *)
LEMMA ProducersTestKeeps ==
    ASSUME ThreadsAssumption, ItemsAssumption, IInv,
           NEW p \in Producers, ProducersTest(p)
    PROVE  IInv'
<1> USE DEF ThreadsAssumption, ItemsAssumption,
        IInv, ProducersTest, Goto, vars, counters, sleepers, locals,
        Threads, ProducerPC, ConsumerPC, Holding, Unlock
<1>1. ~ProducerBlocked /\ producers_waiting = 1
  BY DEF ProducerBlocked, ExactCounters, LockOwner, TypeOK
<1>2. TypeOK'
  BY <1>1 DEF TypeOK
<1>3. LockOwner'
  BY <1>1 DEF LockOwner, TypeOK
<1>4. ExactCounters'
  BY <1>1 DEF ExactCounters, LockOwner, TypeOK
<1>5. ProducerNeverSleeps'
  BY <1>1 DEF ProducerNeverSleeps, TypeOK
<1>6. PopNonEmpty'
  BY <1>1 DEF PopNonEmpty, TypeOK, LockOwner
<1>7. NoLostWakeup'
  BY <1>1 DEF NoLostWakeup, TypeOK, LockOwner
<1>8. QED
  BY <1>2, <1>3, <1>4, <1>5, <1>6, <1>7

(* The queue becomes non-empty while consumers may sleep; the producer is
   then at "p_out", about to broadcast. *)
LEMMA PushItemKeeps ==
    ASSUME ThreadsAssumption, ItemsAssumption, IInv,
           NEW p \in Producers, PushItem(p)
    PROVE  IInv'
<1> USE DEF ThreadsAssumption, ItemsAssumption,
        IInv, PushItem, Goto, vars, counters, sleepers, locals,
        Threads, ProducerPC, ConsumerPC, Holding
<1>1. TypeOK'
  BY DEF TypeOK, PopNonEmpty
<1>2. LockOwner'
  BY DEF LockOwner, TypeOK
<1>3. ExactCounters'
  BY DEF ExactCounters, LockOwner, TypeOK
<1>4. ProducerNeverSleeps'
  BY DEF ProducerNeverSleeps, TypeOK
<1>5. PopNonEmpty'
  BY DEF PopNonEmpty, TypeOK, LockOwner
<1>6. NoLostWakeup'
  BY DEF NoLostWakeup, TypeOK, LockOwner
<1>7. QED
  BY <1>1, <1>2, <1>3, <1>4, <1>5, <1>6

(* producers_inside was 1, so the broadcast of line 41 happens and nobody
   is left asleep over the item. *)
LEMMA ProducersUnlockKeeps ==
    ASSUME ThreadsAssumption, ItemsAssumption, IInv,
           NEW p \in Producers, ProducersUnlock(p)
    PROVE  IInv'
<1> USE DEF ThreadsAssumption, ItemsAssumption,
        IInv, ProducersUnlock, Goto, vars, counters, sleepers, locals,
        Threads, ProducerPC, ConsumerPC, Holding, Unlock, Signal,
        Broadcast
<1>1. producers_inside = 1
  BY DEF ExactCounters, TypeOK
<1>2. TypeOK'
  BY <1>1 DEF TypeOK, PopNonEmpty
<1>3. LockOwner'
  BY DEF LockOwner, TypeOK
<1>4. ExactCounters'
  BY DEF ExactCounters, LockOwner, TypeOK
<1>5. ProducerNeverSleeps'
  BY DEF ProducerNeverSleeps, TypeOK
<1>6. PopNonEmpty'
  BY DEF PopNonEmpty, TypeOK, LockOwner
<1>7. NoLostWakeup'
  BY <1>1 DEF NoLostWakeup, TypeOK, LockOwner
<1>8. QED
  BY <1>2, <1>3, <1>4, <1>5, <1>6, <1>7

(* A consumer outside pop() holds nothing. *)
LEMMA PopCallKeeps ==
    ASSUME ThreadsAssumption, ItemsAssumption, IInv,
           NEW c \in Consumers, PopCall(c)
    PROVE  IInv'
<1> USE DEF ThreadsAssumption, ItemsAssumption,
        IInv, PopCall, Goto, vars, counters, sleepers, locals,
        Threads, ProducerPC, ConsumerPC, Holding
<1>1. TypeOK'
  BY DEF TypeOK, PopNonEmpty
<1>2. LockOwner'
  BY DEF LockOwner, TypeOK
<1>3. ExactCounters'
  BY DEF ExactCounters, LockOwner, TypeOK
<1>4. ProducerNeverSleeps'
  BY DEF ProducerNeverSleeps, TypeOK
<1>5. PopNonEmpty'
  BY DEF PopNonEmpty, TypeOK, LockOwner
<1>6. NoLostWakeup'
  BY DEF NoLostWakeup, TypeOK, LockOwner
<1>7. QED
  BY <1>1, <1>2, <1>3, <1>4, <1>5, <1>6

(* The mutex changes hands; the counters do not move. *)
LEMMA ConsumersLockKeeps ==
    ASSUME ThreadsAssumption, ItemsAssumption, IInv,
           NEW c \in Consumers, ConsumersLock(c)
    PROVE  IInv'
<1> USE DEF ThreadsAssumption, ItemsAssumption,
        IInv, ConsumersLock, Goto, vars, counters, sleepers, locals,
        Threads, ProducerPC, ConsumerPC, Holding, Lock
<1>1. TypeOK'
  BY DEF TypeOK, PopNonEmpty
<1>2. LockOwner'
  BY DEF LockOwner, TypeOK
<1>3. ExactCounters'
  BY DEF ExactCounters, LockOwner, TypeOK
<1>4. ProducerNeverSleeps'
  BY DEF ProducerNeverSleeps, TypeOK
<1>5. PopNonEmpty'
  BY DEF PopNonEmpty, TypeOK, LockOwner
<1>6. NoLostWakeup'
  BY DEF NoLostWakeup, TypeOK, LockOwner
<1>7. QED
  BY <1>1, <1>2, <1>3, <1>4, <1>5, <1>6

(* The consumer at line 48 owns the mutex, so only an empty queue can
   send it to sleep. *)
LEMMA ConsumersTestKeeps ==
    ASSUME ThreadsAssumption, ItemsAssumption, IInv,
           NEW c \in Consumers, ConsumersTest(c)
    PROVE  IInv'
<1> USE DEF ThreadsAssumption, ItemsAssumption,
        IInv, ConsumersTest, Goto, vars, counters, sleepers, locals,
        Threads, ProducerPC, ConsumerPC, Holding, Unlock
<1>1. ConsumerBlocked <=> items = <<>>
  BY DEF ConsumerBlocked, ExactCounters, LockOwner, TypeOK
<1>2. TypeOK'
  BY DEF TypeOK, PopNonEmpty
<1>3. LockOwner'
  BY DEF LockOwner, TypeOK
<1>4. ExactCounters'
  BY DEF ExactCounters, LockOwner, TypeOK
<1>5. ProducerNeverSleeps'
  BY DEF ProducerNeverSleeps, TypeOK
<1>6. PopNonEmpty'
  BY <1>1 DEF PopNonEmpty, TypeOK, LockOwner
<1>7. NoLostWakeup'
  BY <1>1 DEF NoLostWakeup, TypeOK, LockOwner
<1>8. QED
  BY <1>2, <1>3, <1>4, <1>5, <1>6, <1>7

(* The queue is not empty (PopNonEmpty), so front() is defined; removing
   an item wakes and strands nobody. *)
LEMMA PopItemKeeps ==
    ASSUME ThreadsAssumption, ItemsAssumption, IInv,
           NEW c \in Consumers, PopItem(c)
    PROVE  IInv'
<1> USE DEF ThreadsAssumption, ItemsAssumption,
        IInv, PopItem, Goto, vars, counters, sleepers, locals,
        Threads, ProducerPC, ConsumerPC, Holding
<1>1. TypeOK'
  BY DEF TypeOK, PopNonEmpty
<1>2. LockOwner'
  BY DEF LockOwner, TypeOK
<1>3. ExactCounters'
  BY DEF ExactCounters, LockOwner, TypeOK
<1>4. ProducerNeverSleeps'
  BY DEF ProducerNeverSleeps, TypeOK
<1>5. PopNonEmpty'
  BY DEF PopNonEmpty, TypeOK, LockOwner
<1>6. NoLostWakeup'
  BY DEF NoLostWakeup, TypeOK, LockOwner
<1>7. QED
  BY <1>1, <1>2, <1>3, <1>4, <1>5, <1>6

(* consumers_inside was 1 and becomes 0 as the mutex is released. *)
LEMMA ConsumersUnlockKeeps ==
    ASSUME ThreadsAssumption, ItemsAssumption, IInv,
           NEW c \in Consumers, ConsumersUnlock(c)
    PROVE  IInv'
<1> USE DEF ThreadsAssumption, ItemsAssumption,
        IInv, ConsumersUnlock, Goto, vars, counters, sleepers, locals,
        Threads, ProducerPC, ConsumerPC, Holding, ConsumersLeave,
        Unlock, Signal
<1>1. consumers_inside = 1
  BY DEF ExactCounters, TypeOK
<1>2. TypeOK'
  BY <1>1 DEF TypeOK, PopNonEmpty
<1>3. LockOwner'
  BY DEF LockOwner, TypeOK
<1>4. ExactCounters'
  BY DEF ExactCounters, LockOwner, TypeOK
<1>5. ProducerNeverSleeps'
  BY DEF ProducerNeverSleeps, TypeOK
<1>6. PopNonEmpty'
  BY DEF PopNonEmpty, TypeOK, LockOwner
<1>7. NoLostWakeup'
  BY DEF NoLostWakeup, TypeOK, LockOwner
<1>8. QED
  BY <1>2, <1>3, <1>4, <1>5, <1>6, <1>7

(* No producer waits, so the thread is a consumer and goes back to its
   test with the mutex. *)
LEMMA ReacquireKeeps ==
    ASSUME ThreadsAssumption, ItemsAssumption, IInv,
           NEW t \in Threads, Reacquire(t)
    PROVE  IInv'
<1> USE DEF ThreadsAssumption, ItemsAssumption,
        IInv, Reacquire, Goto, vars, counters, sleepers, locals,
        Threads, ProducerPC, ConsumerPC, Holding, Lock, Asleep
<1>1. t \in Consumers /\ pc[t] = "c_wait"
  BY DEF ProducerNeverSleeps, TypeOK
<1>2. TypeOK'
  BY <1>1 DEF TypeOK, PopNonEmpty
<1>3. LockOwner'
  BY <1>1 DEF LockOwner, TypeOK
<1>4. ExactCounters'
  BY <1>1 DEF ExactCounters, LockOwner, TypeOK
<1>5. ProducerNeverSleeps'
  BY DEF ProducerNeverSleeps, TypeOK
<1>6. PopNonEmpty'
  BY DEF PopNonEmpty, TypeOK, LockOwner
<1>7. NoLostWakeup'
  BY <1>1 DEF NoLostWakeup, TypeOK, LockOwner
<1>8. QED
  BY <1>2, <1>3, <1>4, <1>5, <1>6, <1>7

(* Leaving a condition variable early only makes approve_to_read smaller. *)
LEMMA SpuriousWakeupKeeps ==
    ASSUME ThreadsAssumption, ItemsAssumption, IInv,
           NEW t \in Threads, SpuriousWakeup(t)
    PROVE  IInv'
<1> USE DEF ThreadsAssumption, ItemsAssumption,
        IInv, SpuriousWakeup, Goto, vars, counters, sleepers, locals,
        Threads, ProducerPC, ConsumerPC, Holding, Asleep
<1>1. TypeOK'
  BY DEF TypeOK, PopNonEmpty
<1>2. LockOwner'
  BY DEF LockOwner, TypeOK
<1>3. ExactCounters'
  BY DEF ExactCounters, LockOwner, TypeOK
<1>4. ProducerNeverSleeps'
  BY DEF ProducerNeverSleeps, TypeOK
<1>5. PopNonEmpty'
  BY DEF PopNonEmpty, TypeOK, LockOwner
<1>6. NoLostWakeup'
  BY DEF NoLostWakeup, TypeOK, LockOwner
<1>7. QED
  BY <1>1, <1>2, <1>3, <1>4, <1>5, <1>6

------------------------------------------------------------------------------
LEMMA InitIInv ==
    ASSUME ThreadsAssumption, ItemsAssumption
    PROVE  Init => IInv
<1> SUFFICES ASSUME Init PROVE IInv
  OBVIOUS
<1> USE DEF ThreadsAssumption, Init, Threads, ProducerPC, ConsumerPC, Holding
<1>1. TypeOK
  BY DEF TypeOK
<1>2. LockOwner /\ ExactCounters
  BY DEF LockOwner, ExactCounters
<1>3. ProducerNeverSleeps /\ PopNonEmpty /\ NoLostWakeup
  BY DEF ProducerNeverSleeps, PopNonEmpty, NoLostWakeup
<1>4. QED
  BY <1>1, <1>2, <1>3 DEF IInv

LEMMA NextIInv ==
    ASSUME ThreadsAssumption, ItemsAssumption
    PROVE  IInv /\ [Next]_vars => IInv'
<1> SUFFICES ASSUME IInv, [Next]_vars PROVE IInv'
  OBVIOUS
<1>1. ASSUME NEW p \in Producers, NEW item \in Items, PushCall(p, item)
      PROVE  IInv'
  BY <1>1, PushCallKeeps
<1>2. ASSUME NEW p \in Producers, PushStep(p) PROVE IInv'
  BY <1>2, ProducersLockKeeps, ProducersTestKeeps, PushItemKeeps,
     ProducersUnlockKeeps DEF PushStep
<1>3. ASSUME NEW c \in Consumers, PopCall(c) \/ PopStep(c) PROVE IInv'
  BY <1>3, PopCallKeeps, ConsumersLockKeeps, ConsumersTestKeeps, PopItemKeeps,
     ConsumersUnlockKeeps DEF PopStep
<1>4. ASSUME NEW t \in Threads, Reacquire(t) \/ SpuriousWakeup(t)
      PROVE  IInv'
  BY <1>4, ReacquireKeeps, SpuriousWakeupKeeps
<1>5. CASE UNCHANGED vars
  BY <1>5 DEF vars, counters, sleepers, locals, IInv, TypeOK, LockOwner,
     ExactCounters, ProducerNeverSleeps, PopNonEmpty, NoLostWakeup
<1>6. QED
  BY <1>1, <1>2, <1>3, <1>4, <1>5 DEF Next

(* In every reachable state of every instance IInv holds.                  *)
THEOREM Invariance ==
    ASSUME ThreadsAssumption, ItemsAssumption
    PROVE  Spec => []IInv
<1>1. QED
  BY InitIInv, NextIInv, PTL DEF Spec

(* The variables of the queue keep their types; the counters never go      *)
(* below zero.                                                             *)
THEOREM TypeCorrect ==
    ASSUME ThreadsAssumption, ItemsAssumption
    PROVE  Spec => []TypeOK
<1>1. IInv => TypeOK
  BY DEF IInv
<1>2. QED
  BY <1>1, Invariance, PTL

(* front() is never called on an empty queue (PCQueue.hpp:82).             *)
THEOREM FrontIsDefined ==
    ASSUME ThreadsAssumption, ItemsAssumption
    PROVE  Spec => []PopNonEmpty
<1>1. IInv => PopNonEmpty
  BY DEF IInv
<1>2. QED
  BY <1>1, Invariance, PTL

(* No consumer is left asleep over an item (PCQueue.hpp:41, 59).           *)
THEOREM WakeupsSuffice ==
    ASSUME ThreadsAssumption, ItemsAssumption
    PROVE  Spec => []NoLostWakeup
<1>1. IInv => NoLostWakeup
  BY DEF IInv
<1>2. QED
  BY <1>1, Invariance, PTL

(* The condition wait of push() is dead code (PCQueue.hpp:30-32).          *)
THEOREM PushWaitsForMutexOnly ==
    ASSUME ThreadsAssumption, ItemsAssumption
    PROVE  Spec => []ProducerNeverSleeps
<1>1. IInv => ProducerNeverSleeps
  BY DEF IInv
<1>2. QED
  BY <1>1, Invariance, PTL

------------------------------------------------------------------------------
(* The steps that touch the std::queue are the abstract push and pop.      *)
LEMMA PushItemIsPush ==
    ASSUME IInv, NEW p \in Producers, PushItem(p)
    PROVE  Fifo!Push(arg[p]) /\ arg[p] \in Items
  BY DEF IInv, TypeOK, PushItem, locals, Fifo!Push

LEMMA PopItemIsPop ==
    ASSUME IInv, NEW c \in Consumers, PopItem(c)
    PROVE  Fifo!Pop(c)
  BY DEF IInv, PopNonEmpty, PopItem, Fifo!Pop

LEMMA StepRefines == IInv /\ [Next]_vars => [Fifo!Next]_(Fifo!vars)
<1> SUFFICES ASSUME IInv, [Next]_vars PROVE [Fifo!Next]_(Fifo!vars)
  OBVIOUS
<1>1. ASSUME NEW p \in Producers, PushItem(p) PROVE Fifo!Next
  BY <1>1, PushItemIsPush DEF Fifo!Next
<1>2. ASSUME NEW c \in Consumers, PopItem(c) PROVE Fifo!Next
  BY <1>2, PopItemIsPop DEF Fifo!Next
<1>3. ASSUME NEW p \in Producers, NEW item \in Items, PushCall(p, item)
      PROVE  UNCHANGED Fifo!vars
  BY <1>3 DEF PushCall, Fifo!vars
<1>4. ASSUME NEW p \in Producers,
             ProducersLock(p) \/ ProducersTest(p) \/ ProducersUnlock(p)
      PROVE  UNCHANGED Fifo!vars
  BY <1>4 DEF ProducersLock, ProducersTest, ProducersUnlock, locals, Fifo!vars
<1>5. ASSUME NEW c \in Consumers,
             \/ PopCall(c) \/ ConsumersLock(c)
             \/ ConsumersTest(c) \/ ConsumersUnlock(c)
      PROVE  UNCHANGED Fifo!vars
  BY <1>5 DEF PopCall, ConsumersLock, ConsumersTest, ConsumersUnlock, locals,
              Fifo!vars
<1>6. ASSUME NEW t \in Threads, Reacquire(t) \/ SpuriousWakeup(t)
      PROVE  UNCHANGED Fifo!vars
  BY <1>6 DEF Reacquire, SpuriousWakeup, locals, Fifo!vars
<1>7. CASE UNCHANGED vars
  BY <1>7 DEF vars, locals, Fifo!vars
<1>8. QED
  BY <1>1, <1>2, <1>3, <1>4, <1>5, <1>6, <1>7 DEF Next, PushStep, PopStep

(* PCQueue implements the abstract FIFO queue: push and pop are atomic and *)
(* in first-in first-out order.                                            *)
THEOREM ImplementsFifo ==
    ASSUME ThreadsAssumption, ItemsAssumption
    PROVE  Spec => FifoSafety
<1>1. Init => Fifo!Init
  BY DEF Init, Fifo!Init
<1>2. QED
  BY <1>1, Invariance, StepRefines, PTL DEF Spec, Fifo!Spec, FifoSafety
==============================================================================
