------------------------------- MODULE PCQueue -------------------------------
(***************************************************************************)
(* PCQueue<T> of HW3/PCQueue.hpp: the blocking queue between the game      *)
(* (producer) and the worker threads (consumers).  One action per step a   *)
(* thread can be preempted at: taking the mutex, the test of the while     *)
(* loop (with the sleep or the entry that follows it), the access to the   *)
(* std::queue, the unlock with its wake-ups, and the re-acquisition of the *)
(* mutex inside pthread_cond_wait.                                         *)
(*                                                                         *)
(* producers_lock() and consumers_lock() return with global_lock HELD (the *)
(* unlock calls of lines 35 and 52 are commented out), and the matching    *)
(* unlock functions release it without taking it again.                    *)
(***************************************************************************)
EXTENDS Naturals, Sequences, FiniteSets

CONSTANTS Producers,   \* threads that call push()
          Consumers,   \* threads that call pop()
          Items,       \* values that can be pushed
          NoItem,      \* "no value yet" for a local variable of a thread
          NoThread,    \* owner of a free mutex
          QueueBound   \* the callers stop pushing at this queue length

Threads == Producers \cup Consumers

(* Assumed of the constants, and shown of those with which Game            *)
(* instantiates this module.                                               *)
ThreadsAssumption == Producers \cap Consumers = {} /\ NoThread \notin Threads
ItemsAssumption == NoItem \notin Items
BoundAssumption == QueueBound \in Nat

VARIABLES items,             \* the std::queue
          consumers_inside, producers_inside, producers_waiting,
          global_lock,       \* the thread that holds the mutex, or NoThread
          approve_to_write,  \* threads asleep on that condition variable
          approve_to_read,   \* threads asleep on that condition variable
          pc,                \* where each thread is in push() or pop()
          arg,               \* arg[p]: the item p is pushing
          temp_item          \* temp_item[c]: what c's last pop() took out

counters == <<consumers_inside, producers_inside, producers_waiting>>
sleepers == <<approve_to_write, approve_to_read>>
locals == <<arg, temp_item>>
vars == <<items, counters, global_lock, sleepers, pc, locals>>

ProducerPC == {"idle", "p_lock", "p_test", "p_wait", "p_in", "p_out"}
ConsumerPC == {"idle", "c_lock", "c_test", "c_wait", "c_in", "c_out"}

(* The places in push() and pop() where the thread holds global_lock. *)
Holding == {"p_test", "p_in", "p_out", "c_test", "c_in", "c_out"}

TypeOK ==
    /\ items \in Seq(Items)
    /\ consumers_inside \in Nat
    /\ producers_inside \in Nat
    /\ producers_waiting \in Nat
    /\ global_lock \in Threads \cup {NoThread}
    /\ approve_to_write \subseteq Producers
    /\ approve_to_read \subseteq Consumers
    /\ pc \in [Threads -> ProducerPC \cup ConsumerPC]
    /\ \A p \in Producers : pc[p] \in ProducerPC
    /\ \A c \in Consumers : pc[c] \in ConsumerPC
    /\ arg \in [Producers -> Items \cup {NoItem}]
    /\ \A p \in Producers : pc[p] # "idle" => arg[p] \in Items
    /\ temp_item \in [Consumers -> Items \cup {NoItem}]

Init ==
    /\ items = <<>>
    /\ consumers_inside = 0
    /\ producers_inside = 0
    /\ producers_waiting = 0
    /\ global_lock = NoThread
    /\ approve_to_write = {}
    /\ approve_to_read = {}
    /\ pc = [t \in Threads |-> "idle"]
    /\ arg = [p \in Producers |-> NoItem]
    /\ temp_item = [c \in Consumers |-> NoItem]

------------------------------------------------------------------------------
(* Pthread primitives.  None of these waits: a thread that must wait for   *)
(* the mutex is a thread whose action is not enabled.                      *)

Goto(t, label) == pc' = [pc EXCEPT ![t] = label]

Lock(t) == global_lock = NoThread /\ global_lock' = t

Unlock(t) == global_lock = t /\ global_lock' = NoThread

(* MUTANT: the broadcast of line 41 is forgotten. *)
BroadcastForgotten(cond) == {cond}

(* The sleepers that remain after pthread_cond_signal, which wakes one      *)
(* thread if there is one, and after pthread_cond_broadcast.               *)
Signal(cond) == IF cond = {} THEN {{}} ELSE {cond \ {t} : t \in cond}
Broadcast(cond) == {{}}

(* A thread in pthread_cond_wait that is no longer asleep needs the mutex. *)
Asleep(t) == t \in approve_to_write \cup approve_to_read

(* It returns from pthread_cond_wait and tests its while condition again.  *)
Reacquire(t) ==
    /\ pc[t] \in {"p_wait", "c_wait"}
    /\ ~Asleep(t)
    /\ Lock(t)
    /\ Goto(t, IF pc[t] = "p_wait" THEN "p_test" ELSE "c_test")
    /\ UNCHANGED <<items, counters, sleepers, locals>>

(* POSIX lets pthread_cond_wait return although nobody signalled. *)
SpuriousWakeup(t) ==
    /\ Asleep(t)
    /\ approve_to_write' = approve_to_write \ {t}
    /\ approve_to_read' = approve_to_read \ {t}
    /\ UNCHANGED <<items, counters, global_lock, pc, locals>>

------------------------------------------------------------------------------
(* push(item) *)

PushCall(p, item) ==
    /\ pc[p] = "idle"
    /\ arg' = [arg EXCEPT ![p] = item]
    /\ Goto(p, "p_lock")
    /\ UNCHANGED <<items, counters, global_lock, sleepers, temp_item>>

ProducersLock(p) ==
    /\ pc[p] = "p_lock"
    /\ Lock(p)
    /\ producers_waiting' = producers_waiting + 1
    /\ Goto(p, "p_test")
    /\ UNCHANGED <<items, consumers_inside, producers_inside, sleepers, locals>>

ProducerBlocked == producers_inside + consumers_inside > 0

(* The while loop of producers_lock(): sleep, or enter. *)
ProducersTest(p) ==
    /\ pc[p] = "p_test"
    /\ IF ProducerBlocked
       THEN /\ Unlock(p)
            /\ approve_to_write' = approve_to_write \cup {p}
            /\ Goto(p, "p_wait")
            /\ UNCHANGED <<producers_waiting, producers_inside>>
       ELSE /\ producers_waiting' = producers_waiting - 1
            /\ producers_inside' = producers_inside + 1
            /\ Goto(p, "p_in")
            /\ UNCHANGED <<global_lock, approve_to_write>>
    /\ UNCHANGED <<items, consumers_inside, approve_to_read, locals>>

PushItem(p) ==
    /\ pc[p] = "p_in"
    /\ items' = Append(items, arg[p])
    /\ Goto(p, "p_out")
    /\ UNCHANGED <<counters, global_lock, sleepers, locals>>

ProducersUnlock(p) ==
    /\ pc[p] = "p_out"
    /\ producers_inside' = producers_inside - 1
    /\ IF producers_inside' = 0
       THEN /\ approve_to_read' \in Broadcast(approve_to_read)
            /\ approve_to_write' \in Signal(approve_to_write)
       ELSE UNCHANGED sleepers
    /\ Unlock(p)
    /\ Goto(p, "idle")
    /\ UNCHANGED <<items, consumers_inside, producers_waiting, locals>>

------------------------------------------------------------------------------
(* pop() *)

PopCall(c) ==
    /\ pc[c] = "idle"
    /\ Goto(c, "c_lock")
    /\ UNCHANGED <<items, counters, global_lock, sleepers, locals>>

ConsumersLock(c) ==
    /\ pc[c] = "c_lock"
    /\ Lock(c)
    /\ Goto(c, "c_test")
    /\ UNCHANGED <<items, counters, sleepers, locals>>

(* MUTANT: consumers_lock() does not look whether the queue is empty. *)
ConsumerBlockedUnlessEmpty == \/ producers_inside > 0
                              \/ producers_waiting > 0
                              \/ consumers_inside > 0

ConsumerBlocked == \/ producers_inside > 0
                   \/ producers_waiting > 0
                   \/ items = <<>>
                   \/ consumers_inside > 0

(* The while loop of consumers_lock(): sleep, or enter. *)
ConsumersTest(c) ==
    /\ pc[c] = "c_test"
    /\ IF ConsumerBlocked
       THEN /\ Unlock(c)
            /\ approve_to_read' = approve_to_read \cup {c}
            /\ Goto(c, "c_wait")
            /\ UNCHANGED consumers_inside
       ELSE /\ consumers_inside' = consumers_inside + 1
            /\ Goto(c, "c_in")
            /\ UNCHANGED <<global_lock, approve_to_read>>
    /\ UNCHANGED <<items, producers_inside, producers_waiting,
                   approve_to_write, locals>>

(* MUTANT: front() without pop(). *)
PopItemNotRemoved(c) ==
    /\ pc[c] = "c_in"
    /\ temp_item' = [temp_item EXCEPT ![c] = Head(items)]
    /\ Goto(c, "c_out")
    /\ UNCHANGED <<items, counters, global_lock, sleepers, arg>>

PopItem(c) ==
    /\ pc[c] = "c_in"
    /\ temp_item' = [temp_item EXCEPT ![c] = Head(items)]
    /\ items' = Tail(items)
    /\ Goto(c, "c_out")
    /\ UNCHANGED <<counters, global_lock, sleepers, arg>>

(* MUTANT: consumers_unlock() forgets the counter. *)
ConsumersLeaveNoCount == UNCHANGED <<consumers_inside, producers_inside>>

ConsumersLeave == /\ consumers_inside' = consumers_inside - 1
                  /\ UNCHANGED producers_inside

ConsumersUnlock(c) ==
    /\ pc[c] = "c_out"
    /\ ConsumersLeave
    /\ IF consumers_inside' = 0
       THEN approve_to_write' \in Signal(approve_to_write)
       ELSE UNCHANGED approve_to_write
    /\ Unlock(c)
    /\ Goto(c, "idle")
    /\ UNCHANGED <<items, producers_waiting, approve_to_read, locals>>

------------------------------------------------------------------------------
(* Everything a thread does between calling push() or pop() and returning. *)
PushStep(p) == \/ ProducersLock(p) \/ ProducersTest(p)
               \/ PushItem(p) \/ ProducersUnlock(p)
PopStep(c) == \/ ConsumersLock(c) \/ ConsumersTest(c)
              \/ PopItem(c) \/ ConsumersUnlock(c)

(* The callers: producers push while the queue is short of QueueBound,     *)
(* consumers pop for ever.                                                 *)
Next ==
    \/ \E p \in Producers, item \in Items : Len(items) < QueueBound
                                            /\ PushCall(p, item)
    \/ \E p \in Producers : PushStep(p)
    \/ \E c \in Consumers : PopCall(c) \/ PopStep(c)
    \/ \E t \in Threads : Reacquire(t)
    \/ \E t \in Threads : SpuriousWakeup(t)

Spec == Init /\ [][Next]_vars

(* The scheduler runs every thread that can run; a thread blocked on a     *)
(* mutex or a condition variable cannot.  A mutex is not promised to a     *)
(* given waiter, so lock acquisition is only weakly fair.  No producer is  *)
(* obliged to push.  Spurious wake-ups stop eventually.                    *)
Fairness ==
    /\ \A p \in Producers : WF_vars(PushStep(p) \/ Reacquire(p))
    /\ \A c \in Consumers : WF_vars(PopCall(c) \/ PopStep(c) \/ Reacquire(c))
    /\ <>[][~\E t \in Threads : SpuriousWakeup(t)]_vars

FairSpec == Spec /\ Fairness

------------------------------------------------------------------------------
(* PROPERTIES *)

(* No consumer reads front() of an empty queue (line 82), which std::queue *)
(* leaves undefined: several consumers that one broadcast (line 41) woke   *)
(* must not all believe that the item is theirs.                           *)
PopNonEmpty == \A c \in Consumers : pc[c] = "c_in" => items # <<>>

(* While items are in the queue nobody sleeps on approve_to_read, but for  *)
(* the moment before the producer that just pushed reaches its broadcast   *)
(* (line 41).  consumers_unlock() passes no wake-up on (line 59 is         *)
(* commented out), so a consumer asleep here would miss the items.         *)
NoLostWakeup ==
    approve_to_read # {} => \/ items = <<>>
                            \/ \E p \in Producers : pc[p] = "p_out"

(* "Allows for producer to enter with minimal delay" (line 93): a producer *)
(* is delayed by the mutex alone.  The test of line 30 never finds anybody *)
(* inside, so the wait of line 31 is never reached.                        *)
ProducerNeverSleeps == /\ approve_to_write = {}
                       /\ \A p \in Producers : pc[p] # "p_wait"

(* push and pop behave as if each took effect at one instant, in FIFO      *)
(* order, and pushed items do not wait for ever while consumers call pop().*)
Fifo == INSTANCE FifoQueue WITH queue <- items, taken <- temp_item
FifoSafety == Fifo!Spec
FifoProgress == Fifo!FairSpec

(* A call of push() by the single producer (line 95) returns: the          *)
(* consumers, which contend for the same mutex, cannot keep it out.        *)
PushReturns == \A p \in Producers : pc[p] = "p_lock" ~> pc[p] = "idle"

------------------------------------------------------------------------------
(* The inductive invariant of the proofs: who holds the mutex, what the    *)
(* three counters can be when the mutex changes hands, and who may sleep.  *)

LockOwner == \A t \in Threads : pc[t] \in Holding <=> global_lock = t

ExactCounters ==
    /\ producers_waiting =
           IF \E p \in Producers : pc[p] = "p_test" THEN 1 ELSE 0
    /\ producers_inside =
           IF \E p \in Producers : pc[p] \in {"p_in", "p_out"} THEN 1 ELSE 0
    /\ consumers_inside =
           IF \E c \in Consumers : pc[c] \in {"c_in", "c_out"} THEN 1 ELSE 0

IInv == /\ TypeOK
        /\ LockOwner
        /\ ExactCounters
        /\ ProducerNeverSleeps
        /\ PopNonEmpty
        /\ NoLostWakeup
==============================================================================
