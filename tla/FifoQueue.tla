------------------------------ MODULE FifoQueue ------------------------------
(***************************************************************************)
(* What PCQueue<T> promises its callers: push and pop take effect at one   *)
(* instant each, in first-in first-out order, and an item that is in the   *)
(* queue while threads keep calling pop() does not stay there for ever.    *)
(***************************************************************************)
EXTENDS Sequences

CONSTANTS Consumers,  \* the threads that call pop()
          Items,      \* the values that may be pushed
          NoItem      \* what a consumer holds before its first pop

VARIABLES queue,      \* the items pushed and not yet popped, oldest first
          taken       \* taken[c]: the item consumer c popped last

vars == <<queue, taken>>

Init == /\ queue = <<>>
        /\ taken = [c \in Consumers |-> NoItem]

Push(item) == /\ queue' = Append(queue, item)
              /\ UNCHANGED taken

Pop(c) == /\ queue # <<>>
          /\ taken' = [taken EXCEPT ![c] = Head(queue)]
          /\ queue' = Tail(queue)

Next == \/ \E item \in Items : Push(item)
        \/ \E c \in Consumers : Pop(c)

Spec == Init /\ [][Next]_vars

(* Items do not stay in the queue while somebody wants one. *)
FairSpec == Spec /\ WF_vars(\E c \in Consumers : Pop(c))
==============================================================================
