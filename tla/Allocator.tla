------------------------------- MODULE Allocator -------------------------------
(***************************************************************************)
(* What malloc(), calloc(), realloc() and free() promise to their callers, *)
(* for both allocators of HW4: the memory that callers own never overlaps, *)
(* and changes hands only in a call that names it.                         *)
(***************************************************************************)
EXTENDS Naturals, Functions

CONSTANTS Addresses, Sizes

VARIABLE owned      \* owned[p]: bytes that the owner of pointer p may use

(* No byte has two owners. *)
Apart(o) == \A p, q \in DOMAIN o : p < q => p + o[p] <= q

Given(o, p, n) == [q \in DOMAIN o \cup {p} |-> IF q = p THEN n ELSE o[q]]
Taken(o, p) == Restrict(o, DOMAIN o \ {p})

Init == owned = << >>

(* The caller gets memory that nobody owns, ... *)
Allocate == \E p \in Addresses, n \in Sizes :
               /\ p \notin DOMAIN owned
               /\ owned' = Given(owned, p, n)
               /\ Apart(owned')

(* ... keeps its memory under a new size, ... *)
Resize == \E p \in DOMAIN owned, n \in Sizes :
             /\ owned' = Given(owned, p, n)
             /\ Apart(owned')

(* ... moves to memory that holds a copy, so does not overlap the old one, *)
Move == \E p \in DOMAIN owned, q \in Addresses, n \in Sizes :
           /\ q \notin DOMAIN owned
           /\ owned' = Given(Taken(owned, p), q, n)
           /\ Apart(Given(owned, q, n))

(* ... or gives it back. *)
Free == \E p \in DOMAIN owned : owned' = Taken(owned, p)

Next == Allocate \/ Resize \/ Move \/ Free

Spec == Init /\ [][Next]_owned
==============================================================================
