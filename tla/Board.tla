-------------------------------- MODULE Board --------------------------------
(***************************************************************************)
(* The board of Conway's game of life, cut off at its edges, and the rule  *)
(* of the game: the reference that the code of HW3 is compared with.       *)
(***************************************************************************)
EXTENDS Integers, FiniteSets

CONSTANTS Height, Width      \* the size of the board

ASSUME SizeAssumption == Height \in Nat \ {0} /\ Width \in Nat \ {0}

Lines == 0 .. Height - 1
Columns == 0 .. Width - 1
Boards == [Lines -> [Columns -> BOOLEAN]]

(* The Moore neighbourhood, cut off at the edges of the board. *)
Neighbours(l, c) ==
    {n \in Lines \X Columns : /\ n # <<l, c>>
                              /\ n[1] - l \in -1 .. 1
                              /\ n[2] - c \in -1 .. 1}

LiveAround(b, l, c) == Cardinality({n \in Neighbours(l, c) : b[n[1]][n[2]]})

(* A cell is born with three live neighbours and survives with two. *)
Successor(b) ==
    [l \in Lines |-> [c \in Columns |->
        \/ LiveAround(b, l, c) = 3
        \/ b[l][c] /\ LiveAround(b, l, c) = 2]]
==============================================================================
