--------------------------------- MODULE Life ---------------------------------
(***************************************************************************)
(* What HW3 computes: the game of life, one whole generation at a time.    *)
(* This is the abstract program that Game, with its threads, its queue and *)
(* its two matrices, implements.                                           *)
(***************************************************************************)
EXTENDS LifeThread

CONSTANTS Generations,       \* how many generations are computed
          InitialBoards      \* the boards the input file may hold

VARIABLES board, generation

vars == <<board, generation>>

Init == /\ board \in InitialBoards
        /\ generation = 0

Next == /\ generation < Generations
        /\ generation' = generation + 1
        /\ board' = Successor(board)

Spec == Init /\ [][Next]_vars

(* Every requested generation is computed. *)
FairSpec == Spec /\ WF_vars(Next)
==============================================================================
