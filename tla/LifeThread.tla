------------------------------ MODULE LifeThread ------------------------------
(***************************************************************************)
(* The computation of the worker threads (HW3/Life_Thread.cpp) and the way *)
(* Game::_step() cuts the board into jobs, as operators on boards.         *)
(***************************************************************************)
EXTENDS Board

------------------------------------------------------------------------------
(* calculate_live_neighbours(): the window around a cell, clamped to the   *)
(* matrix.                                                                 *)

HighestLine(l) == IF l # 0 THEN l - 1 ELSE l
LowestLine(l) == IF l = Height - 1 THEN l ELSE l + 1
LeftestNeighbour(c) == IF c = 0 THEN 0 ELSE c - 1

(* Lines 34-45: a board one cell wide leaves rightest_neighbour unset at   *)
(* line 36, and the test of line 43 then sets it.                          *)
RightestNeighbour(c) == IF c = Width - 1 THEN c ELSE c + 1

Window(l, c) == ((HighestLine(l) .. LowestLine(l))
                  \X (LeftestNeighbour(c) .. RightestNeighbour(c)))
                \ {<<l, c>>}

LiveNeighbours(b, l, c) == Cardinality({n \in Window(l, c) : b[n[1]][n[2]]})

(* calculate_next_generation_matrix() on one line. *)
NextLine(b, l) ==
    [c \in Columns |-> \/ b[l][c] /\ LiveNeighbours(b, l, c) \in {2, 3}
                       \/ ~b[l][c] /\ LiveNeighbours(b, l, c) = 3]

------------------------------------------------------------------------------
(* _step() with m_thread_num = threads: every job but the last has divider *)
(* lines, the last one the rest of the board.                              *)

Divider(threads) == IF Height \div threads = 0 THEN 1 ELSE Height \div threads

StartingLine(threads, job) == (job - 1) * Divider(threads)

(* MUTANT: the -1 of line 131 is forgotten. *)
EndingLineOffByOne(threads, job) == IF job < threads
                                    THEN job * Divider(threads)
                                    ELSE Height - 1

EndingLine(threads, job) == IF job < threads THEN job * Divider(threads) - 1
                                             ELSE Height - 1

JobLines(threads, job) ==
    StartingLine(threads, job) .. EndingLine(threads, job)

------------------------------------------------------------------------------
(* PROPERTIES *)

(* The clamped window of calculate_live_neighbours() is the neighbourhood: *)
(* no cell outside the matrix is read, none is counted twice or missed, on *)
(* boards one line or one column wide too.                                 *)
WindowIsNeighbourhood ==
    \A l \in Lines, c \in Columns : Window(l, c) = Neighbours(l, c)

(* A line that a worker computes is that line of the next generation       *)
(* (lines 77-90).                                                          *)
LinesAreSuccessor ==
    \A b \in Boards, l \in Lines : NextLine(b, l) = Successor(b)[l]

(* Whatever the number of threads, no larger than the number of lines, the *)
(* jobs of a generation cut the board into disjoint, non-empty runs of     *)
(* lines that leave none out (Game.cpp:127-136).                           *)
JobsPartitionBoard ==
    \A threads \in 1 .. Height :
        /\ \A l \in Lines : \E job \in 1 .. threads : l \in JobLines(threads, job)
        /\ \A job \in 1 .. threads : JobLines(threads, job) # {}
                                     /\ JobLines(threads, job) \subseteq Lines
        /\ \A j, k \in 1 .. threads :
              j # k => JobLines(threads, j) \cap JobLines(threads, k) = {}
==============================================================================
