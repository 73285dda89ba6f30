------------------------------- MODULE MCGame -------------------------------
(* The game on small boards. *)
EXTENDS Game

(* A glider's corner, a blinker's line, a full and a lone-cell board: the  *)
(* lines of each differ from those of its successor, so a line computed    *)
(* from the wrong matrix, or not computed, shows.                          *)
FewBoards ==
    {[l \in Lines |-> [c \in Columns |-> b[l + 1][c + 1] = 1]] :
        b \in {<< <<0, 1, 0>>, <<1, 1, 0>>, <<0, 0, 1>> >>,
               << <<0, 1, 0>>, <<0, 1, 0>>, <<0, 1, 0>> >>,
               << <<1, 1, 1>>, <<1, 1, 1>>, <<1, 1, 1>> >>}}
==============================================================================
