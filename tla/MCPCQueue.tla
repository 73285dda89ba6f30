------------------------------ MODULE MCPCQueue ------------------------------
(* PCQueue with one producer, as in the program, and more consumers than   *)
(* items, so that a broadcast wakes threads for whom there is nothing.     *)
EXTENDS PCQueue

ASSUME ConstantsAssumption == ThreadsAssumption /\ ItemsAssumption /\ BoundAssumption
==============================================================================
