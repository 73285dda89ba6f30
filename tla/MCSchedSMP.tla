------------------------------ MODULE MCSchedSMP ------------------------------
(* Two processors. *)
EXTENDS SchedSMP, TLC
==============================================================================
