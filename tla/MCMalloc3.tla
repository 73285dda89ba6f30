------------------------------ MODULE MCMalloc3 ------------------------------
(* A heap of a few blocks, with nodes of 4 bytes and room to split from 4  *)
(* bytes on, so that every combination of neighbours occurs.               *)
EXTENDS Malloc3
==============================================================================
