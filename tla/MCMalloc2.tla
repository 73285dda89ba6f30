------------------------------ MODULE MCMalloc2 ------------------------------
(* Up to seven blocks, of sizes that do and do not fit into each other.    *)
EXTENDS Malloc2
==============================================================================
