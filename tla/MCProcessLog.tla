---------------------------- MODULE MCProcessLog ----------------------------
(* A ring of four records, and enough violations to go round it three      *)
(* times.                                                                  *)
EXTENDS ProcessLog
==============================================================================
