---------------------------- MODULE MCCredentials ----------------------------
(* One process alone sets its ids at will.  Processes that it forks set    *)
(* theirs one and all at a time, and are counted.  Tasks share what they   *)
(* like while all of them are root's.                                      *)
EXTENDS Process, TLC

MCClones == {{"NEWNS", "FILES"}, {"VM", "VFORK"}, {"VM", "FS", "FILES", "SIGHAND"}}

Symmetry == Permutations(Tasks \ {FirstTask})

Plain(p) == /\ Cardinality(UidsOf(p)) = 1 /\ GidsOf(p) = {Root}
            /\ p.effective = p.permitted

AllRoots ==
    /\ \A t \in Present : task[t] = [InitTask EXCEPT !.state = task[t].state]
    /\ kept = {}

(* Two tasks without anything in common but the idle task's files.         *)
NothingShared ==
    /\ Cardinality(Present) =< 2
    /\ current # Idle
    /\ \A t \in Present : /\ "VM" \notin clone_flags[t] /\ lazy[t] = None
                          /\ pc[t] # "vfork" /\ vfork_done[t] = None
    /\ \A m \in Structs : mms[m].mm_users =< 1
    /\ leaked = {}

NoMemory == {t \in Tasks : pc[t] = "lazy" \/ (pc[t] = "user" /\ mm[t] = None)}

(* The bounds: credentials change while nothing is shared, and where there *)
(* are two tasks all the ids of one change at a time, and no group ids.    *)
(* A task does without memory where there are two, and one count of memory *)
(* is lost.                                                                *)
MCNext == ProcessStep \/ (NothingShared /\ CredentialStep)
MCSpec == ProcessInit /\ [][MCNext]_processVars

Bounds ==
    /\ ~miscounted
    /\ Present = {FirstTask} \/ \A t \in Present : Plain(task[t])
    /\ AllRoots \/ NothingShared
    /\ Cardinality(Present) + Cardinality(NoMemory) =< 3
    /\ Cardinality(leaked) =< 1
==============================================================================
