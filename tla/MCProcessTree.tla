---------------------------- MODULE MCProcessTree ----------------------------
(* Few task structures and few pids. *)
EXTENDS ProcessTree, TLC

AnyOrGroup == {[pid |-> -1, options |-> {"WUNTRACED", "__WALL"}],
               [pid |-> 0, options |-> {"WNOHANG", "__WNOTHREAD"}]}

Fork == [flags |-> {}, signal |-> "SIGCHLD"]
Thread == [flags |-> {"CLONE_THREAD"}, signal |-> "other"]
Sibling == [flags |-> {"CLONE_PARENT"}, signal |-> "SIGCHLD"]

TracedThread == [flags |-> {"CLONE_THREAD", "CLONE_PTRACE"}, signal |-> "other"]

AllForks == {Fork, TracedThread, Sibling}
ForksAndThreads == {Fork, Thread}
NoSleep == {[pid |-> -1, options |-> {"WNOHANG"}]}

TaskSymmetry == Permutations(Tasks \ {Reaper})

NothingExcused == excused = {}
==============================================================================
