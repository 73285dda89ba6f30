------------------------------- MODULE MCSched -------------------------------
(* Two real-time and two normal levels, three tasks and the idle task.     *)
EXTENDS Sched, TLC

TaskSymmetry == Permutations(Tasks \ {FirstTask})

(* Time slices are of one tick here, so that first_time_slice, which only  *)
(* sends a part of a slice back to the parent, makes no difference.        *)
View == <<[t \in Tasks |-> [task[t] EXCEPT !.first_time_slice = FALSE]],
          rq, curr, need_resched, calling, excused>>
==============================================================================
