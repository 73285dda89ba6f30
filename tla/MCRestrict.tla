------------------------------ MODULE MCRestrict ------------------------------
(* Two task slots, two system calls, lists that permit, forbid and       *)
(* contradict themselves.                                                  *)
EXTENDS Restrict, TLC

Entry1(num, threshold) == [syscall_num |-> num,
                           restriction_threshold |-> threshold]

FewLists == {<<>>,
             <<Entry1(20, 1), Entry1(13, 2)>>,
             <<Entry1(13, 0), Entry1(13, 2)>>}

(* Nothing is claimed of what follows a pointer to a freed list, or two    *)
(* calls that met.                                                         *)
StillIntact == Intact

(* What a free slot holds is not seen: Fork() writes all of it.            *)
Seen == <<state, heap, call, fault, unset, dangling, crossed,
          [t \in {u \in Tasks : Exists(u)} |->
             <<proc_restriction_level[t], restrictions_list[t],
               restrictions_list_size[t], log_list[t], log_list_size[t],
               policy[t]>>]>>

BlockSymmetry == Permutations(Blocks)
==============================================================================
