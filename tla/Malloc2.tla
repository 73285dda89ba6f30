-------------------------------- MODULE Malloc2 --------------------------------
(***************************************************************************)
(* HW4/malloc_2.cpp: an allocator that reuses freed blocks as they are.    *)
(* num_meta_data_bytes, which it counts too, is never read: see            *)
(* MetaDataBytes.  (malloc_1.cpp, whose free() does nothing, keeps no      *)
(* state.)                                                                 *)
(***************************************************************************)
EXTENDS AllocInfo

vars == <<heap, owned>>

(* first_alloc is true while the list is empty. *)
Init == /\ heap = [list |-> << >>, brk |-> 0,
                   num_free_blocks |-> 0, num_free_bytes |-> 0,
                   num_allocated_blocks |-> 0, num_allocated_bytes |-> 0,
                   num_meta_data_blocks |-> 0]
        /\ owned = << >>

setFree(h, i) == [h EXCEPT !.list[i].is_freed = TRUE,
                           !.num_free_blocks = @ + 1,
                           !.num_free_bytes = @ + h.list[i].size]

setUsed(h, i) == [h EXCEPT !.list[i].is_freed = FALSE,
                           !.num_free_blocks = @ - 1,
                           !.num_free_bytes = @ - h.list[i].size]

(* MUTANT: the node of the new block is not asked from sbrk(). *)
AppendNoNode(h, n) ==
    [h EXCEPT !.list = Append(@, [start |-> h.brk + Meta, size |-> n,
                                  is_freed |-> FALSE]),
              !.brk = @ + n,
              !.num_allocated_blocks = @ + 1,
              !.num_allocated_bytes = @ + n,
              !.num_meta_data_blocks = @ + 1]

(* first_allocation(), and lines 147-174 of malloc(). *)
append(h, n) ==
    [h EXCEPT !.list = Append(@, [start |-> h.brk + Meta, size |-> n,
                                  is_freed |-> FALSE]),
              !.brk = @ + Meta + n,
              !.num_allocated_blocks = @ + 1,
              !.num_allocated_bytes = @ + n,
              !.num_meta_data_blocks = @ + 1]

Fits(h, n) == {i \in DOMAIN h.list : h.list[i].is_freed /\ h.list[i].size >= n}

AllocateFrom(h, n) ==
    IF Fits(h, n) # {} THEN setUsed(h, Min(Fits(h, n))) ELSE append(h, n)

(* The block that malloc(n) returns. *)
Chosen(h, n) ==
    IF Fits(h, n) # {} THEN Min(Fits(h, n)) ELSE Len(h.list) + 1

------------------------------------------------------------------------------
(* malloc(n), calloc(num, size) with num * size = n, and realloc(NULL, n). *)
Malloc(n) ==
    LET h == AllocateFrom(heap, n) IN
    /\ Accepted(n)
    /\ Becomes(h)
    /\ owned' = Give(owned, h.list[Chosen(heap, n)].start, n)

MallocRefused(n) == ~Accepted(n) /\ UNCHANGED vars

Free(p) == /\ Becomes(setFree(heap, BlockOf(p)))
           /\ owned' = Take(owned, p)

(* Lines 231-234 *)
ReallocInPlace(p, n) ==
    /\ heap.list[BlockOf(p)].size >= n
    /\ owned' = Give(owned, p, n)
    /\ UNCHANGED heap

(* MUTANT: the old block is not freed. *)
OldNotFreed(h, i, n) == AllocateFrom(h, n)

(* Lines 235-256: malloc(), memcpy(), and the old block is free. *)
MovedFrom(h, i, n) == setFree(AllocateFrom(h, n), i)

ReallocMove(p, n) ==
    LET i == BlockOf(p)
        h == MovedFrom(heap, i, n)
    IN  /\ heap.list[i].size < n
        /\ Becomes(h)
        /\ owned' = Give(Take(owned, p), h.list[Chosen(heap, n)].start, n)

Realloc(p, n) == Accepted(n) /\ (ReallocInPlace(p, n) \/ ReallocMove(p, n))

Next == \/ \E n \in Requests : Malloc(n) \/ MallocRefused(n)
        \/ \E p \in DOMAIN owned : Free(p)
        \/ \E p \in DOMAIN owned, n \in Requests : Realloc(p, n)

Spec == Init /\ [][Next]_vars
==============================================================================
