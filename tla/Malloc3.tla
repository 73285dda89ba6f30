-------------------------------- MODULE Malloc3 --------------------------------
(***************************************************************************)
(* HW4/malloc_3.cpp: an allocator that splits the blocks it reuses, merges *)
(* free neighbours and grows its last block.                               *)
(***************************************************************************)
EXTENDS AllocInfo, SequencesExt

CONSTANTS REMAIN,        \* 128 in the code
          Unsigned       \* does long long - size_t give an unsigned result?
                         \* FALSE on i386, TRUE on x86-64

ASSUME RemainAssumption == REMAIN \in Nat
ASSUME UnsignedAssumption == Unsigned \in BOOLEAN

VARIABLE first_alloc

vars == <<first_alloc, heap, owned>>

TypeOK == /\ first_alloc \in BOOLEAN
          /\ heap \in [list : Seq(Blocks), brk : 0 .. HeapLimit,
                       num_free_blocks : Nat, num_free_bytes : Nat,
                       num_allocated_blocks : Nat, num_allocated_bytes : Nat,
                       num_meta_data_blocks : Nat, overrun : {"no", "search", "realloc"}]
          /\ \A p \in DOMAIN owned : owned[p] \in Requests

(* overrun: split(), called by the search of malloc() on a free block or   *)
(* by realloc() on one in use, has written a node outside of the block.    *)
(* What the program does next is undefined.                                *)
Init == /\ first_alloc = TRUE
        /\ heap = [list |-> << >>, brk |-> 0,
                   num_free_blocks |-> 0, num_free_bytes |-> 0,
                   num_allocated_blocks |-> 0, num_allocated_bytes |-> 0,
                   num_meta_data_blocks |-> 0, overrun |-> "no"]
        /\ owned = << >>

------------------------------------------------------------------------------
(* The functions of the code on a heap h and the block i of its list. *)

Block(start, size, is_freed) ==
    [start |-> start, size |-> size, is_freed |-> is_freed]

setFree(h, i) ==
    IF h.list[i].is_freed THEN h
    ELSE [h EXCEPT !.list[i].is_freed = TRUE,
                   !.num_free_blocks = @ + 1,
                   !.num_free_bytes = @ + h.list[i].size]

setUsed(h, i) ==
    IF ~h.list[i].is_freed THEN h
    ELSE [h EXCEPT !.list[i].is_freed = FALSE,
                   !.num_free_blocks = @ - 1,
                   !.num_free_bytes = @ - h.list[i].size]

(* MUTANT: the node that a merge of two free blocks frees is not counted.  *)
FreeBytesNoNode(p1, p2) ==
    IF ~p2.is_freed THEN 0 ELSE IF p1.is_freed THEN 0 ELSE 0 - p2.size

(* What connect() adds to num_free_bytes. *)
FreeBytesOfConnect(p1, p2) ==
    IF ~p2.is_freed THEN 0 ELSE IF p1.is_freed THEN Meta ELSE 0 - p2.size

(* connect(): block i takes in block i + 1, which every caller has found   *)
(* free.                                                                   *)
connect(h, i) ==
    LET p1 == h.list[i]
        p2 == h.list[i + 1]
        freed == IF p2.is_freed THEN 1 ELSE 0
    IN  [h EXCEPT
           !.list = ReplaceAt(RemoveAt(@, i + 1), i,
                              [p1 EXCEPT !.size = @ + p2.size + Meta]),
           !.num_free_blocks = @ - freed,
           !.num_allocated_blocks = @ - freed,
           !.num_allocated_bytes = @ + freed * Meta,
           !.num_free_bytes = @ + FreeBytesOfConnect(p1, p2),
           !.num_meta_data_blocks = @ - freed]

IsFree(h, i) == i <= Len(h.list) /\ h.list[i].is_freed

(* MUTANT: after a merge with the block below, the one above is not tried. *)
connectDownOnly(h, i) ==
    IF i > 1 /\ IsFree(h, i - 1) /\ IsFree(h, i) THEN connect(h, i - 1)
    ELSE IF IsFree(h, i + 1) /\ (i = 1 \/ IsFree(h, i)) THEN connect(h, i)
    ELSE h

(* The head (i = 1) has no block below and merges without a look at        *)
(* itself.                                                                 *)
checkIfFreeAndConnect(h, i) ==
    IF i > 1 /\ IsFree(h, i - 1) /\ IsFree(h, i)
    THEN IF IsFree(h, i + 1) THEN connect(connect(h, i - 1), i - 1)
                             ELSE connect(h, i - 1)
    ELSE IF IsFree(h, i + 1) /\ (i = 1 \/ IsFree(h, i)) THEN connect(h, i)
    ELSE h

Left(block, req) == block.size - req - Meta

Rest(block, req) == Block(block.start + req + Meta, Left(block, req), TRUE)

split(h, i, req) ==
    LET used == setUsed(h, i)
        rest == Rest(h.list[i], req)
        cut  == [used EXCEPT
                   !.list = InsertAt([@ EXCEPT ![i].size = req], i + 1, rest),
                   !.num_meta_data_blocks = @ + 1,
                   !.num_allocated_blocks = @ + 1,
                   !.num_allocated_bytes = @ - Meta,
                   !.num_free_blocks = @ + 1,
                   !.num_free_bytes = @ + rest.size,
                   !.overrun = IF Left(h.list[i], req) >= 0 THEN @
                               ELSE IF h.list[i].is_freed THEN "search"
                               ELSE "realloc"]
    IN  checkIfFreeAndConnect(cut, i + 1)

(* Lines 236, 361 and 369.  An unsigned difference below zero is a huge    *)
(* number.                                                                 *)
RoomToSplit(block, req) ==
    Left(block, req) >= REMAIN \/ (Unsigned /\ Left(block, req) < 0)

SplitIfRoom(h, i, req) ==
    IF RoomToSplit(h.list[i], req) THEN split(h, i, req) ELSE h

(* wilderness(), for a last block that is too small. *)
wilderness(h, req) ==
    LET last == Len(h.list)
        used == setUsed(h, last)
        offset == req - h.list[last].size
    IN  [used EXCEPT !.list[last].size = @ + offset,
                     !.brk = @ + offset,
                     !.num_allocated_bytes = @ + offset]

(* first_allocation(), and lines 284-304 of malloc(). *)
append(h, req) ==
    [h EXCEPT !.list = Append(@, Block(h.brk + Meta, req, FALSE)),
              !.brk = @ + Meta + req,
              !.num_allocated_blocks = @ + 1,
              !.num_allocated_bytes = @ + req,
              !.num_meta_data_blocks = @ + 1]

(* MUTANT: blocks in use are handed out again. *)
FitsUsedToo(h, req) == {i \in DOMAIN h.list : h.list[i].size >= req}

(* The blocks that the search would take; it takes the first. *)
Fits(h, req) == {i \in DOMAIN h.list : IsFree(h, i) /\ h.list[i].size >= req}

(* malloc() of req bytes: the heap it leaves, and the block it finds. *)
Found(h, block, reused) == [heap |-> h, block |-> block, reused |-> reused]

AllocateFrom(h, req) ==
    LET last == Len(h.list)
        i == Min(Fits(h, req))
    IN  IF Fits(h, req) # {} THEN
           Found(IF RoomToSplit(h.list[i], req) THEN split(h, i, req)
                                                ELSE setUsed(h, i), i, TRUE)
        ELSE IF last > 0 /\ IsFree(h, last) THEN
           Found(wilderness(h, req), last, TRUE)
        ELSE Found(append(h, req), last + 1, FALSE)

Pointer(found) == found.heap.list[found.block].start

------------------------------------------------------------------------------
(* MUTANT: sizes are rounded down. *)
AlignedDown(n) == IF n < 4 THEN 4 ELSE n - (n % 4)

(* Lines 262-266 *)
Aligned(n) == IF n % 4 # 0 THEN n + 4 - (n % 4) ELSE n

(* Line 278: the first word of a block that is reused is what its last     *)
(* owner left there.  When that is -1, malloc() returns NULL.              *)
WordIsMinusOne(found) == found.reused

(* malloc(n), calloc(num, size) with num * size = n, and realloc(NULL, n). *)
(* The fresh memory of append() holds zeros, not -1.                       *)
Malloc(n) ==
    LET found == AllocateFrom(heap, Aligned(n))
    IN  /\ Accepted(n)
        /\ Becomes(found.heap)
        /\ first_alloc' = FALSE
        /\ \/ owned' = Give(owned, Pointer(found), n)
           \/ WordIsMinusOne(found) /\ UNCHANGED owned

MallocRefused(n) == ~Accepted(n) /\ UNCHANGED vars

(* What free() makes of h: a block that is free already stays as it is. *)
Released(h, i) ==
    IF h.list[i].is_freed THEN h ELSE checkIfFreeAndConnect(setFree(h, i), i)

Free(p) ==
    /\ Becomes(Released(heap, BlockOf(p)))
    /\ owned' = Take(owned, p)
    /\ UNCHANGED first_alloc

(* realloc(p, n), lines 360-364: the block is large enough. *)
ReallocInPlace(p, n) ==
    LET i == BlockOf(p) IN
    /\ heap.list[i].size >= Aligned(n)
    /\ Becomes(SplitIfRoom(heap, i, Aligned(n)))
    /\ owned' = Give(owned, p, n)

TooSmall(p, n) == heap.list[BlockOf(p)].size < Aligned(n)

(* Line 367: the block above is free, and the two together are enough. *)
UpSuffices(i, req) ==
    /\ IsFree(heap, i + 1)
    /\ heap.list[i].size + heap.list[i + 1].size + Meta >= req

(* Lines 366-373 *)
ReallocUpwards(p, n) ==
    LET i == BlockOf(p) IN
    /\ TooSmall(p, n) /\ UpSuffices(i, Aligned(n))
    /\ Becomes(SplitIfRoom(connect(heap, i), i, Aligned(n)))
    /\ owned' = Give(owned, p, n)

(* Lines 375-388: is_freed is set and reset, and setFree(), which looks at *)
(* it, does nothing.                                                       *)
ReallocWilderness(p, n) ==
    LET i == BlockOf(p) IN
    /\ TooSmall(p, n) /\ i = Len(heap.list)
    /\ Becomes(wilderness(heap, Aligned(n)))
    /\ owned' = Give(owned, p, n)

(* Lines 389-398: malloc(), memcpy(), free(). *)
ReallocMove(p, n) ==
    LET i == BlockOf(p)
        found == AllocateFrom(heap, Aligned(n))
        old == CHOOSE k \in DOMAIN found.heap.list : found.heap.list[k].start = p
    IN  /\ TooSmall(p, n) /\ ~UpSuffices(i, Aligned(n)) /\ i # Len(heap.list)
        /\ \/ /\ Becomes(Released(found.heap, old))
              /\ owned' = Give(Take(owned, p), Pointer(found), n)
           \/ /\ WordIsMinusOne(found)
              /\ Becomes(found.heap)
              /\ UNCHANGED owned

Realloc(p, n) ==
    /\ Accepted(n)
    /\ \/ ReallocInPlace(p, n) \/ ReallocUpwards(p, n)
       \/ ReallocWilderness(p, n) \/ ReallocMove(p, n)
    /\ UNCHANGED first_alloc

Next == /\ heap.overrun = "no"
        /\ \/ \E n \in Requests : Malloc(n)
           \/ \E n \in Requests : MallocRefused(n)
           \/ \E p \in DOMAIN owned : Free(p)
           \/ \E p \in DOMAIN owned, n \in Requests : Realloc(p, n)

Spec == Init /\ [][Next]_vars

------------------------------------------------------------------------------
(* PROPERTIES *)

(* The blocks of the list follow each other without a gap or an overlap    *)
(* from the first byte that sbrk() gave to the last.  No two neighbours    *)
(* are both free.                                                          *)
Tiled ==
    LET list == heap.list
        last == Len(list)
    IN  /\ TypeOK
        /\ first_alloc <=> list = << >>
        /\ list # << >> => /\ list[1].start = Meta
                           /\ list[last].start + list[last].size = heap.brk
        /\ \A i \in 1 .. last - 1 :
              /\ list[i + 1].start = list[i].start + list[i].size + Meta
              /\ ~(IsFree(heap, i) /\ IsFree(heap, i + 1))

(* List, memory and statistics agree, whatever malloc(), free() and        *)
(* realloc() did: the list tiles the memory, free memory is merged, and    *)
(* the numbers, kept up to date by increments in six functions, are right. *)
Tiling == Tiled /\ CountersExact

(* A pointer that a caller holds stays the start of a block that is in use *)
(* and has at least the bytes that were asked for.                         *)
OwnedIntact ==
    \A p \in DOMAIN owned : \E i \in DOMAIN heap.list :
        /\ heap.list[i].start = p
        /\ ~heap.list[i].is_freed
        /\ heap.list[i].size >= owned[p]
==============================================================================
