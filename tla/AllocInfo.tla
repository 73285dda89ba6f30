------------------------------ MODULE AllocInfo ------------------------------
(***************************************************************************)
(* What malloc_2.cpp and malloc_3.cpp of HW4 define alike: the list of     *)
(* blocks, in the order of the next pointers, the statistics that the      *)
(* interface reports, and which calls are accepted.  A block is its        *)
(* alloc_info_node, of Meta bytes, and the memory behind it.               *)
(***************************************************************************)
EXTENDS Integers, Sequences, FiniteSetsExt, Functions

CONSTANTS Meta,          \* sizeof(alloc_info_node_t): 24 on i386, 40 on x86-64
          MAX_SIZE,
          Requests,      \* sizes that callers ask for
          HeapLimit      \* bound of the model: bytes that sbrk() can give

ASSUME MetaAssumption == Meta \in Nat \ {0}
ASSUME RequestsAssumption == Requests \subseteq Nat
ASSUME HeapAssumption == HeapLimit \in Nat

VARIABLES heap,      \* a record: list, brk and the numbers of
                     \* global_alloc_info_list
          owned      \* history: the bytes asked for, by pointer, of the
                     \* memory that callers hold

Blocks == [start : Nat, size : Nat, is_freed : BOOLEAN]

Accepted(n) == n <= MAX_SIZE /\ n # 0

(* sbrk() gives what is asked for.  When it cannot, the code reads through *)
(* the pointer -1 and the process dies.                                    *)
Becomes(h) == h.brk <= HeapLimit /\ heap' = h

BlockOf(p) == CHOOSE i \in DOMAIN heap.list : heap.list[i].start = p

Give(o, p, n) == [q \in DOMAIN o \cup {p} |-> IF q = p THEN n ELSE o[q]]
Take(o, p) == Restrict(o, DOMAIN o \ {p})

FreeBlocks == {b \in Range(heap.list) : b.is_freed}
BytesOf(blocks) == MapThenSumSet(LAMBDA b : b.size, blocks)

(* _num_meta_data_bytes() *)
MetaDataBytes == heap.num_meta_data_blocks * Meta

------------------------------------------------------------------------------
(* PROPERTIES *)

(* The statistics are those that a walk over the list would compute. *)
CountersExact ==
    /\ heap.num_free_blocks = Cardinality(FreeBlocks)
    /\ heap.num_free_bytes = BytesOf(FreeBlocks)
    /\ heap.num_allocated_blocks = Len(heap.list)
    /\ heap.num_allocated_bytes = BytesOf(Range(heap.list))
    /\ heap.num_meta_data_blocks = Len(heap.list)

ListOK == /\ heap.list \in Seq(Blocks) /\ IsInjective(heap.list)
          /\ heap.brk \in 0 .. HeapLimit
          /\ \A p \in DOMAIN owned : owned[p] \in Requests

(* Of malloc_2.cpp: blocks in use and pointers that callers hold           *)
(* correspond, and each block holds what was asked for: no block is lost,  *)
(* none is free too early.  The statistics agree with that, and with the   *)
(* memory that sbrk() gave.                                                *)
InUseIsOwned ==
    /\ DOMAIN owned = {b.start : b \in Range(heap.list) \ FreeBlocks}
    /\ \A b \in Range(heap.list) \ FreeBlocks : b.size >= owned[b.start]
    /\ ListOK /\ CountersExact
    /\ MetaDataBytes = heap.brk - heap.num_allocated_bytes

(* The callers see an allocator. *)
Contract == INSTANCE Allocator WITH Addresses <- 0 .. HeapLimit,
                                    Sizes <- Requests
ImplementsAllocator == Contract!Spec
==============================================================================
