------------------------------ MODULE ProcessLog ------------------------------
(***************************************************************************)
(* The log of forbidden system calls that HW1 keeps for a process: a ring  *)
(* of REST_LIST_SIZE records that syscall_check() (kernel/restrict.c)      *)
(* writes and sys_get_process_log() (hw1_syscalls.c) reads.                *)
(*                                                                         *)
(* A record stands for the violation that wrote it: violation number v is  *)
(* the v-th of the process, counted from 0, so that comparing numbers      *)
(* compares times.  log_list_size counts violations and is never reduced.  *)
(* Restrict has the log_list of every task; here it is that of one, and is *)
(* called ring.                                                            *)
(***************************************************************************)
EXTENDS Integers, Sequences

CONSTANTS REST_LIST_SIZE,   \* 100 in the code, also where it says 100
          MaxViolations,    \* bound of the model: violations of one process
          Garbage           \* memory that no violation has written

ASSUME CapacityAssumption == REST_LIST_SIZE \in Nat \ {0}
ASSUME GarbageAssumption == Garbage \notin Nat
ASSUME MaxViolationsAssumption == MaxViolations \in Nat

VARIABLES ring,     \* log_list of the process
          logged,   \* log_list_size
          asked,    \* size of a sys_get_process_log() in progress, or -1
          reply     \* the last successful answer of sys_get_process_log()

logVars == <<ring, logged, asked, reply>>

Slots == 0 .. REST_LIST_SIZE - 1
Records == Nat \cup {Garbage}

(* What user_mem receives, and the log_list_size it was computed from. *)
Answer(n, records) == [of |-> n, records |-> records]

LogTypeOK == /\ ring \in [Slots -> Records]
             /\ logged \in Nat
             /\ asked \in -1 .. logged
             /\ reply.of \in 0 .. logged
             /\ reply.records \in Seq(Records)

(* sc_restrict() allocates the log and does not clear it. *)
LogInit == /\ ring = [s \in Slots |-> Garbage]
           /\ logged = 0
           /\ asked = -1
           /\ reply = Answer(0, <<>>)

(* MUTANT: the ring has one slot less than the reader believes. *)
SlotOfOneLess(n) == IF REST_LIST_SIZE = 1 THEN 0 ELSE n % (REST_LIST_SIZE - 1)

SlotOf(n) == n % REST_LIST_SIZE

(* syscall_check(), lines 18-28: a forbidden call is recorded. *)
LogViolation ==
    /\ logged < MaxViolations
    /\ ring' = [ring EXCEPT ![SlotOf(logged)] = logged]
    /\ logged' = logged + 1
    /\ UNCHANGED <<asked, reply>>

------------------------------------------------------------------------------
(* sys_get_process_log(): two loops copy records to to_usr, which has room *)
(* for size of them.  All operators are those of the code for a log of n   *)
(* violations.                                                             *)

(* MUTANT: the -1 that the comment of line 95 says was removed. *)
IndexOldFormula(n, size) == IF n < REST_LIST_SIZE
                            THEN n - size - 1
                            ELSE REST_LIST_SIZE - (size - (n % REST_LIST_SIZE))

Index(n, size) == IF n < REST_LIST_SIZE
                  THEN n - size
                  ELSE REST_LIST_SIZE - (size - (n % REST_LIST_SIZE))

EndOfLog(n) == IF n < REST_LIST_SIZE THEN n ELSE REST_LIST_SIZE

(* The records copied by the loop of line 99, ... *)
FirstLoop(n, size) == IF Index(n, size) < EndOfLog(n)
                      THEN EndOfLog(n) - Index(n, size)
                      ELSE 0

(* ... and by the loop of line 108, whose "count <= size" lets it copy one *)
(* record more than to_usr has room for.                                   *)
SecondLoop(n, size) ==
    LET room == size - FirstLoop(n, size) + 1
    IN  IF FirstLoop(n, size) >= size THEN 0
        ELSE IF room < n THEN room ELSE n

(* log_list[i], or what lies outside the array. *)
ReadSlot(i) == IF i \in Slots THEN ring[i] ELSE Garbage

(* to_usr[j] when the loops are done. *)
ToUsr(n, size, j) ==
    IF j < FirstLoop(n, size) THEN ReadSlot(Index(n, size) + j)
    ELSE IF j < FirstLoop(n, size) + SecondLoop(n, size)
         THEN ReadSlot(j - FirstLoop(n, size))
         ELSE Garbage

Copied(n, size) == [k \in 1 .. size |-> ToUsr(n, size, k - 1)]

(* Line 87: size is compared with the number of violations, not with the   *)
(* number of records that the ring can hold.                               *)
Accepted(n, size) == 0 <= size /\ size <= n

(* Lines 76-94: the check, then kmalloc(GFP_KERNEL), which may sleep while *)
(* the process logs more violations.  Negative sizes and sizes above the   *)
(* number of violations are refused with -EINVAL and change nothing; so    *)
(* does an allocation that fails (-ENOMEM), which ends the call.           *)
AskForLog(size) ==
    /\ asked = -1
    /\ Accepted(logged, size)
    /\ asked' = size
    /\ UNCHANGED <<ring, logged, reply>>

(* Lines 95-120: log_list_size is read again. *)
CopyLog ==
    /\ asked # -1
    /\ reply' = Answer(logged, Copied(logged, asked))
    /\ asked' = -1
    /\ UNCHANGED <<ring, logged>>

NoMemoryForLog ==
    /\ asked # -1
    /\ asked' = -1
    /\ UNCHANGED <<ring, logged, reply>>

LogNext == \/ LogViolation
           \/ \E size \in 0 .. MaxViolations : AskForLog(size)
           \/ CopyLog
           \/ NoMemoryForLog

LogSpec == LogInit /\ [][LogNext]_logVars

------------------------------------------------------------------------------
(* PROPERTIES *)

Size == Len(reply.records)

(* The last k of n violations, oldest first. *)
Latest(n, k) == [j \in 1 .. k |-> n - k + j - 1]

(* Where the arithmetic of line 96 fits the ring: the log has not wrapped, *)
(* or the records asked for reach back past the start of the array.        *)
InDomain == \/ reply.of < REST_LIST_SIZE
            \/ Size >= reply.of % REST_LIST_SIZE

(* In that domain the caller gets the latest records, oldest first.        *)
LatestInDomain ==
    Size <= REST_LIST_SIZE /\ InDomain => reply.records = Latest(reply.of, Size)

(* The caller never sees memory that no violation wrote, nor a record that *)
(* was overwritten, while it asks for no more than the ring holds.         *)
RecordsAreInLog ==
    Size <= REST_LIST_SIZE =>
        \A j \in 1 .. Size : /\ reply.records[j] \in Nat
                             /\ reply.records[j] < reply.of
                             /\ reply.records[j] >= reply.of - REST_LIST_SIZE

(* What Tests/test-tamuz.c:456-464 expects, stated for every size the ring *)
(* can serve: the answer holds the latest records.                         *)
AnswersLatest == Size <= REST_LIST_SIZE => reply.records = Latest(reply.of, Size)

------------------------------------------------------------------------------
(* The inductive invariant of the proofs: the ring holds the last          *)
(* violations, each in its slot.                                           *)
Ring == \A v \in Nat :
           v < logged /\ v >= logged - REST_LIST_SIZE
           => ring[SlotOf(v)] = v

LogIInv == LogTypeOK /\ Ring /\ LatestInDomain /\ RecordsAreInLog
==============================================================================
