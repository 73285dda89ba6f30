------------------------------ MODULE SchedProofs ------------------------------
(***************************************************************************)
(* Proofs about the scheduler of HW2, for any number of tasks, priorities, *)
(* bonuses and time slices: queues, bitmaps and counters agree, schedule() *)
(* picks the best task and none better waits, a SHORT process only ever    *)
(* expires, and its place in the queue is the one that it is told.         *)
(***************************************************************************)
EXTENDS Sched, FiniteSetTheorems, SequenceTheorems, WellFoundedInduction, TLAPS

------------------------------------------------------------------------------
(* Least and greatest numbers. *)
LEMMA MinIsLeast ==
    ASSUME NEW S \in SUBSET Nat, S # {}
    PROVE  Min(S) \in S /\ \A n \in S : Min(S) <= n
<1> DEFINE R == OpToRel(<, Nat)
<1>1. IsWellFoundedOn(R, Nat)
  BY NatLessThanWellFounded
<1> HIDE DEF R
<1>2. PICK n \in S : \A m \in S : ~(<<m, n>> \in R)
  BY <1>1, WFMin
<1>3. \A m \in S : ~(m < n)
  BY <1>2 DEF R, OpToRel
<1>4. \A m \in S : n <= m
  BY <1>3
<1>5. Min(S) \in S /\ \A m \in S : Min(S) <= m
  BY <1>4 DEF Min
<1> QED  BY <1>5

LEMMA OfTwo ==
    ASSUME NEW m \in Int, NEW n \in Int
    PROVE  /\ Min({m, n}) = IF m <= n THEN m ELSE n
           /\ Max({m, n}) = IF m <= n THEN n ELSE m
<1>1. Min({m, n}) = IF m <= n THEN m ELSE n
  <2>1. \E x \in {m, n} : \A y \in {m, n} : x <= y
    OBVIOUS
  <2>2. Min({m, n}) \in {m, n} /\ \A y \in {m, n} : Min({m, n}) <= y
    BY <2>1 DEF Min
  <2> QED  BY <2>2
<1>2. Max({m, n}) = IF m <= n THEN n ELSE m
  <2>1. \E x \in {m, n} : \A y \in {m, n} : y <= x
    OBVIOUS
  <2>2. Max({m, n}) \in {m, n} /\ \A y \in {m, n} : y <= Max({m, n})
    BY <2>1 DEF Max
  <2> QED  BY <2>2
<1> QED  BY <1>1, <1>2

------------------------------------------------------------------------------
(* The lists of the runqueue: what is in one, and none twice. *)
In(q, t) == \E i \in 1 .. Len(q) : q[i] = t
NoRepeats(q) == \A i, j \in 1 .. Len(q) : q[i] = q[j] => i = j
List(q) == q \in Seq(Tasks) /\ NoRepeats(q)
SameFirst(q, r, t) == q # << >> /\ q[1] # t => r # << >> /\ r[1] = q[1]

LEMMA InIsMember == \A q \in Seq(Tasks) : \A t : t \in ToSet(q) <=> In(q, t)
BY DEF ToSet, In

LEMMA EmptyIsList == List(<< >>) /\ \A t : ~In(<< >>, t)
BY EmptySeq DEF List, NoRepeats, In

LEMMA EmptyHasNone == \A q : List(q) => (q = << >> <=> \A t \in Tasks : ~In(q, t))
<1> TAKE q
<1>1. ASSUME List(q), \A t \in Tasks : ~In(q, t) PROVE q = << >>
  <2>1. Len(q) \in Nat /\ q \in [1 .. Len(q) -> Tasks]
    BY <1>1, LenProperties DEF List
  <2>2. ~(1 \in 1 .. Len(q))
    BY <1>1, <2>1 DEF In
  <2> QED  BY <1>1, <2>1, <2>2 DEF List
<1> QED  BY <1>1, EmptyIsList

LEMMA AppendedList ==
    ASSUME NEW q, List(q), NEW t \in Tasks, ~In(q, t)
    PROVE  /\ List(Append(q, t))
           /\ \A u : In(Append(q, t), u) <=> In(q, u) \/ u = t
           /\ SameFirst(q, Append(q, t), t)
<1> DEFINE r == Append(q, t)
<1>1. /\ r \in Seq(Tasks) /\ r # << >> /\ Len(r) = Len(q) + 1 /\ Len(q) \in Nat
      /\ \A i \in 1 .. Len(q) : r[i] = q[i]
      /\ r[Len(q) + 1] = t
  BY AppendProperties, LenProperties DEF List
<1>2. q # << >> => 1 \in 1 .. Len(q)
  BY EmptySeq DEF List
<1> HIDE DEF r
<1>3. NoRepeats(r)
  BY <1>1 DEF List, NoRepeats, In
<1>4. \A u : In(r, u) <=> In(q, u) \/ u = t
  BY <1>1 DEF In
<1>5. SameFirst(q, r, t)
  BY <1>1, <1>2 DEF SameFirst
<1> QED  BY <1>1, <1>3, <1>4, <1>5 DEF r, List

(* RemoveAt at the place of an element, and InsertAt behind the first. *)
LEMMA RemovedAt ==
    ASSUME NEW q, List(q), NEW n \in 1 .. Len(q)
    PROVE  LET r == RemoveAt(q, n)
           IN  /\ r \in Seq(Tasks) /\ Len(r) = Len(q) - 1
               /\ \A i \in 1 .. Len(r) : r[i] = IF i < n THEN q[i] ELSE q[i + 1]
<1>1. Len(q) \in Nat /\ \A i \in 1 .. Len(q) : q[i] \in Tasks
  BY LenProperties, ElementOfSeq DEF List
<1> DEFINE a == SubSeq(q, 1, n - 1)
           b == SubSeq(q, n + 1, Len(q))
<1>2. /\ a \in Seq(Tasks) /\ Len(a) = n - 1
      /\ \A i \in 1 .. n - 1 : a[i] = q[i]
  <2>1. 1 \in Int /\ n - 1 \in Int /\ \A i \in 1 .. n - 1 : q[i] \in Tasks
    BY <1>1
  <2>2. /\ a \in Seq(Tasks) /\ Len(a) = IF 1 <= n - 1 THEN (n - 1) - 1 + 1 ELSE 0
        /\ \A i \in 1 .. (n - 1) - 1 + 1 : a[i] = q[1 + i - 1]
    BY <2>1, SubSeqProperties
  <2> HIDE DEF a
  <2> QED  BY <1>1, <2>2
<1>3. /\ b \in Seq(Tasks) /\ Len(b) = Len(q) - n
      /\ \A i \in 1 .. Len(q) - n : b[i] = q[n + i]
  <2>1. n + 1 \in Int /\ Len(q) \in Int /\ \A i \in n + 1 .. Len(q) : q[i] \in Tasks
    BY <1>1
  <2>2. /\ b \in Seq(Tasks)
        /\ Len(b) = IF n + 1 <= Len(q) THEN Len(q) - (n + 1) + 1 ELSE 0
        /\ \A i \in 1 .. Len(q) - (n + 1) + 1 : b[i] = q[(n + 1) + i - 1]
    BY <2>1, SubSeqProperties
  <2> HIDE DEF b
  <2> QED  BY <1>1, <2>2
<1> HIDE DEF a, b
<1>4. /\ a \o b \in Seq(Tasks) /\ Len(a \o b) = Len(q) - 1
      /\ \A i \in 1 .. Len(a) + Len(b) :
            (a \o b)[i] = IF i <= Len(a) THEN a[i] ELSE b[i - Len(a)]
  <2>1. /\ a \o b \in Seq(Tasks) /\ Len(a \o b) = Len(a) + Len(b)
        /\ \A i \in 1 .. Len(a) + Len(b) :
              (a \o b)[i] = IF i <= Len(a) THEN a[i] ELSE b[i - Len(a)]
    BY <1>2, <1>3, ConcatProperties
  <2> QED  BY <1>1, <1>2, <1>3, <2>1
<1>5. RemoveAt(q, n) = a \o b
  BY DEF RemoveAt, a, b
<1>6. \A i \in 1 .. Len(q) - 1 : (a \o b)[i] = IF i < n THEN q[i] ELSE q[i + 1]
  <2> TAKE i \in 1 .. Len(q) - 1
  <2>1. i \in 1 .. Len(a) + Len(b)
    BY <1>1, <1>2, <1>3
  <2>2. CASE i < n
    <3>1. (a \o b)[i] = a[i] /\ a[i] = q[i]
      BY <1>1, <1>2, <1>4, <2>1, <2>2
    <3> QED  BY <2>2, <3>1
  <2>3. CASE ~(i < n)
    <3>1. (a \o b)[i] = b[i - Len(a)] /\ i - Len(a) \in 1 .. Len(q) - n
      BY <1>1, <1>2, <1>4, <2>1, <2>3
    <3>2. b[i - Len(a)] = q[n + (i - Len(a))] /\ n + (i - Len(a)) = i + 1
      BY <1>1, <1>2, <1>3, <3>1
    <3> QED  BY <2>3, <3>1, <3>2
  <2> QED  BY <2>2, <2>3
<1> QED  BY <1>4, <1>5, <1>6

LEMMA RemovedList ==
    ASSUME NEW q, List(q), NEW t \in Tasks
    PROVE  /\ List(RemoveFirst(q, t))
           /\ \A u : In(RemoveFirst(q, t), u) <=> In(q, u) /\ u # t
           /\ SameFirst(q, RemoveFirst(q, t), t)
<1> DEFINE r == RemoveFirst(q, t)
<1>0. Len(q) \in Nat
  BY LenProperties DEF List
<1>1. CASE ~In(q, t)
  <2>1. r = q
    BY <1>1 DEF RemoveFirst, In
  <2> QED  BY <1>1, <2>1 DEF SameFirst, In
<1>2. CASE In(q, t)
  <2> DEFINE I == {i \in 1 .. Len(q) : q[i] = t}
             n == SelectInSeq(q, LAMBDA v : v = t)
  <2>1. I # {} /\ I \in SUBSET Nat
    BY <1>2, <1>0 DEF In
  <2>2. n = Min(I)
    BY <2>1 DEF SelectInSeq
  <2>3. n \in 1 .. Len(q) /\ q[n] = t
    BY <2>1, <2>2, MinIsLeast
  <2>4. r = RemoveAt(q, n)
    BY <1>2 DEF RemoveFirst, In
  <2> HIDE DEF n
  <2>5. /\ r \in Seq(Tasks) /\ Len(r) = Len(q) - 1
        /\ \A i \in 1 .. Len(r) : r[i] = IF i < n THEN q[i] ELSE q[i + 1]
    BY <2>3, <2>4, RemovedAt
  <2> HIDE DEF r
  <2>6. \A i, j \in 1 .. Len(q) : q[i] = q[j] => i = j
    BY DEF List, NoRepeats
  <2>7. NoRepeats(r)
    <3> SUFFICES ASSUME NEW i \in 1 .. Len(r), NEW j \in 1 .. Len(r), r[i] = r[j]
                 PROVE  i = j
      BY DEF NoRepeats
    <3> QED  BY <1>0, <2>3, <2>5, <2>6
  <2>8. ASSUME NEW u, In(r, u) PROVE In(q, u) /\ u # t
    <3>1. PICK i \in 1 .. Len(r) : r[i] = u
      BY <2>8 DEF In
    <3>2. CASE i < n
      BY <1>0, <2>3, <2>5, <2>6, <3>1, <3>2 DEF In
    <3>3. CASE ~(i < n)
      <4>1. i + 1 \in 1 .. Len(q) /\ q[i + 1] = u
        BY <1>0, <2>3, <2>5, <3>1, <3>3
      <4>2. i + 1 # n
        BY <2>3, <3>3
      <4> QED  BY <2>3, <2>6, <4>1, <4>2 DEF In
    <3> QED  BY <3>2, <3>3
  <2>9. ASSUME NEW u, In(q, u), u # t PROVE In(r, u)
    <3>1. PICK i \in 1 .. Len(q) : q[i] = u
      BY <2>9 DEF In
    <3>2. CASE i < n
      <4>1. i \in 1 .. Len(r) /\ r[i] = u
        BY <1>0, <2>3, <2>5, <3>1, <3>2
      <4> QED  BY <4>1 DEF In
    <3>3. CASE ~(i < n)
      <4>1. i # n
        BY <2>3, <2>9, <3>1
      <4>2. i - 1 \in 1 .. Len(r) /\ ~(i - 1 < n)
        BY <1>0, <2>3, <2>5, <3>3, <4>1
      <4>3. r[i - 1] = q[(i - 1) + 1] /\ (i - 1) + 1 = i
        BY <2>5, <4>2
      <4> QED  BY <3>1, <4>2, <4>3 DEF In
    <3> QED  BY <3>2, <3>3
  <2>10. SameFirst(q, r, t)
    <3> SUFFICES ASSUME q # << >>, q[1] # t PROVE r # << >> /\ r[1] = q[1]
      BY DEF SameFirst
    <3>1. n # 1
      BY <2>3
    <3>2. 1 \in 1 .. Len(r) /\ 1 < n
      BY <1>0, <2>3, <2>5, <3>1
    <3>3. r[1] = q[1]
      BY <2>5, <3>2
    <3> QED  BY <2>5, <3>2, <3>3, EmptySeq
  <2> QED  BY <2>5, <2>7, <2>8, <2>9, <2>10 DEF List, r
<1> QED  BY <1>1, <1>2

------------------------------------------------------------------------------
(* One array of the runqueue: it holds the tasks of D, each in the list of *)
(* its level.                                                              *)
Arrays == {0, 1, Short}
ArrayType == [nr_active : Nat, bitmap : SUBSET Levels, queue : [Levels -> Seq(Tasks)]]

Holds(A, D, lev) ==
    /\ A \in ArrayType
    /\ A.nr_active = Cardinality(D)
    /\ \A k \in Levels :
          /\ k \in A.bitmap <=> A.queue[k] # << >>
          /\ List(A.queue[k])
          /\ \A t \in Tasks : In(A.queue[k], t) <=> t \in D /\ lev[t] = k

Without(A, t, level) ==
    LET queue == [k \in Levels |-> RemoveFirst(A.queue[k], t)]
    IN  [nr_active |-> A.nr_active - 1,
         queue |-> queue,
         bitmap |-> IF queue[level] = << >> THEN A.bitmap \ {level} ELSE A.bitmap]

With(A, t, level) ==
    [nr_active |-> A.nr_active + 1,
     queue |-> [A.queue EXCEPT ![level] = Append(@, t)],
     bitmap |-> A.bitmap \cup {level}]

FirstsKept(A, B, t) == \A k \in Levels : SameFirst(A.queue[k], B.queue[k], t)

LEMMA FiniteTasks == \A D \in SUBSET Tasks : IsFiniteSet(D) /\ Cardinality(D) \in Nat
BY FiniteAssumption, FS_Subset, FS_CardinalityType

LEMMA HoldsIf ==
    ASSUME NEW A, NEW D, NEW lev, Holds(A, D, lev), NEW lev2,
           \A t \in D : lev2[t] = lev[t]
    PROVE  Holds(A, D, lev2)
BY DEF Holds

LEMMA EmptyHolds == \A lev : Holds(EmptyArray, {}, lev)
<1> TAKE lev
<1>1. EmptyArray \in ArrayType
  BY EmptySeq DEF EmptyArray, ArrayType
<1>2. EmptyArray.nr_active = 0 /\ EmptyArray.bitmap = {}
      /\ \A k \in Levels : EmptyArray.queue[k] = << >>
  BY DEF EmptyArray
<1> QED  BY <1>1, <1>2, EmptyIsList, FS_EmptySet DEF Holds

LEMMA HoldsLess ==
    ASSUME NEW A, NEW D \in SUBSET Tasks, NEW lev \in [Tasks -> Levels], Holds(A, D, lev),
           NEW t \in D
    PROVE  /\ Holds(Without(A, t, lev[t]), D \ {t}, lev)
           /\ FirstsKept(A, Without(A, t, lev[t]), t)
<1> DEFINE B == Without(A, t, lev[t])
<1>1. A \in ArrayType /\ A.nr_active = Cardinality(D)
  BY DEF Holds
<1>2. \A k \in Levels : B.queue[k] = RemoveFirst(A.queue[k], t)
  BY DEF Without
<1>3. B.nr_active = A.nr_active - 1 /\ DOMAIN B.queue = Levels
      /\ B.queue = [k \in Levels |-> B.queue[k]]
      /\ B = [nr_active |-> B.nr_active, queue |-> B.queue, bitmap |-> B.bitmap]
  BY DEF Without
<1>4. B.bitmap = IF B.queue[lev[t]] = << >> THEN A.bitmap \ {lev[t]} ELSE A.bitmap
  BY DEF Without
<1> HIDE DEF B
<1>5. Cardinality(D \ {t}) = A.nr_active - 1 /\ Cardinality(D \ {t}) \in Nat
  BY <1>1, FiniteTasks, FS_RemoveElement
<1>6. ASSUME NEW k \in Levels
      PROVE  /\ List(B.queue[k])
             /\ \A u \in Tasks : In(B.queue[k], u) <=> u \in D \ {t} /\ lev[u] = k
             /\ SameFirst(A.queue[k], B.queue[k], t)
  <2>1. /\ List(A.queue[k])
        /\ \A u \in Tasks : In(A.queue[k], u) <=> u \in D /\ lev[u] = k
    BY DEF Holds
  <2>2. /\ List(B.queue[k])
        /\ \A u : In(B.queue[k], u) <=> In(A.queue[k], u) /\ u # t
        /\ SameFirst(A.queue[k], B.queue[k], t)
    BY <1>2, <2>1, RemovedList
  <2> QED  BY <2>1, <2>2
<1>7. ASSUME NEW k \in Levels PROVE k \in B.bitmap <=> B.queue[k] # << >>
  <2>0. k \in A.bitmap <=> A.queue[k] # << >>
    BY DEF Holds
  <2>1. CASE k = lev[t]
    <3>1. A.queue[k] # << >>
      <4>1. In(A.queue[k], t) /\ List(A.queue[k])
        BY <2>1 DEF Holds
      <4> QED  BY <4>1, EmptyHasNone
    <3> QED  BY <1>4, <2>0, <2>1, <3>1
  <2>2. CASE k # lev[t]
    <3>1. \A u \in Tasks : In(B.queue[k], u) <=> In(A.queue[k], u)
      BY <1>6, <2>2 DEF Holds
    <3>2. List(A.queue[k]) /\ List(B.queue[k])
      BY <1>6 DEF Holds
    <3>3. B.queue[k] = << >> <=> A.queue[k] = << >>
      BY <3>1, <3>2, EmptyHasNone
    <3>4. k \in B.bitmap <=> k \in A.bitmap
      BY <1>4, <2>2
    <3> QED  BY <2>0, <3>3, <3>4
  <2> QED  BY <2>1, <2>2
<1>8. B \in ArrayType
  <2>1. B.bitmap \in SUBSET Levels
    BY <1>1, <1>4 DEF ArrayType
  <2>2. B.queue \in [Levels -> Seq(Tasks)]
    BY <1>3, <1>6 DEF List
  <2> QED  BY <1>3, <1>5, <2>1, <2>2 DEF ArrayType
<1>9. Holds(B, D \ {t}, lev)
  BY <1>3, <1>5, <1>6, <1>7, <1>8 DEF Holds
<1>10. FirstsKept(A, B, t)
  BY <1>6 DEF FirstsKept
<1> QED  BY <1>9, <1>10 DEF B

LEMMA HoldsMore ==
    ASSUME NEW A, NEW D \in SUBSET Tasks, NEW lev \in [Tasks -> Levels], Holds(A, D, lev),
           NEW t \in Tasks, t \notin D
    PROVE  /\ Holds(With(A, t, lev[t]), D \cup {t}, lev)
           /\ FirstsKept(A, With(A, t, lev[t]), t)
<1> DEFINE B == With(A, t, lev[t])
<1>1. A \in ArrayType /\ A.nr_active = Cardinality(D)
  BY DEF Holds
<1>2. \A k \in Levels : B.queue[k] = IF k = lev[t] THEN Append(A.queue[k], t) ELSE A.queue[k]
  BY <1>1 DEF With, ArrayType
<1>3. B.nr_active = A.nr_active + 1 /\ DOMAIN B.queue = Levels
      /\ B.queue = [k \in Levels |-> B.queue[k]]
      /\ B.bitmap = A.bitmap \cup {lev[t]}
      /\ B = [nr_active |-> B.nr_active, bitmap |-> B.bitmap, queue |-> B.queue]
  BY <1>1 DEF With, ArrayType
<1> HIDE DEF B
<1>5. Cardinality(D \cup {t}) = A.nr_active + 1 /\ Cardinality(D \cup {t}) \in Nat
  BY <1>1, FiniteTasks, FS_AddElement
<1>6. ASSUME NEW k \in Levels
      PROVE  /\ List(B.queue[k])
             /\ \A u \in Tasks : In(B.queue[k], u) <=> u \in D \cup {t} /\ lev[u] = k
             /\ SameFirst(A.queue[k], B.queue[k], t)
             /\ k \in B.bitmap <=> B.queue[k] # << >>
  <2>1. /\ List(A.queue[k])
        /\ \A u \in Tasks : In(A.queue[k], u) <=> u \in D /\ lev[u] = k
        /\ k \in A.bitmap <=> A.queue[k] # << >>
    BY DEF Holds
  <2>2. CASE k = lev[t]
    <3>1. /\ List(B.queue[k])
          /\ \A u : In(B.queue[k], u) <=> In(A.queue[k], u) \/ u = t
          /\ SameFirst(A.queue[k], B.queue[k], t)
      BY <1>2, <2>1, <2>2, AppendedList
    <3>2. k \in B.bitmap
      BY <1>3, <2>2
    <3>3. B.queue[k] # << >>
      BY <3>1, EmptyHasNone
    <3>4. \A u \in Tasks : In(B.queue[k], u) <=> u \in D \cup {t} /\ lev[u] = k
      BY <2>1, <2>2, <3>1
    <3> QED  BY <3>1, <3>2, <3>3, <3>4
  <2>3. CASE k # lev[t]
    BY <1>2, <1>3, <2>1, <2>3 DEF SameFirst
  <2> QED  BY <2>2, <2>3
<1>8. B \in ArrayType
  <2>1. B.bitmap \in SUBSET Levels
    BY <1>1, <1>3 DEF ArrayType
  <2>2. B.queue \in [Levels -> Seq(Tasks)]
    BY <1>3, <1>6 DEF List
  <2> QED  BY <1>3, <1>5, <2>1, <2>2 DEF ArrayType
<1>9. Holds(B, D \cup {t}, lev)
  BY <1>3, <1>5, <1>6, <1>8 DEF Holds
<1>10. FirstsKept(A, B, t)
  BY <1>6 DEF FirstsKept
<1> QED  BY <1>9, <1>10 DEF B

------------------------------------------------------------------------------
(* The functions of sched.c, on S = [task, rq]: what each leaves of the    *)
(* arrays and of the tasks.                                                *)
TaskType == [state : {"free", "running", "sleeping", "zombie"},
             policy : Policies, prio : Levels,
             static_prio : NormalPrios, short_prio : Levels,
             time_left : Nat, time_slice : 1 .. MaxTimeSlice,
             first_time_slice : BOOLEAN,
             array : {None, 0, 1, Short}]
RqType == [active : {0, 1}, expired : {0, 1}, nr_running : Nat,
           arrays : [Arrays -> ArrayType]]
Sys == [task : [Tasks -> TaskType], rq : RqType]

On(S, a, out) == {t \in Tasks \ out : S.task[t].array = a}
Lev(S) == [t \in Tasks |-> Level(S.task[t])]

(* Every list holds the tasks that name it, but for those of out.          *)
Sane(S, out) ==
    /\ S \in Sys
    /\ S.rq.active # S.rq.expired
    /\ \A a \in Arrays : Holds(S.rq.arrays[a], On(S, a, out), Lev(S))

SameRq(S, T) == /\ T.rq.active = S.rq.active
                /\ T.rq.expired = S.rq.expired
                /\ T.rq.nr_running = S.rq.nr_running

LEMMA LevelIn == \A p \in TaskType : Level(p) \in Levels
BY DEF TaskType, Level

LEMMA LevType == \A S \in Sys : Lev(S) \in [Tasks -> Levels]
BY LevelIn DEF Lev, Sys

(* S with other tasks and other arrays. *)
Renewed(S, tasks, arrays) ==
    [task |-> tasks,
     rq |-> [active |-> S.rq.active, expired |-> S.rq.expired,
             nr_running |-> S.rq.nr_running, arrays |-> arrays]]

LEMMA ArrayExcept ==
    ASSUME NEW S \in Sys, NEW a, NEW W
    PROVE  [S EXCEPT !.rq.arrays[a] = W]
              = Renewed(S, S.task, [S.rq.arrays EXCEPT ![a] = W])
<1> DEFINE R == [S.rq.arrays EXCEPT ![a] = W]
<1>1. S = [task |-> S.task, rq |-> S.rq]
  BY DEF Sys
<1>2. S.rq = [active |-> S.rq.active, expired |-> S.rq.expired,
              nr_running |-> S.rq.nr_running, arrays |-> S.rq.arrays]
  BY DEF Sys, RqType
<1> HIDE DEF R
<1>3. [S.rq EXCEPT !.arrays = R]
         = [active |-> S.rq.active, expired |-> S.rq.expired,
            nr_running |-> S.rq.nr_running, arrays |-> R]
  BY <1>2
<1>4. \A r : [S EXCEPT !.rq = r] = [task |-> S.task, rq |-> r]
  BY <1>1
<1>5. [S EXCEPT !.rq = [S.rq EXCEPT !.arrays = R]] = Renewed(S, S.task, R)
  BY <1>3, <1>4 DEF Renewed
<1> QED  BY <1>5 DEF R

LEMMA DequeueEffect ==
    ASSUME NEW S \in Sys, NEW t \in Tasks, NEW a \in Arrays
    PROVE  dequeue_task(S, t, a)
              = Renewed(S, S.task, [S.rq.arrays EXCEPT
                                      ![a] = Without(S.rq.arrays[a], t, Level(S.task[t]))])
<1> DEFINE W == Without(S.rq.arrays[a], t, Level(S.task[t]))
<1>1. dequeue_task(S, t, a) = [S EXCEPT !.rq.arrays[a] = W]
  BY DEF dequeue_task, Without
<1> HIDE DEF W
<1>3. [S EXCEPT !.rq.arrays[a] = W]
         = Renewed(S, S.task, [S.rq.arrays EXCEPT ![a] = W])
  BY ArrayExcept, ZenonT(60)
<1> QED  BY <1>1, <1>3 DEF W

LEMMA EnqueueEffect ==
    ASSUME NEW S \in Sys, NEW t \in Tasks, NEW a \in Arrays
    PROVE  enqueue_task(S, t, a)
              = Renewed(S, [S.task EXCEPT ![t].array = a],
                        [S.rq.arrays EXCEPT
                           ![a] = With(S.rq.arrays[a], t, Level(S.task[t]))])
<1> DEFINE W == With(S.rq.arrays[a], t, Level(S.task[t]))
           ts == [S.task EXCEPT ![t].array = a]
<1>1. enqueue_task(S, t, a) = [S EXCEPT !.task = ts, !.rq.arrays[a] = W]
  BY DEF enqueue_task, With
<1> HIDE DEF W, ts
<1>2. [S EXCEPT !.task = ts, !.rq.arrays[a] = W]
         = Renewed(S, ts, [S.rq.arrays EXCEPT ![a] = W])
  <2> DEFINE R == [S.rq.arrays EXCEPT ![a] = W]
  <2>1. \A r : [S EXCEPT !.task = ts, !.rq = r] = [task |-> ts, rq |-> r]
    <3> DEFINE T == [S EXCEPT !.task = ts]
    <3>1. S = [task |-> S.task, rq |-> S.rq]
      BY DEF Sys
    <3>2. T = [task |-> ts, rq |-> S.rq]
      BY <3>1
    <3> HIDE DEF T
    <3>3. \A r : [T EXCEPT !.rq = r] = [task |-> ts, rq |-> r]
      BY <3>2
    <3> QED  BY <3>3 DEF T
  <2>2. S.rq = [active |-> S.rq.active, expired |-> S.rq.expired,
                nr_running |-> S.rq.nr_running, arrays |-> S.rq.arrays]
    BY DEF Sys, RqType
  <2> HIDE DEF R
  <2>3. [S.rq EXCEPT !.arrays = R]
           = [active |-> S.rq.active, expired |-> S.rq.expired,
              nr_running |-> S.rq.nr_running, arrays |-> R]
    BY <2>2
  <2>4. [S EXCEPT !.task = ts].rq = S.rq
    OBVIOUS
  <2>5. [S EXCEPT !.task = ts, !.rq = [S.rq EXCEPT !.arrays = R]] = Renewed(S, ts, R)
    BY <2>1, <2>3 DEF Renewed
  <2> QED  BY <2>4, <2>5 DEF R
<1> QED  BY <1>1, <1>2 DEF W, ts

LEMMA RenewedFields ==
    ASSUME NEW S, NEW ts, NEW R
    PROVE  LET T == Renewed(S, ts, R)
           IN  T.task = ts /\ T.rq.arrays = R /\ SameRq(S, T)
BY DEF Renewed, SameRq

LEMMA RenewedType ==
    ASSUME NEW S \in Sys, NEW ts \in [Tasks -> TaskType], NEW R \in [Arrays -> ArrayType]
    PROVE  Renewed(S, ts, R) \in Sys
BY DEF Renewed, Sys, RqType

(* Changes of the tasks that are out, and of the rest of the runqueue.     *)
LEMMA SaneChanged ==
    ASSUME NEW S, NEW out \in SUBSET Tasks, Sane(S, out),
           NEW T \in Sys, T.rq.active # T.rq.expired, T.rq.arrays = S.rq.arrays,
           \A u \in Tasks \ out : /\ T.task[u].array = S.task[u].array
                                  /\ Level(T.task[u]) = Level(S.task[u])
    PROVE  Sane(T, out)
<1> SUFFICES ASSUME NEW a \in Arrays
             PROVE  Holds(T.rq.arrays[a], On(T, a, out), Lev(T))
  BY DEF Sane
<1>1. Holds(S.rq.arrays[a], On(S, a, out), Lev(S))
  BY DEF Sane
<1>2. On(T, a, out) = On(S, a, out)
  BY DEF On
<1>3. \A u \in On(S, a, out) : Lev(T)[u] = Lev(S)[u]
  BY DEF On, Lev
<1>4. Holds(S.rq.arrays[a], On(S, a, out), Lev(T))
  BY <1>1, <1>3, HoldsIf
<1> QED  BY <1>2, <1>4

LEMMA SaneDequeue ==
    ASSUME NEW S, Sane(S, {}), NEW t \in Tasks, NEW a \in Arrays, S.task[t].array = a
    PROVE  LET T == dequeue_task(S, t, a)
           IN  /\ Sane(T, {t}) /\ T.task = S.task /\ SameRq(S, T)
               /\ \A b \in Arrays : FirstsKept(S.rq.arrays[b], T.rq.arrays[b], t)
<1> DEFINE W == Without(S.rq.arrays[a], t, Lev(S)[t])
           R == [S.rq.arrays EXCEPT ![a] = W]
           T == dequeue_task(S, t, a)
<1>1. S \in Sys /\ S.rq.active # S.rq.expired /\ Lev(S) \in [Tasks -> Levels]
  BY LevType DEF Sane
<1>2. Lev(S)[t] = Level(S.task[t])
  BY DEF Lev
<1>3. T = Renewed(S, S.task, R)
  BY <1>1, <1>2, DequeueEffect
<1> HIDE DEF T
<1>4. t \in On(S, a, {}) /\ On(S, a, {}) \in SUBSET Tasks
  BY DEF On
<1>5. Holds(S.rq.arrays[a], On(S, a, {}), Lev(S))
  BY DEF Sane
<1>6. Holds(W, On(S, a, {}) \ {t}, Lev(S)) /\ FirstsKept(S.rq.arrays[a], W, t)
  BY <1>1, <1>4, <1>5, HoldsLess
<1> HIDE DEF W
<1>7. /\ S.task \in [Tasks -> TaskType] /\ S.rq.arrays \in [Arrays -> ArrayType]
      /\ W \in ArrayType
  BY <1>1, <1>6 DEF Sys, RqType, Holds
<1>8. R \in [Arrays -> ArrayType] /\ R[a] = W /\ \A b \in Arrays \ {a} : R[b] = S.rq.arrays[b]
  BY <1>7
<1> HIDE DEF R
<1>9. T \in Sys
  BY <1>1, <1>3, <1>7, <1>8, RenewedType
<1>10. T.task = S.task /\ T.rq.arrays = R /\ SameRq(S, T)
  BY <1>3, RenewedFields
<1>11. Lev(T) = Lev(S)
  BY <1>10 DEF Lev
<1>12. ASSUME NEW b \in Arrays
       PROVE  /\ Holds(T.rq.arrays[b], On(T, b, {t}), Lev(T))
              /\ FirstsKept(S.rq.arrays[b], T.rq.arrays[b], t)
  <2>1. CASE b = a
    <3>1. On(T, b, {t}) = On(S, a, {}) \ {t}
      BY <1>10, <2>1 DEF On
    <3> QED  BY <1>6, <1>8, <1>10, <1>11, <2>1, <3>1
  <2>2. CASE b # a
    <3>1. On(T, b, {t}) = On(S, b, {})
      BY <1>10, <2>2 DEF On
    <3>2. T.rq.arrays[b] = S.rq.arrays[b] /\ Holds(S.rq.arrays[b], On(S, b, {}), Lev(S))
      BY <1>8, <1>10, <2>2 DEF Sane
    <3>3. FirstsKept(S.rq.arrays[b], S.rq.arrays[b], t)
      BY DEF FirstsKept, SameFirst
    <3> QED  BY <1>11, <3>1, <3>2, <3>3
  <2> QED  BY <2>1, <2>2
<1>13. Sane(T, {t})
  BY <1>1, <1>9, <1>10, <1>12 DEF Sane, SameRq
<1> QED  BY <1>10, <1>12, <1>13 DEF T

LEMMA SaneEnqueue ==
    ASSUME NEW S, NEW t \in Tasks, Sane(S, {t}), NEW a \in Arrays
    PROVE  LET T == enqueue_task(S, t, a)
           IN  /\ Sane(T, {}) /\ T.task = [S.task EXCEPT ![t].array = a] /\ SameRq(S, T)
               /\ \A b \in Arrays : FirstsKept(S.rq.arrays[b], T.rq.arrays[b], t)
<1> DEFINE W == With(S.rq.arrays[a], t, Lev(S)[t])
           R == [S.rq.arrays EXCEPT ![a] = W]
           ts == [S.task EXCEPT ![t].array = a]
           T == enqueue_task(S, t, a)
<1>1. S \in Sys /\ S.rq.active # S.rq.expired /\ Lev(S) \in [Tasks -> Levels]
  BY LevType DEF Sane
<1>2. Lev(S)[t] = Level(S.task[t])
  BY DEF Lev
<1>3. T = Renewed(S, ts, R)
  BY <1>1, <1>2, EnqueueEffect
<1> HIDE DEF T
<1>4. t \notin On(S, a, {t}) /\ On(S, a, {t}) \in SUBSET Tasks
  BY DEF On
<1>5. Holds(S.rq.arrays[a], On(S, a, {t}), Lev(S))
  BY DEF Sane
<1>6. Holds(W, On(S, a, {t}) \cup {t}, Lev(S)) /\ FirstsKept(S.rq.arrays[a], W, t)
  BY <1>1, <1>4, <1>5, HoldsMore
<1> HIDE DEF W
<1>7. /\ S.task \in [Tasks -> TaskType] /\ S.rq.arrays \in [Arrays -> ArrayType]
      /\ W \in ArrayType
  BY <1>1, <1>6 DEF Sys, RqType, Holds
<1>8. R \in [Arrays -> ArrayType] /\ R[a] = W /\ \A b \in Arrays \ {a} : R[b] = S.rq.arrays[b]
  BY <1>7
<1> HIDE DEF R
<1>80. /\ ts \in [Tasks -> TaskType] /\ ts[t].array = a /\ Level(ts[t]) = Level(S.task[t])
       /\ \A u \in Tasks \ {t} : ts[u] = S.task[u]
  <2>1. S.task[t] \in TaskType /\ a \in {None, 0, 1, Short}
    BY <1>7 DEF Arrays
  <2> DEFINE p == [S.task[t] EXCEPT !.array = a]
  <2>2. p \in TaskType /\ p.array = a /\ Level(p) = Level(S.task[t])
    BY <2>1 DEF TaskType, Level
  <2>3. ts = [S.task EXCEPT ![t] = p]
    OBVIOUS
  <2> HIDE DEF p, ts
  <2> QED  BY <1>7, <2>2, <2>3
<1> HIDE DEF ts
<1>9. T \in Sys
  BY <1>1, <1>3, <1>80, <1>8, RenewedType
<1>10. T.task = ts /\ T.rq.arrays = R /\ SameRq(S, T)
  BY <1>3, RenewedFields
<1>11. Lev(T) = Lev(S)
  BY <1>80, <1>10 DEF Lev
<1>12. ASSUME NEW b \in Arrays
       PROVE  /\ Holds(T.rq.arrays[b], On(T, b, {}), Lev(T))
              /\ FirstsKept(S.rq.arrays[b], T.rq.arrays[b], t)
  <2>1. CASE b = a
    <3>1. On(T, b, {}) = On(S, a, {t}) \cup {t}
      BY <1>10, <1>80, <2>1 DEF On
    <3> QED  BY <1>6, <1>8, <1>10, <1>11, <2>1, <3>1
  <2>2. CASE b # a
    <3>1. On(T, b, {}) = On(S, b, {t})
      BY <1>10, <1>80, <2>2 DEF On
    <3>2. T.rq.arrays[b] = S.rq.arrays[b] /\ Holds(S.rq.arrays[b], On(S, b, {t}), Lev(S))
      BY <1>8, <1>10, <2>2 DEF Sane
    <3>3. FirstsKept(S.rq.arrays[b], S.rq.arrays[b], t)
      BY DEF FirstsKept, SameFirst
    <3> QED  BY <1>11, <3>1, <3>2, <3>3
  <2> QED  BY <2>1, <2>2
<1>13. Sane(T, {})
  BY <1>1, <1>9, <1>10, <1>12 DEF Sane, SameRq
<1> QED  BY <1>10, <1>12, <1>13 DEF T, ts

(* S with other tasks, and with another number of runnable tasks. *)
LEMMA TasksChanged ==
    ASSUME NEW S \in Sys, NEW ts \in [Tasks -> TaskType]
    PROVE  LET T == [S EXCEPT !.task = ts]
           IN  T \in Sys /\ T.task = ts /\ T.rq = S.rq
BY DEF Sys

LEMMA RunningChanged ==
    ASSUME NEW S \in Sys, NEW n \in Nat
    PROVE  LET T == [S EXCEPT !.rq.nr_running = n]
           IN  /\ T \in Sys /\ T.task = S.task
               /\ T.rq.arrays = S.rq.arrays /\ T.rq.nr_running = n
               /\ T.rq.active = S.rq.active /\ T.rq.expired = S.rq.expired
<1> DEFINE r == [S.rq EXCEPT !.nr_running = n]
           T == [S EXCEPT !.rq = r]
<1>1. /\ r \in RqType /\ r.arrays = S.rq.arrays /\ r.nr_running = n
      /\ r.active = S.rq.active /\ r.expired = S.rq.expired
  BY DEF Sys, RqType
<1> HIDE DEF r
<1>2. T \in Sys /\ T.task = S.task /\ T.rq = r
  BY <1>1 DEF Sys
<1>3. T = [S EXCEPT !.rq.nr_running = n]
  BY DEF r
<1> HIDE DEF T
<1> QED  BY <1>1, <1>2, <1>3

LEMMA ActiveType == \A S \in Sys : S.rq.active \in Arrays /\ S.rq.expired \in Arrays
BY DEF Sys, RqType, Arrays

Runnable(S) == {t \in Tasks : S.task[t].array # None}
Count(S) == S.rq.nr_running = Cardinality(Runnable(S))

LEMMA SaneActivate ==
    ASSUME NEW S, NEW t \in Tasks, Sane(S, {t}), Count(S), S.task[t].array = None,
           NEW e \in Levels
    PROVE  LET T == activate_task(S, t, e)
               p == S.task[t]
               prio == IF rt_task(p) \/ p.policy = "SHORT" THEN p.prio ELSE e
           IN  /\ Sane(T, {}) /\ Count(T)
               /\ T.task = [S.task EXCEPT ![t] = [[@ EXCEPT !.prio = prio]
                                                     EXCEPT !.array = ArrayFor(S, t)]]
               /\ T.rq.active = S.rq.active /\ T.rq.expired = S.rq.expired
               /\ \A b \in Arrays : FirstsKept(S.rq.arrays[b], T.rq.arrays[b], t)
<1> DEFINE p == S.task[t]
           prio == IF rt_task(p) \/ p.policy = "SHORT" THEN p.prio ELSE e
           ts == [S.task EXCEPT ![t].prio = prio]
           U == [S EXCEPT !.task = ts]
           a == ArrayFor(S, t)
           V == enqueue_task(U, t, a)
           T == [V EXCEPT !.rq.nr_running = @ + 1]
<1>1. /\ S \in Sys /\ S.rq.active # S.rq.expired
      /\ S.task \in [Tasks -> TaskType] /\ p \in TaskType /\ S.rq.nr_running \in Nat
  BY DEF Sane, Sys, RqType
<1>2. a \in Arrays
  BY <1>1, ActiveType DEF ArrayFor, Arrays
<1>3. /\ ts \in [Tasks -> TaskType] /\ ts[t] = [p EXCEPT !.prio = prio]
      /\ \A u \in Tasks \ {t} : ts[u] = S.task[u]
  <2>1. prio \in Levels
    BY <1>1 DEF TaskType
  <2>2. [p EXCEPT !.prio = prio] \in TaskType
    BY <1>1, <2>1 DEF TaskType
  <2> HIDE DEF p, prio
  <2>3. ts = [S.task EXCEPT ![t] = [p EXCEPT !.prio = prio]]
    BY DEF p
  <2> HIDE DEF ts
  <2> QED  BY <1>1, <2>2, <2>3
<1>4. activate_task(S, t, e) = T
  <2>1. CASE rt_task(p) \/ p.policy = "SHORT"
    <3>1. prio = p.prio
      BY <2>1
    <3>2. [p EXCEPT !.prio = prio] = p
      BY <1>1, <3>1 DEF TaskType
    <3>3. ts = S.task
      BY <1>1, <1>3, <3>2
    <3>4. U = S
      BY <1>1, <3>3 DEF Sys
    <3> HIDE DEF U
    <3> QED  BY <2>1, <3>4 DEF activate_task
  <2>2. CASE ~(rt_task(p) \/ p.policy = "SHORT")
    <3>1. prio = e
      BY <2>2
    <3>2. U = [S EXCEPT !.task[t].prio = e]
      BY <3>1
    <3> HIDE DEF U
    <3> QED  BY <2>2, <3>2 DEF activate_task
  <2> QED  BY <2>1, <2>2
<1> HIDE DEF ts, a
<1>5. U \in Sys /\ U.task = ts /\ U.rq = S.rq
  BY <1>1, <1>3, TasksChanged
<1> HIDE DEF U
<1>6. Sane(U, {t})
  <2>1. \A u \in Tasks \ {t} : /\ U.task[u].array = S.task[u].array
                               /\ Level(U.task[u]) = Level(S.task[u])
    BY <1>3, <1>5
  <2>2. U.rq.active # U.rq.expired /\ U.rq.arrays = S.rq.arrays
    BY <1>1, <1>5
  <2> QED  BY <1>5, <2>1, <2>2, SaneChanged
<1>7. /\ Sane(V, {}) /\ V.task = [ts EXCEPT ![t].array = a] /\ SameRq(U, V)
      /\ \A b \in Arrays : FirstsKept(U.rq.arrays[b], V.rq.arrays[b], t)
  BY <1>2, <1>5, <1>6, SaneEnqueue
<1> HIDE DEF V
<1>8. V \in Sys /\ V.rq.active # V.rq.expired /\ V.rq.nr_running \in Nat
  BY <1>7 DEF Sane, Sys, RqType
<1>9. /\ T \in Sys /\ T.task = V.task
      /\ T.rq.arrays = V.rq.arrays /\ T.rq.nr_running = V.rq.nr_running + 1
      /\ T.rq.active = V.rq.active /\ T.rq.expired = V.rq.expired
  <2>1. V.rq.nr_running + 1 \in Nat
    BY <1>8
  <2> QED  BY <1>8, <2>1, RunningChanged
<1> HIDE DEF T
<1>10. Sane(T, {})
  <2>1. \A u \in Tasks \ {} : /\ T.task[u].array = V.task[u].array
                              /\ Level(T.task[u]) = Level(V.task[u])
    BY <1>9
  <2>2. T.rq.active # T.rq.expired
    BY <1>8, <1>9
  <2> QED  BY <1>7, <1>9, <2>1, <2>2, SaneChanged
<1>11. /\ T.task[t] = [ts[t] EXCEPT !.array = a] /\ ts[t] \in TaskType
       /\ \A u \in Tasks \ {t} : T.task[u] = ts[u]
  BY <1>3, <1>7, <1>9
<1>12. T.task = [S.task EXCEPT ![t] = [[p EXCEPT !.prio = prio] EXCEPT !.array = a]]
  <2>1. T.task \in [Tasks -> TaskType]
    BY <1>9 DEF Sys
  <2> DEFINE w == [[p EXCEPT !.prio = prio] EXCEPT !.array = a]
  <2>2. T.task[t] = w
    BY <1>3, <1>11
  <2> HIDE DEF w, p, prio
  <2>3. T.task = [S.task EXCEPT ![t] = w]
    BY <1>1, <1>3, <1>11, <2>1, <2>2
  <2> QED  BY <2>3 DEF w
<1>13. Count(T)
  <2>1. T.task[t].array = a
    BY <1>11 DEF TaskType
  <2>2. a # None
    BY <1>2 DEF Arrays, None, Short
  <2>3. Runnable(T) = Runnable(S) \cup {t} /\ t \notin Runnable(S)
    <3>1. \A u \in Tasks \ {t} : T.task[u].array = S.task[u].array
      BY <1>3, <1>11
    <3> HIDE DEF p, prio
    <3> QED  BY <2>1, <2>2, <3>1 DEF Runnable
  <2>4. IsFiniteSet(Runnable(S)) /\ Cardinality(Runnable(S)) \in Nat
    BY FiniteTasks DEF Runnable
  <2>5. Cardinality(Runnable(T)) = Cardinality(Runnable(S)) + 1
    BY <2>3, <2>4, FS_AddElement
  <2>6. T.rq.nr_running = S.rq.nr_running + 1
    BY <1>5, <1>7, <1>9 DEF SameRq
  <2> QED  BY <2>5, <2>6 DEF Count
<1>14. T.rq.active = S.rq.active /\ T.rq.expired = S.rq.expired
  BY <1>5, <1>7, <1>9 DEF SameRq
<1>15. \A b \in Arrays : FirstsKept(S.rq.arrays[b], T.rq.arrays[b], t)
  BY <1>5, <1>7, <1>9
<1> QED  BY <1>4, <1>10, <1>12, <1>13, <1>14, <1>15 DEF a

LEMMA SaneDeactivate ==
    ASSUME NEW S, Sane(S, {}), Count(S), NEW t \in Tasks, S.task[t].array # None
    PROVE  LET T == deactivate_task(S, t)
           IN  /\ Sane(T, {t}) /\ Count(T)
               /\ T.task = [S.task EXCEPT ![t].array = None]
               /\ T.rq.active = S.rq.active /\ T.rq.expired = S.rq.expired
               /\ \A b \in Arrays : FirstsKept(S.rq.arrays[b], T.rq.arrays[b], t)
<1> DEFINE a == S.task[t].array
           U == dequeue_task(S, t, a)
           n == U.rq.nr_running - 1
           V == [U EXCEPT !.rq.nr_running = n]
           ts == [S.task EXCEPT ![t].array = None]
           T == [V EXCEPT !.task = ts]
<1>1. /\ S \in Sys /\ S.rq.active # S.rq.expired /\ S.rq.nr_running \in Nat
      /\ S.task \in [Tasks -> TaskType] /\ S.task[t] \in TaskType
  BY DEF Sane, Sys, RqType
<1>2. a \in Arrays
  BY <1>1 DEF TaskType, Arrays
<1>3. /\ Sane(U, {t}) /\ U.task = S.task /\ SameRq(S, U)
      /\ \A b \in Arrays : FirstsKept(S.rq.arrays[b], U.rq.arrays[b], t)
  <2> HIDE DEF a
  <2> QED  BY <1>2, SaneDequeue DEF a
<1>30. deactivate_task(S, t)
          = [U EXCEPT !.rq.nr_running = U.rq.nr_running - 1, !.task[t].array = None]
  BY DEF deactivate_task
<1> HIDE DEF U
<1>4. U \in Sys
  BY <1>3 DEF Sane
<1>5. /\ n \in Nat
      /\ n = Cardinality(Runnable(S) \ {t}) /\ t \in Runnable(S)
  <2>1. t \in Runnable(S) /\ Runnable(S) \in SUBSET Tasks
    BY DEF Runnable
  <2>2. IsFiniteSet(Runnable(S)) /\ Cardinality(Runnable(S) \ {t}) \in Nat
    BY <2>1, FiniteTasks
  <2>3. Cardinality(Runnable(S) \ {t}) = Cardinality(Runnable(S)) - 1
    BY <2>1, <2>2, FS_RemoveElement
  <2>4. U.rq.nr_running = Cardinality(Runnable(S))
    BY <1>3 DEF SameRq, Count
  <2> QED  BY <2>1, <2>2, <2>3, <2>4
<1>6. /\ V \in Sys /\ V.task = S.task
      /\ V.rq.arrays = U.rq.arrays /\ V.rq.nr_running = n
      /\ V.rq.active = S.rq.active /\ V.rq.expired = S.rq.expired
  <2> HIDE DEF n
  <2>1. /\ V \in Sys /\ V.task = U.task
        /\ V.rq.arrays = U.rq.arrays /\ V.rq.nr_running = n
        /\ V.rq.active = U.rq.active /\ V.rq.expired = U.rq.expired
    BY <1>4, <1>5, RunningChanged
  <2> HIDE DEF V
  <2> QED  BY <1>3, <2>1 DEF SameRq
<1>7. /\ ts \in [Tasks -> TaskType] /\ ts[t].array = None
      /\ \A u \in Tasks \ {t} : ts[u] = S.task[u]
  <2> DEFINE w == [S.task[t] EXCEPT !.array = None]
  <2>1. w \in TaskType /\ w.array = None
    BY <1>1 DEF TaskType
  <2>2. ts = [S.task EXCEPT ![t] = w]
    OBVIOUS
  <2> HIDE DEF w, ts
  <2> QED  BY <1>1, <2>1, <2>2
<1>8. deactivate_task(S, t) = T
  <2>1. [U EXCEPT !.rq.nr_running = n, !.task[t].array = None]
           = [V EXCEPT !.task = [V.task EXCEPT ![t].array = None]]
    OBVIOUS
  <2>2. [V EXCEPT !.task = [V.task EXCEPT ![t].array = None]] = T
    <3> HIDE DEF V
    <3> QED  BY <1>6
  <2> HIDE DEF V, T
  <2> QED  BY <1>30, <2>1, <2>2
<1> HIDE DEF V, ts
<1>9. T \in Sys /\ T.task = ts /\ T.rq = V.rq
  BY <1>6, <1>7, TasksChanged
<1> HIDE DEF T
<1>10. Sane(T, {t})
  <2>1. \A u \in Tasks \ {t} : /\ T.task[u].array = U.task[u].array
                               /\ Level(T.task[u]) = Level(U.task[u])
    BY <1>3, <1>7, <1>9
  <2>2. T.rq.active # T.rq.expired /\ T.rq.arrays = U.rq.arrays
    BY <1>1, <1>6, <1>9
  <2> QED  BY <1>3, <1>9, <2>1, <2>2, SaneChanged
<1>11. Count(T)
  <2>1. Runnable(T) = Runnable(S) \ {t}
    BY <1>7, <1>9 DEF Runnable
  <2> QED  BY <1>5, <1>6, <1>9, <2>1 DEF Count
<1>12. /\ T.rq.active = S.rq.active /\ T.rq.expired = S.rq.expired
       /\ \A b \in Arrays : FirstsKept(S.rq.arrays[b], T.rq.arrays[b], t)
  BY <1>3, <1>6, <1>9
<1> QED  BY <1>8, <1>9, <1>10, <1>11, <1>12 DEF ts

------------------------------------------------------------------------------
(* One task changed. *)
Put(S, t, p) == [S EXCEPT !.task = [S.task EXCEPT ![t] = p]]

LEMMA Puts ==
    ASSUME NEW S \in Sys, NEW t \in Tasks, NEW p \in TaskType
    PROVE  LET T == Put(S, t, p)
           IN  /\ T \in Sys /\ T.rq = S.rq /\ T.task[t] = p
               /\ T.task = [S.task EXCEPT ![t] = p]
               /\ \A u \in Tasks \ {t} : T.task[u] = S.task[u]
<1> DEFINE ts == [S.task EXCEPT ![t] = p]
<1>1. S.task \in [Tasks -> TaskType]
  BY DEF Sys
<1>2. /\ ts \in [Tasks -> TaskType] /\ ts[t] = p
      /\ \A u \in Tasks \ {t} : ts[u] = S.task[u]
  BY <1>1
<1> HIDE DEF ts
<1>3. LET T == [S EXCEPT !.task = ts] IN T \in Sys /\ T.task = ts /\ T.rq = S.rq
  BY <1>2, TasksChanged
<1> QED  BY <1>2, <1>3 DEF Put, ts

LEMMA PutGives ==
    ASSUME NEW S \in Sys, NEW t \in Tasks, NEW p \in TaskType
    PROVE  /\ Put(S, t, p) \in Sys /\ Put(S, t, p).rq = S.rq
           /\ Put(S, t, p).task[t] = p
           /\ \A u \in Tasks \ {t} : Put(S, t, p).task[u] = S.task[u]
<1> DEFINE T == Put(S, t, p)
<1>1. /\ T \in Sys /\ T.rq = S.rq /\ T.task[t] = p
      /\ T.task = [S.task EXCEPT ![t] = p]
      /\ \A u \in Tasks \ {t} : T.task[u] = S.task[u]
  BY Puts
<1> HIDE DEF T
<1>2. /\ T \in Sys /\ T.rq = S.rq /\ T.task[t] = p
      /\ \A u \in Tasks \ {t} : T.task[u] = S.task[u]
  BY <1>1
<1> QED  BY <1>2 DEF T

LEMMA PutPut ==
    ASSUME NEW S \in Sys, NEW t \in Tasks, NEW p \in TaskType, NEW q \in TaskType
    PROVE  Put(Put(S, t, p), t, q) = Put(S, t, q)
<1> DEFINE T == Put(S, t, p)
           ts == [S.task EXCEPT ![t] = q]
<1>1. T \in Sys /\ T.rq = S.rq /\ T.task = [S.task EXCEPT ![t] = p]
  BY Puts
<1> HIDE DEF T
<1>2. S.task \in [Tasks -> TaskType]
  BY DEF Sys
<1>3. [T.task EXCEPT ![t] = q] = ts
  BY <1>1, <1>2
<1> HIDE DEF ts
<1>4. [T EXCEPT !.task = ts] = [S EXCEPT !.task = ts]
  BY <1>1 DEF Sys
<1> QED  BY <1>3, <1>4 DEF Put, T, ts

LEMMA TaskOf == \A S \in Sys, t \in Tasks : S.task[t] \in TaskType
BY DEF Sys

LEMMA SaneType == \A S, out : Sane(S, out) => S \in Sys
BY DEF Sane

LEMMA SanePut ==
    ASSUME NEW S, NEW t \in Tasks, NEW p \in TaskType
    PROVE  /\ Sane(S, {t}) => Sane(Put(S, t, p), {t})
           /\ Sane(S, {}) /\ p.array = S.task[t].array /\ Level(p) = Level(S.task[t])
                 => Sane(Put(S, t, p), {})
           /\ S \in Sys /\ Count(S) /\ (p.array = None <=> S.task[t].array = None)
                 => Count(Put(S, t, p))
<1> DEFINE T == Put(S, t, p)
<1>1. S \in Sys => /\ T \in Sys /\ T.rq = S.rq /\ T.task[t] = p
                   /\ \A u \in Tasks \ {t} : T.task[u] = S.task[u]
  BY PutGives
<1> HIDE DEF T
<1>2. ASSUME NEW out \in SUBSET {t}, Sane(S, out),
             t \notin out => p.array = S.task[t].array /\ Level(p) = Level(S.task[t])
      PROVE  Sane(T, out)
  <2>1. S \in Sys /\ S.rq.active # S.rq.expired
    BY <1>2 DEF Sane
  <2>2. T \in Sys /\ T.rq.active # T.rq.expired /\ T.rq.arrays = S.rq.arrays
    BY <1>1, <2>1
  <2>3. \A u \in Tasks \ out : /\ T.task[u].array = S.task[u].array
                               /\ Level(T.task[u]) = Level(S.task[u])
    BY <1>1, <1>2, <2>1
  <2>4. out \in SUBSET Tasks
    OBVIOUS
  <2> QED  BY <1>2, <2>2, <2>3, <2>4, SaneChanged
<1>3. Sane(S, {t}) => Sane(T, {t})
  BY <1>2
<1>4. Sane(S, {}) /\ p.array = S.task[t].array /\ Level(p) = Level(S.task[t]) => Sane(T, {})
  BY <1>2
<1>5. ASSUME S \in Sys, Count(S), p.array = None <=> S.task[t].array = None
      PROVE  Count(T)
  <2>1. Runnable(T) = Runnable(S)
    BY <1>1, <1>5 DEF Runnable
  <2> QED  BY <1>1, <1>5, <2>1 DEF Count
<1> QED  BY <1>3, <1>4, <1>5 DEF T

(* A task that changes while it is out of the lists, and then enters one.  *)
Moved(S, t, a, p, b) == enqueue_task(Put(dequeue_task(S, t, a), t, p), t, b)

MoveOk(S, T, t, p, b) ==
    /\ Sane(T, {}) /\ Count(T) /\ SameRq(S, T)
    /\ T.task[t] = [p EXCEPT !.array = b]
    /\ \A u \in Tasks \ {t} : T.task[u] = S.task[u]

LEMMA SaneMove ==
    ASSUME NEW S, Sane(S, {}), Count(S), NEW t \in Tasks, NEW a \in Arrays,
           S.task[t].array = a, NEW p \in TaskType, p.array # None, NEW b \in Arrays
    PROVE  MoveOk(S, Moved(S, t, a, p, b), t, p, b)
<1> DEFINE D == dequeue_task(S, t, a)
           U == Put(D, t, p)
           T == enqueue_task(U, t, b)
           w == [p EXCEPT !.array = b]
<1>1. Sane(D, {t}) /\ D.task = S.task /\ SameRq(S, D)
  BY SaneDequeue
<1> HIDE DEF D
<1>2. D \in Sys /\ S \in Sys /\ S.task \in [Tasks -> TaskType]
  BY <1>1 DEF Sane, Sys
<1>3. Sane(U, {t}) /\ U.rq = D.rq /\ U.task = [S.task EXCEPT ![t] = p]
  <2>1. U.rq = D.rq /\ U.task = [D.task EXCEPT ![t] = p]
    BY <1>2, Puts
  <2>2. Sane(U, {t})
    BY <1>1, SanePut
  <2> HIDE DEF U
  <2> QED  BY <1>1, <2>1, <2>2
<1> HIDE DEF U
<1>4. Sane(T, {}) /\ T.task = [U.task EXCEPT ![t].array = b] /\ SameRq(U, T)
  BY <1>3, SaneEnqueue
<1> HIDE DEF T
<1>5. /\ T.task[t] = w
      /\ \A u \in Tasks \ {t} : T.task[u] = S.task[u]
      /\ T.task = [S.task EXCEPT ![t] = w]
  <2>1. U.task \in [Tasks -> TaskType] /\ U.task[t] = p
        /\ \A u \in Tasks \ {t} : U.task[u] = S.task[u]
    BY <1>2, <1>3
  <2>2. T.task = [U.task EXCEPT ![t] = [U.task[t] EXCEPT !.array = b]]
    BY <1>4
  <2>3. T.task = [U.task EXCEPT ![t] = w]
    BY <2>1, <2>2
  <2> HIDE DEF w
  <2> QED  BY <1>2, <1>3, <2>1, <2>3
<1>6. SameRq(S, T)
  BY <1>1, <1>3, <1>4 DEF SameRq
<1>7. Count(T)
  <2>1. w.array = b /\ b # None
    BY DEF TaskType, Arrays, None, Short
  <2>2. S.task[t].array # None
    BY DEF Arrays, None, Short
  <2>3. \A u \in Tasks : T.task[u].array # None <=> S.task[u].array # None
    BY <1>5, <2>1, <2>2
  <2>4. Runnable(T) = Runnable(S)
    BY <2>3 DEF Runnable
  <2> QED  BY <1>6, <2>4 DEF Count, SameRq
<1>8. MoveOk(S, T, t, p, b)
  BY <1>4, <1>5, <1>6, <1>7 DEF MoveOk, w
<1> QED  BY <1>8 DEF T, U, D, Moved

------------------------------------------------------------------------------
(* scheduler_tick() *)
LEMMA Numbers ==
    /\ MAX_RT_PRIO \in Nat /\ MAX_RT_PRIO > 0 /\ MAX_PRIO \in Nat /\ MAX_RT_PRIO < MAX_PRIO
    /\ NormalPrios \subseteq Levels /\ Levels \subseteq Nat
    /\ \A x \in NormalPrios : x >= MAX_RT_PRIO
    /\ TimeSlice \in 1 .. MaxTimeSlice
    /\ 0 \in Levels /\ MAX_RT_PRIO \in NormalPrios
BY PrioAssumption, SliceAssumption DEF NormalPrios, Levels

LEMMA EffectiveNormal == \A x \in Int : EffectivePrios(x) \subseteq NormalPrios
<1> SUFFICES ASSUME NEW x \in Int, NEW b \in -MaxBonus .. MaxBonus
             PROVE  Max({MAX_RT_PRIO, Min({MAX_PRIO - 1, x - b})}) \in NormalPrios
  BY DEF EffectivePrios
<1>1. MAX_RT_PRIO \in Int /\ MAX_PRIO - 1 \in Int /\ x - b \in Int
  BY PrioAssumption, BonusAssumption
<1> DEFINE m == Min({MAX_PRIO - 1, x - b})
<1>2. m = IF MAX_PRIO - 1 <= x - b THEN MAX_PRIO - 1 ELSE x - b
  BY <1>1, OfTwo
<1> HIDE DEF m
<1>3. m \in Int /\ m <= MAX_PRIO - 1
  BY <1>1, <1>2
<1>4. Max({MAX_RT_PRIO, m}) = IF MAX_RT_PRIO <= m THEN m ELSE MAX_RT_PRIO
  BY <1>1, <1>3, OfTwo
<1> QED  BY <1>3, <1>4, PrioAssumption DEF NormalPrios, m

LEMMA StaticIsInt == \A p \in TaskType : StaticInTick(p) \in Int
<1> TAKE p \in TaskType
<1>1. p.static_prio \in Nat
  BY Numbers DEF TaskType
<1>2. p.static_prio + ShortPenalty \in Int /\ MAX_PRIO - 1 \in Int
  BY <1>1, PrioAssumption, BonusAssumption
<1>3. Min({p.static_prio + ShortPenalty, MAX_PRIO - 1}) \in Int
  BY <1>2, OfTwo
<1> QED  BY <1>1, <1>3 DEF StaticInTick

Sliced(p) == [[p EXCEPT !.time_slice = TimeSlice] EXCEPT !.first_time_slice = FALSE]

(* All that the queues depend on is the same; no time is gained.           *)
Kept(p, q) == /\ q.state = p.state /\ q.policy = p.policy /\ q.array = p.array
              /\ q.prio = p.prio /\ q.short_prio = p.short_prio
              /\ q.time_left <= p.time_left

LEMMA KeptSame == \A p \in TaskType : Kept(p, p)
<1> TAKE p \in TaskType
<1>1. p.time_left \in Nat
  BY DEF TaskType
<1> QED  BY <1>1 DEF Kept

LEMMA SlicedKept ==
    \A p \in TaskType : Sliced(p) \in TaskType /\ Kept(p, Sliced(p))
<1> TAKE p \in TaskType
<1>1. TimeSlice \in 1 .. MaxTimeSlice /\ p.time_left \in Nat
  BY Numbers DEF TaskType
<1>2. Sliced(p) \in TaskType
  BY <1>1 DEF Sliced, TaskType
<1>3. Kept(p, Sliced(p))
  BY <1>1 DEF Kept, Sliced, TaskType
<1> QED  BY <1>2, <1>3

LEMMA KeptLevel ==
    ASSUME NEW p, NEW q, Kept(p, q)
    PROVE  Level(q) = Level(p) /\ (rt_task(q) <=> rt_task(p))
BY DEF Kept, Level, rt_task

LEMMA SlicePut ==
    ASSUME NEW S \in Sys, NEW t \in Tasks
    PROVE  NewSlice(S, t) = Put(S, t, Sliced(S.task[t]))
<1> DEFINE p == [S.task[t] EXCEPT !.time_slice = TimeSlice]
           q == [p EXCEPT !.first_time_slice = FALSE]
           T == Put(S, t, p)
<1>1. S.task[t] \in TaskType /\ TimeSlice \in 1 .. MaxTimeSlice
  BY TaskOf, Numbers
<1>2. p \in TaskType
  BY <1>1 DEF TaskType
<1> HIDE DEF p
<1>3. q \in TaskType
  BY <1>2 DEF TaskType
<1> HIDE DEF q
<1>4. T.task[t] = p
  BY <1>2, PutGives
<1>5. NewSlice(S, t) = [T EXCEPT !.task[t].first_time_slice = FALSE]
  BY DEF NewSlice, Put, p
<1>6. [T EXCEPT !.task[t].first_time_slice = FALSE]
         = Put(T, t, [T.task[t] EXCEPT !.first_time_slice = FALSE])
  BY DEF Put
<1>7. [T.task[t] EXCEPT !.first_time_slice = FALSE] = q
  BY <1>4 DEF q
<1>8. Put(T, t, q) = Put(S, t, q)
  BY <1>2, <1>3, PutPut
<1>9. q = Sliced(S.task[t])
  BY DEF q, p, Sliced
<1> HIDE DEF T
<1> QED  BY <1>5, <1>6, <1>7, <1>8, <1>9

LEMMA PutSame == \A S \in Sys, t \in Tasks : Put(S, t, S.task[t]) = S
<1> TAKE S \in Sys, t \in Tasks
<1>1. [S.task EXCEPT ![t] = S.task[t]] = S.task
  BY DEF Sys
<1> QED  BY <1>1 DEF Put, Sys

TickOutcome(S, p, q) ==
    \/ Kept(p, q)
    \/ /\ p.policy # "SHORT" /\ ~rt_task(p)
       /\ q.state = p.state /\ q.policy = p.policy /\ q.time_left = p.time_left
       /\ q.prio \in NormalPrios /\ q.array \in {S.rq.active, S.rq.expired}
    \/ /\ p.policy = "SHORT"
       /\ q.state = p.state /\ q.policy = "OTHER" /\ q.time_left = 0
       /\ q.prio \in NormalPrios /\ q.array = S.rq.active

TickOk(S, t, T, resched) ==
    /\ Sane(T, {}) /\ Count(T)
    /\ T.rq.active = S.rq.active /\ T.rq.expired = S.rq.expired
    /\ \A u \in Tasks \ {t} : T.task[u] = S.task[u]
    /\ TickOutcome(S, S.task[t], T.task[t])
    /\ ~resched => /\ T.rq = S.rq /\ Kept(S.task[t], T.task[t])
                   /\ S.task[t].array \in {S.rq.active, Short}

LEMMA TickPut ==
    ASSUME NEW S, Sane(S, {}), Count(S), NEW t \in Tasks, NEW q \in TaskType,
           Kept(S.task[t], q), S.task[t].array \in {S.rq.active, Short}
    PROVE  TickOk(S, t, Put(S, t, q), FALSE)
<1> DEFINE T == Put(S, t, q)
<1>1. S \in Sys /\ S.task[t] \in TaskType
  BY SaneType, TaskOf
<1>2. q.array = S.task[t].array /\ Level(q) = Level(S.task[t])
  BY KeptLevel DEF Kept
<1>3. Sane(T, {}) /\ Count(T)
  BY <1>1, <1>2, SanePut
<1>4. /\ T.rq = S.rq /\ T.task[t] = q
      /\ \A u \in Tasks \ {t} : T.task[u] = S.task[u]
  BY <1>1, PutGives
<1> HIDE DEF T
<1>5. TickOutcome(S, S.task[t], T.task[t])
  BY <1>4 DEF TickOutcome
<1> QED  BY <1>3, <1>4, <1>5 DEF TickOk, T

LEMMA TickRtOk ==
    ASSUME NEW S, Sane(S, {}), Count(S), NEW t \in Tasks,
           S.task[t].array = S.rq.active, rt_task(S.task[t])
    PROVE  TickOk(S, t, TickRt(S, t).sys, TickRt(S, t).resched)
<1> DEFINE p == S.task[t]
           a == S.rq.active
<1>1. S \in Sys /\ p \in TaskType /\ a \in Arrays
  BY SaneType, TaskOf, ActiveType
<1>2. S = Put(S, t, p)
  BY <1>1, PutSame
<1>3. CASE p.policy # "RR"
  <2>1. TickRt(S, t).sys = S /\ TickRt(S, t).resched = FALSE
    BY <1>3 DEF TickRt, Ticked
  <2>2. TickOk(S, t, S, FALSE)
    BY <1>1, <1>2, KeptSame, TickPut
  <2> QED  BY <2>1, <2>2
<1>4. CASE p.policy = "RR" /\ p.time_slice > 1
  <2> DEFINE q == [p EXCEPT !.time_slice = @ - 1]
  <2>1. p.time_slice - 1 \in 1 .. MaxTimeSlice /\ p.time_left \in Nat
    BY <1>1, <1>4, SliceAssumption DEF TaskType
  <2>2. q \in TaskType /\ Kept(p, q)
    BY <1>1, <2>1 DEF TaskType, Kept
  <2>3. TickRt(S, t).sys = Put(S, t, q) /\ TickRt(S, t).resched = FALSE
    BY <1>4 DEF TickRt, Ticked, Put
  <2> HIDE DEF q
  <2>4. TickOk(S, t, Put(S, t, q), FALSE)
    BY <2>2, TickPut
  <2> QED  BY <2>3, <2>4
<1>5. CASE p.policy = "RR" /\ ~(p.time_slice > 1)
  <2> DEFINE N == Put(S, t, Sliced(p))
             D == dequeue_task(N, t, a)
             T == enqueue_task(D, t, a)
  <2>1. TickRt(S, t).sys = T /\ TickRt(S, t).resched = TRUE
    <3>1. NewSlice(S, t) = N
      BY <1>1, SlicePut
    <3>2. TickRt(S, t) = Ticked(T, TRUE)
      BY <1>5, <3>1 DEF TickRt
    <3> HIDE DEF T
    <3> QED  BY <3>2 DEF Ticked
  <2>2. Sliced(p) \in TaskType /\ Kept(p, Sliced(p))
    BY <1>1, SlicedKept
  <2>3. TickOk(S, t, N, FALSE)
    BY <2>2, TickPut
  <2>4. N.task[t] = Sliced(p)
    BY <1>1, <2>2, PutGives
  <2> HIDE DEF N
  <2>5. /\ Sane(N, {}) /\ Count(N) /\ N.rq = S.rq
        /\ \A u \in Tasks \ {t} : N.task[u] = S.task[u]
    BY <2>3 DEF TickOk
  <2>6. N.task[t].array = a /\ N.task[t] \in TaskType
    BY <2>2, <2>4 DEF Kept
  <2>7. N \in Sys
    BY <2>5, SaneType
  <2>8. Put(D, t, N.task[t]) = D
    <3>1. Sane(D, {t}) /\ D.task = N.task
      BY <1>1, <2>5, <2>6, SaneDequeue
    <3> HIDE DEF D
    <3>2. D \in Sys
      BY <3>1, SaneType
    <3>3. Put(D, t, D.task[t]) = D
      BY <3>2, PutSame
    <3> QED  BY <3>1, <3>3
  <2>9. a # None
    BY <1>1 DEF Arrays, None, Short
  <2>10. /\ Sane(T, {}) /\ Count(T) /\ SameRq(N, T)
         /\ T.task[t] = [N.task[t] EXCEPT !.array = a]
         /\ \A u \in Tasks \ {t} : T.task[u] = N.task[u]
    <3>1. MoveOk(N, Moved(N, t, a, N.task[t], a), t, N.task[t], a)
      <4> HIDE DEF a
      <4>1. a \in Arrays /\ N.task[t].array = a /\ N.task[t].array # None
        BY <1>1, <2>6, <2>9 DEF a
      <4> QED  BY <2>5, <2>6, <4>1, SaneMove
    <3>2. Moved(N, t, a, N.task[t], a) = T
      BY <2>8 DEF Moved
    <3> HIDE DEF T
    <3> QED  BY <3>1, <3>2 DEF MoveOk
  <2> HIDE DEF T, D
  <2>11. T.task[t] = Sliced(p)
    <3>1. [N.task[t] EXCEPT !.array = a] = N.task[t]
      BY <2>6 DEF TaskType
    <3> QED  BY <2>4, <2>10, <3>1
  <2>12. T.rq.active = S.rq.active /\ T.rq.expired = S.rq.expired
    BY <2>5, <2>10 DEF SameRq
  <2>13. TickOutcome(S, p, T.task[t])
    BY <2>2, <2>11 DEF TickOutcome
  <2>14. TickOk(S, t, T, TRUE)
    BY <2>5, <2>10, <2>12, <2>13 DEF TickOk
  <2> QED  BY <2>1, <2>14
<1> QED  BY <1>3, <1>4, <1>5

LEMMA TickOtherOk ==
    ASSUME NEW S, Sane(S, {}), Count(S), NEW t \in Tasks,
           S.task[t].array = S.rq.active, ~rt_task(S.task[t]), S.task[t].policy # "SHORT",
           NEW e \in NormalPrios, NEW stays \in BOOLEAN
    PROVE  TickOk(S, t, TickOther(S, t, e, stays).sys, TickOther(S, t, e, stays).resched)
<1> DEFINE p == S.task[t]
           a == S.rq.active
<1>1. S \in Sys /\ p \in TaskType /\ a \in Arrays /\ S.rq.expired \in Arrays
  BY SaneType, TaskOf, ActiveType
<1>4. CASE p.time_slice > 1
  <2> DEFINE q == [p EXCEPT !.time_slice = @ - 1]
  <2>1. p.time_slice - 1 \in 1 .. MaxTimeSlice /\ p.time_left \in Nat
    BY <1>1, <1>4, SliceAssumption DEF TaskType
  <2>2. q \in TaskType /\ Kept(p, q)
    BY <1>1, <2>1 DEF TaskType, Kept
  <2>3. /\ TickOther(S, t, e, stays).sys = Put(S, t, q)
        /\ TickOther(S, t, e, stays).resched = FALSE
    BY <1>4 DEF TickOther, Ticked, Put
  <2> HIDE DEF q
  <2>4. TickOk(S, t, Put(S, t, q), FALSE)
    BY <2>2, TickPut
  <2> QED  BY <2>3, <2>4
<1>5. CASE ~(p.time_slice > 1)
  <2> DEFINE D == dequeue_task(S, t, a)
             q == [p EXCEPT !.prio = e]
             b == IF stays THEN S.rq.active ELSE S.rq.expired
             T == enqueue_task(Put(D, t, Sliced(q)), t, b)
  <2>1. Sane(D, {t}) /\ D.task = S.task
    BY <1>1, SaneDequeue
  <2>2. q \in TaskType /\ q.array = a /\ q.policy = p.policy /\ q.state = p.state
        /\ q.prio = e /\ q.time_left = p.time_left
    BY <1>1, Numbers DEF TaskType
  <2>3. /\ TickOther(S, t, e, stays).sys = T
        /\ TickOther(S, t, e, stays).resched = TRUE
    <3> HIDE DEF D, q
    <3>1. D \in Sys
      BY <2>1, SaneType
    <3>2. [D EXCEPT !.task[t].prio = e] = Put(D, t, q)
      BY <2>1 DEF Put, q
    <3>3. Put(D, t, q) \in Sys /\ Put(D, t, q).task[t] = q
      BY <2>2, <3>1, PutGives
    <3>4. NewSlice(Put(D, t, q), t) = Put(Put(D, t, q), t, Sliced(q))
      BY <3>3, SlicePut
    <3>5. Put(Put(D, t, q), t, Sliced(q)) = Put(D, t, Sliced(q))
      BY <2>2, <3>1, SlicedKept, PutPut
    <3>6. TickOther(S, t, e, stays)
            = Ticked(enqueue_task(NewSlice([D EXCEPT !.task[t].prio = e], t), t, b), TRUE)
      BY <1>5 DEF TickOther, D
    <3>7. TickOther(S, t, e, stays) = Ticked(T, TRUE)
      BY <3>2, <3>4, <3>5, <3>6
    <3> HIDE DEF T
    <3> QED  BY <3>7 DEF Ticked
  <2> HIDE DEF q
  <2>4. b \in Arrays /\ a # None
    BY <1>1 DEF Arrays, None, Short
  <2> HIDE DEF b
  <2>5. Sliced(q) \in TaskType /\ Kept(q, Sliced(q))
    BY <2>2, SlicedKept
  <2>6. Sliced(q).array # None
    BY <2>2, <2>4, <2>5 DEF Kept
  <2>7. MoveOk(S, Moved(S, t, a, Sliced(q), b), t, Sliced(q), b)
    <3> HIDE DEF a
    <3>1. a \in Arrays /\ S.task[t].array = a
      BY <1>1 DEF a
    <3> QED  BY <2>4, <2>5, <2>6, <3>1, SaneMove
  <2>70. T = Moved(S, t, a, Sliced(q), b)
    BY DEF Moved
  <2> HIDE DEF T
  <2>8. /\ Sane(T, {}) /\ Count(T) /\ SameRq(S, T)
        /\ T.task[t] = [Sliced(q) EXCEPT !.array = b]
        /\ \A u \in Tasks \ {t} : T.task[u] = S.task[u]
    BY <2>7, <2>70 DEF MoveOk
  <2>9. /\ T.task[t].state = p.state /\ T.task[t].policy = p.policy
        /\ T.task[t].prio = e /\ T.task[t].array = b /\ T.task[t].time_left = p.time_left
    <3>1. /\ Sliced(q).state = p.state /\ Sliced(q).policy = p.policy
          /\ Sliced(q).prio = e /\ Sliced(q).time_left = p.time_left
      <4>1. Sliced(q).time_left = q.time_left
        BY <2>2 DEF Sliced, TaskType
      <4> QED  BY <2>2, <2>5, <4>1 DEF Kept
    <3> HIDE DEF p
    <3> QED  BY <2>5, <2>8, <3>1 DEF TaskType
  <2>10. b \in {S.rq.active, S.rq.expired}
    BY DEF b
  <2>11. TickOutcome(S, p, T.task[t])
    BY <2>9, <2>10 DEF TickOutcome
  <2>12. TickOk(S, t, T, TRUE)
    BY <2>8, <2>11 DEF TickOk, SameRq
  <2> QED  BY <2>3, <2>12
<1> QED  BY <1>4, <1>5

LEMMA TickShortOk ==
    ASSUME NEW S, Sane(S, {}), Count(S), NEW t \in Tasks,
           S.task[t].array = Short, S.task[t].policy = "SHORT", NEW e \in NormalPrios
    PROVE  TickOk(S, t, TickShort(S, t, e).sys, TickShort(S, t, e).resched)
<1> DEFINE p == S.task[t]
           a == S.rq.active
<1>1. S \in Sys /\ p \in TaskType /\ a \in Arrays /\ Short \in Arrays
  BY SaneType, TaskOf, ActiveType DEF Arrays
<1>4. CASE p.time_left > 1
  <2> DEFINE q == [p EXCEPT !.time_left = @ - 1]
  <2>1. p.time_left - 1 \in Nat /\ p.time_left - 1 <= p.time_left
    BY <1>1, <1>4 DEF TaskType
  <2>2. q \in TaskType /\ Kept(p, q)
    BY <1>1, <2>1 DEF TaskType, Kept
  <2>3. /\ TickShort(S, t, e).sys = Put(S, t, q)
        /\ TickShort(S, t, e).resched = FALSE
    BY <1>4 DEF TickShort, Ticked, Put
  <2> HIDE DEF q
  <2>4. TickOk(S, t, Put(S, t, q), FALSE)
    BY <2>2, TickPut
  <2> QED  BY <2>3, <2>4
<1>5. CASE ~(p.time_left > 1)
  <2> DEFINE D == dequeue_task(S, t, Short)
             v == IF p.static_prio + ShortPenalty < MAX_PRIO - 1
                  THEN p.static_prio + ShortPenalty ELSE MAX_PRIO - 1
             p1 == [p EXCEPT !.policy = "OTHER"]
             p2 == [p1 EXCEPT !.time_left = 0]
             p3 == [p2 EXCEPT !.short_prio = 0]
             p4 == [p3 EXCEPT !.static_prio = v]
             q == [p4 EXCEPT !.prio = e]
             X1 == Put(D, t, p1)
             X2 == [X1 EXCEPT !.task[t].time_left = 0]
             X3 == [X2 EXCEPT !.task[t].short_prio = 0]
             X4 == [X3 EXCEPT !.task[t].static_prio = v]
             X5 == [X4 EXCEPT !.task[t].prio = e]
             T == enqueue_task(Put(D, t, Sliced(q)), t, a)
  <2>1. Sane(D, {t}) /\ D.task = S.task
    BY <1>1, SaneDequeue
  <2>2. D \in Sys
    BY <2>1, SaneType
  <2>3. v \in NormalPrios
    <3>1. /\ p.static_prio \in Nat /\ p.static_prio >= MAX_RT_PRIO
          /\ ShortPenalty \in Nat /\ MAX_PRIO \in Nat /\ MAX_RT_PRIO \in Nat
          /\ MAX_RT_PRIO < MAX_PRIO
      BY <1>1, Numbers, BonusAssumption DEF TaskType, NormalPrios
    <3> HIDE DEF p
    <3> QED  BY <3>1 DEF NormalPrios
  <2> HIDE DEF v
  <2>4. p1 \in TaskType /\ p1.static_prio = p.static_prio
    BY <1>1 DEF TaskType, Policies
  <2>5. p2 \in TaskType
    <3> HIDE DEF p1
    <3> QED  BY <2>4 DEF TaskType
  <2>6. p3 \in TaskType
    <3> HIDE DEF p2
    <3> QED  BY <2>5, Numbers DEF TaskType
  <2>7. p4 \in TaskType
    <3> HIDE DEF p3
    <3> QED  BY <2>3, <2>6 DEF TaskType
  <2>8. q \in TaskType
    <3> HIDE DEF p4
    <3> QED  BY <2>7, Numbers DEF TaskType
  <2>9. /\ q.array = Short /\ q.policy = "OTHER" /\ q.state = p.state
        /\ q.prio = e /\ q.time_left = 0
    BY <1>1 DEF TaskType
  <2>10. X1.task[t] = p1 /\ X1 = [D EXCEPT !.task[t].policy = "OTHER"]
    <3>1. X1.task[t] = p1
      <4> HIDE DEF p1
      <4> QED  BY <2>2, <2>4, PutGives
    <3>2. X1 = [D EXCEPT !.task[t].policy = "OTHER"]
      BY <2>1 DEF Put
    <3> QED  BY <3>1, <3>2
  <2>11. TickShort(S, t, e) = Ticked(enqueue_task(NewSlice(X5, t), t, a), TRUE)
    <3>1. ShortExpired(S, t) = X1
      BY <2>10 DEF ShortExpired
    <3>2. X1.task[t].static_prio = p.static_prio
      BY <2>4, <2>10
    <3>3. X5 = [X1 EXCEPT !.task[t].time_left = 0,
                          !.task[t].short_prio = 0,
                          !.task[t].static_prio =
                             IF X1.task[t].static_prio + ShortPenalty < MAX_PRIO - 1
                             THEN X1.task[t].static_prio + ShortPenalty ELSE MAX_PRIO - 1,
                          !.task[t].prio = e]
      BY <3>2 DEF v
    <3> HIDE DEF X1, X5
    <3> QED  BY <1>5, <3>1, <3>3 DEF TickShort
  <2> HIDE DEF q, p4
  <2>12. X2 = Put(D, t, p2)
    <3> HIDE DEF p1
    <3>1. X2 = Put(X1, t, p2)
      BY <2>10 DEF Put
    <3> HIDE DEF p2
    <3> QED  BY <2>2, <2>4, <2>5, <3>1, PutPut
  <2> HIDE DEF X1, p1, X2
  <2>13. X3 = Put(D, t, p3)
    <3> HIDE DEF p2
    <3>1. X2.task[t] = p2
      BY <2>2, <2>5, <2>12, PutGives
    <3>2. X3 = Put(X2, t, p3)
      BY <3>1 DEF Put
    <3> HIDE DEF p3, X3
    <3> QED  BY <2>2, <2>5, <2>6, <2>12, <3>2, PutPut
  <2> HIDE DEF p2, X3
  <2>14. X4 = Put(D, t, p4)
    <3> HIDE DEF p3
    <3>1. X3.task[t] = p3
      BY <2>2, <2>6, <2>13, PutGives
    <3>2. X4 = Put(X3, t, p4)
      BY <3>1 DEF Put, p4
    <3> HIDE DEF X4
    <3> QED  BY <2>2, <2>6, <2>7, <2>13, <3>2, PutPut
  <2> HIDE DEF p3, X4
  <2>15. X5 = Put(D, t, q)
    <3>1. X4.task[t] = p4
      BY <2>2, <2>7, <2>14, PutGives
    <3>2. X5 = Put(X4, t, q)
      BY <3>1 DEF Put, q
    <3> HIDE DEF X5
    <3> QED  BY <2>2, <2>7, <2>8, <2>14, <3>2, PutPut
  <2> HIDE DEF X5
  <2>16. NewSlice(X5, t) = Put(D, t, Sliced(q))
    <3>1. X5 \in Sys /\ X5.task[t] = q
      BY <2>2, <2>8, <2>15, PutGives
    <3>2. NewSlice(X5, t) = Put(X5, t, Sliced(q))
      BY <3>1, SlicePut
    <3>3. Put(Put(D, t, q), t, Sliced(q)) = Put(D, t, Sliced(q))
      BY <2>2, <2>8, SlicedKept, PutPut
    <3> QED  BY <2>15, <3>2, <3>3
  <2>17. /\ TickShort(S, t, e).sys = T
         /\ TickShort(S, t, e).resched = TRUE
    <3>1. TickShort(S, t, e) = Ticked(T, TRUE)
      BY <2>11, <2>16
    <3> HIDE DEF T
    <3> QED  BY <3>1 DEF Ticked
  <2>18. Sliced(q) \in TaskType /\ Kept(q, Sliced(q))
    BY <2>8, SlicedKept
  <2>19. Sliced(q).array # None
    BY <2>9, <2>18 DEF Kept, Short, None
  <2>20. MoveOk(S, Moved(S, t, Short, Sliced(q), a), t, Sliced(q), a)
    <3> HIDE DEF a
    <3>1. a \in Arrays
      BY <1>1 DEF a
    <3> QED  BY <1>1, <2>18, <2>19, <3>1, SaneMove
  <2>21. T = Moved(S, t, Short, Sliced(q), a)
    BY DEF Moved
  <2> HIDE DEF T
  <2>22. /\ Sane(T, {}) /\ Count(T) /\ SameRq(S, T)
         /\ T.task[t] = [Sliced(q) EXCEPT !.array = a]
         /\ \A u \in Tasks \ {t} : T.task[u] = S.task[u]
    BY <2>20, <2>21 DEF MoveOk
  <2>23. /\ T.task[t].state = p.state /\ T.task[t].policy = "OTHER"
         /\ T.task[t].prio = e /\ T.task[t].array = a /\ T.task[t].time_left = 0
    <3>1. /\ Sliced(q).state = p.state /\ Sliced(q).policy = "OTHER"
          /\ Sliced(q).prio = e /\ Sliced(q).time_left = 0
      <4>1. Sliced(q).time_left = q.time_left
        BY <2>8 DEF Sliced, TaskType
      <4> QED  BY <2>9, <2>18, <4>1 DEF Kept
    <3> HIDE DEF p
    <3> QED  BY <2>18, <2>22, <3>1 DEF TaskType
  <2>24. TickOutcome(S, p, T.task[t])
    BY <2>23 DEF TickOutcome
  <2>25. TickOk(S, t, T, TRUE)
    BY <2>22, <2>24 DEF TickOk, SameRq
  <2> QED  BY <2>17, <2>25
<1> QED  BY <1>4, <1>5

(* What a task on the runqueue is like: its array follows from its policy. *)
Placed(S, t) ==
    /\ S.task[t].array # None
    /\ S.task[t].policy = "SHORT" <=> S.task[t].array = Short
    /\ rt_task(S.task[t]) => S.task[t].array = S.rq.active

LEMMA TickedOk ==
    ASSUME NEW S, Sane(S, {}), Count(S), NEW t \in Tasks, Placed(S, t),
           NEW e \in NormalPrios, NEW stays \in BOOLEAN
    PROVE  LET R == scheduler_tick(S, t, e, stays)
           IN  TickOk(S, t, R.sys, R.resched)
<1> DEFINE p == S.task[t]
           a == S.rq.active
<1>1. S \in Sys /\ p \in TaskType /\ a \in {0, 1}
  <2>1. S \in Sys
    BY SaneType
  <2> QED  BY <2>1, TaskOf DEF Sys, RqType
<1>2. CASE p.array \notin {a, Short}
  <2>1. scheduler_tick(S, t, e, stays) = Ticked(S, TRUE)
    BY <1>2 DEF scheduler_tick
  <2>2. scheduler_tick(S, t, e, stays).sys = S /\ scheduler_tick(S, t, e, stays).resched = TRUE
    BY <2>1 DEF Ticked
  <2>3. TickOk(S, t, S, TRUE)
    BY <1>1, KeptSame DEF TickOk, TickOutcome
  <2> QED  BY <2>2, <2>3
<1>3. CASE p.array \in {a, Short} /\ rt_task(p)
  <2>1. scheduler_tick(S, t, e, stays) = TickRt(S, t)
    BY <1>3 DEF scheduler_tick
  <2>2. p.array = a
    BY <1>3 DEF Placed
  <2> QED  BY <1>3, <2>1, <2>2, TickRtOk
<1>4. CASE p.array \in {a, Short} /\ ~rt_task(p) /\ p.policy = "SHORT"
  <2>1. scheduler_tick(S, t, e, stays) = TickShort(S, t, e)
    BY <1>4 DEF scheduler_tick
  <2>2. p.array = Short
    BY <1>4 DEF Placed
  <2> QED  BY <1>4, <2>1, <2>2, TickShortOk
<1>5. CASE p.array \in {a, Short} /\ ~rt_task(p) /\ p.policy # "SHORT"
  <2>1. scheduler_tick(S, t, e, stays) = TickOther(S, t, e, stays)
    BY <1>5 DEF scheduler_tick
  <2>2. p.array = a
    BY <1>5 DEF Placed
  <2> QED  BY <1>5, <2>1, <2>2, TickOtherOk
<1> QED  BY <1>2, <1>3, <1>4, <1>5

------------------------------------------------------------------------------
(* The invariant. *)

(* One task: it is queued when it is runnable, the array follows from the  *)
(* policy, the priority from the policy, and a free slot is on no queue.   *)
TaskOk(S, t, c) ==
    /\ S.task[t].state = "running" => S.task[t].array # None
    /\ S.task[t].array # None => Placed(S, t)
    /\ S.task[t].array # None /\ S.task[t].state # "running" => t = c
    /\ S.task[t].policy \in {"FIFO", "RR"} => rt_task(S.task[t])
    /\ S.task[t].policy = "OTHER" => ~rt_task(S.task[t])
    /\ S.task[t].state = "free" => S.task[t].policy = "OTHER" /\ S.task[t].array = None

Queues(S, c) == Sane(S, {}) /\ Count(S) /\ \A t \in Tasks : TaskOk(S, t, c)

(* The current task c, with r for need_resched and s for calling. *)
CurrentOk(S, c, r, s) ==
    c # Idle =>
        /\ S.task[c].array # None
        /\ S.task[c].state # "running" => s
        /\ r \/ s \/ S.task[c].array \in {S.rq.active, Short}

ClassIn(S, t) ==
    IF rt_task(S.task[t]) THEN 0
    ELSE IF S.task[t].policy = "SHORT" THEN 1
    ELSE IF S.task[t].array = S.rq.active THEN 2 ELSE 3

(* t has no better claim than c *)
NotBefore(S, t, c) ==
    /\ c # Idle
    /\ ~ (ClassIn(S, t) < ClassIn(S, c))
    /\ ClassIn(S, t) = ClassIn(S, c) => ~ (Level(S.task[t]) < Level(S.task[c]))

BestIn(S, c) == \A t \in Tasks : S.task[t].array # None => NotBefore(S, t, c)

(* A short task that runs is the first of the first list of short_pr. *)
FirstIn(S, c) ==
    S.task[c].policy = "SHORT" =>
        /\ \A t \in Tasks : S.task[t].array = Short
                               => Level(S.task[c]) <= Level(S.task[t])
        /\ S.rq.arrays[Short].queue[Level(S.task[c])] # << >>
        /\ S.rq.arrays[Short].queue[Level(S.task[c])][1] = c

LEMMA OthersOk ==
    ASSUME NEW S, NEW T, NEW t, NEW c, \A u \in Tasks : TaskOk(S, u, c),
           \A u \in Tasks \ {t} : T.task[u] = S.task[u], T.rq.active = S.rq.active
    PROVE  \A u \in Tasks \ {t} : TaskOk(T, u, c)
BY DEF TaskOk, Placed

LEMMA SaneOut ==
    ASSUME NEW S, NEW t \in Tasks, S.task[t].array = None
    PROVE  Sane(S, {t}) <=> Sane(S, {})
<1>1. \A a \in Arrays : On(S, a, {t}) = On(S, a, {})
  <2> TAKE a \in Arrays
  <2>1. a # None
    BY DEF Arrays, None, Short
  <2> QED  BY <2>1 DEF On
<1> QED  BY <1>1 DEF Sane

LEMMA Listed ==
    ASSUME NEW S, Sane(S, {}), NEW t \in Tasks, NEW a \in Arrays, S.task[t].array = a
    PROVE  LET k == Level(S.task[t])
           IN  /\ k \in Levels /\ k \in S.rq.arrays[a].bitmap
               /\ In(S.rq.arrays[a].queue[k], t)
               /\ S.rq.arrays[a].queue[k] # << >>
<1> DEFINE k == Level(S.task[t])
<1>1. k \in Levels
  BY SaneType, TaskOf, LevelIn
<1>2. Holds(S.rq.arrays[a], On(S, a, {}), Lev(S))
  BY DEF Sane
<1>3. t \in On(S, a, {}) /\ Lev(S)[t] = k
  BY DEF On, Lev
<1>4. In(S.rq.arrays[a].queue[k], t) /\ List(S.rq.arrays[a].queue[k])
  BY <1>1, <1>2, <1>3 DEF Holds
<1>5. S.rq.arrays[a].queue[k] # << >>
  BY <1>4, EmptyHasNone
<1> QED  BY <1>1, <1>2, <1>4, <1>5 DEF Holds

LEMMA FirstBitIs ==
    ASSUME NEW S, Sane(S, {}), NEW a \in Arrays
    PROVE  LET n == FirstBit(S, a)
           IN  /\ n \in 0 .. MAX_PRIO
               /\ \A t \in Tasks : S.task[t].array = a => n <= Level(S.task[t]) /\ n < MAX_PRIO
               /\ n < MAX_PRIO =>
                     LET h == Head1(S, a, n)
                     IN  /\ h \in Tasks /\ S.task[h].array = a /\ Level(S.task[h]) = n
                         /\ S.rq.arrays[a].queue[n] # << >>
                         /\ S.rq.arrays[a].queue[n][1] = h
<1> DEFINE A == S.rq.arrays[a]
           B == A.bitmap \cup {MAX_PRIO}
           n == FirstBit(S, a)
           h == Head1(S, a, n)
<1>1. Holds(A, On(S, a, {}), Lev(S)) /\ A \in ArrayType
  BY DEF Sane, Holds
<1>2. B \in SUBSET Nat /\ B # {}
  BY <1>1, Numbers DEF ArrayType
<1>3. n \in B /\ \A m \in B : n <= m
  BY <1>2, MinIsLeast DEF FirstBit
<1> HIDE DEF n
<1>4. n \in 0 .. MAX_PRIO
  BY <1>1, <1>3, Numbers DEF ArrayType, Levels
<1>5. ASSUME NEW t \in Tasks, S.task[t].array = a
      PROVE  n <= Level(S.task[t]) /\ n < MAX_PRIO
  <2>1. Level(S.task[t]) \in A.bitmap /\ Level(S.task[t]) \in Levels
    BY <1>5, Listed, SMTT(60)
  <2> QED  BY <1>3, <1>4, <2>1, Numbers DEF Levels
<1>6. ASSUME n < MAX_PRIO
      PROVE  /\ h \in Tasks /\ S.task[h].array = a /\ Level(S.task[h]) = n
             /\ A.queue[n] # << >> /\ A.queue[n][1] = h
  <2>1. n \in A.bitmap /\ n \in Levels
    BY <1>1, <1>3, <1>4, <1>6, Numbers DEF ArrayType
  <2>2. A.queue[n] # << >> /\ List(A.queue[n])
    BY <1>1, <2>1 DEF Holds
  <2>3. A.queue[n] \in Seq(Tasks) /\ h = A.queue[n][1] /\ h \in Tasks /\ 1 \in 1 .. Len(A.queue[n])
    <3>1. A.queue[n] \in Seq(Tasks)
      BY <2>2 DEF List
    <3>2. Len(A.queue[n]) \in Nat \ {0}
      BY <2>2, <3>1, EmptySeq
    <3> HIDE DEF A
    <3>3. h = Head(A.queue[n])
      BY DEF Head1, A
    <3>4. h = A.queue[n][1]
      BY <3>1, <3>3
    <3> HIDE DEF h
    <3> QED  BY <3>1, <3>2, <3>4, ElementOfSeq
  <2> HIDE DEF h
  <2>4. In(A.queue[n], h)
    BY <2>3 DEF In
  <2>5. h \in On(S, a, {}) /\ Lev(S)[h] = n
    BY <1>1, <2>1, <2>3, <2>4 DEF Holds
  <2> QED  BY <2>2, <2>3, <2>5 DEF On, Lev
<1> QED  BY <1>4, <1>5, <1>6 DEF n

LEMMA SwitchedOk ==
    ASSUME NEW S, Queues(S, Idle)
    PROVE  LET T == Switched(S)
           IN  /\ Queues(T, Idle) /\ T.task = S.task /\ T.rq.nr_running = S.rq.nr_running
               /\ (\E t \in Tasks : T.task[t].array # None)
                     => \E t \in Tasks : T.task[t].array \in {T.rq.active, Short}
<1> DEFINE a == S.rq.active
           x == S.rq.expired
           T == Switched(S)
<1>1. /\ Sane(S, {}) /\ Count(S) /\ \A t \in Tasks : TaskOk(S, t, Idle)
      /\ S \in Sys /\ a \in {0, 1} /\ x \in {0, 1} /\ a # x
  BY DEF Queues, Sane, Sys, RqType
<1>2. a \in Arrays /\ \A t \in Tasks : S.task[t].array \in {None, a, x, Short}
  <2>1. \A t \in Tasks : S.task[t].array \in {None, 0, 1, Short}
    BY <1>1, TaskOf DEF TaskType
  <2> QED  BY <1>1, <2>1 DEF Arrays
<1>3. S.rq.arrays[a].nr_active = Cardinality(On(S, a, {}))
  BY <1>1, <1>2 DEF Sane, Holds
<1>4. S.rq.arrays[a].nr_active = 0 => \A t \in Tasks : S.task[t].array # a
  <2>1. IsFiniteSet(On(S, a, {}))
    BY FiniteTasks DEF On
  <2>2. S.rq.arrays[a].nr_active = 0 => On(S, a, {}) = {}
    BY <1>3, <2>1, FS_EmptySet
  <2> QED  BY <2>2 DEF On
<1>5. CASE S.rq.arrays[a].nr_active # 0
  <2>1. T = S
    BY <1>5 DEF Switched
  <2>2. \E t \in Tasks : S.task[t].array = a
    <3>1. On(S, a, {}) # {}
      BY <1>3, <1>5, FS_EmptySet
    <3> QED  BY <3>1 DEF On
  <2> QED  BY <2>1, <2>2
<1>6. CASE S.rq.arrays[a].nr_active = 0
  <2>1. /\ T \in Sys /\ T.task = S.task /\ T.rq.nr_running = S.rq.nr_running
        /\ T.rq.active = x /\ T.rq.expired = a /\ T.rq.arrays = S.rq.arrays
    <3> DEFINE r == [S.rq EXCEPT !.active = x, !.expired = a]
    <3>1. /\ r \in RqType /\ r.active = x /\ r.expired = a
          /\ r.arrays = S.rq.arrays /\ r.nr_running = S.rq.nr_running
      BY <1>1 DEF Sys, RqType
    <3>2. T = [S EXCEPT !.rq = r]
      BY <1>6 DEF Switched
    <3> HIDE DEF r, T
    <3> QED  BY <1>1, <3>1, <3>2 DEF Sys
  <2> HIDE DEF T
  <2>2. Sane(T, {})
    <3>1. T.rq.active # T.rq.expired
      BY <1>1, <2>1
    <3>2. \A u \in Tasks \ {} : /\ T.task[u].array = S.task[u].array
                                /\ Level(T.task[u]) = Level(S.task[u])
      BY <2>1
    <3> QED  BY <1>1, <2>1, <3>1, <3>2, SaneChanged
  <2>3. Count(T)
    <3>1. Runnable(T) = Runnable(S)
      BY <2>1 DEF Runnable
    <3> QED  BY <1>1, <2>1, <3>1 DEF Count
  <2>4. \A t \in Tasks : TaskOk(T, t, Idle)
    <3> TAKE t \in Tasks
    <3>1. T.task[t] = S.task[t]
      BY <2>1
    <3>2. TaskOk(S, t, Idle) /\ S.task[t].array # a
      BY <1>1, <1>4, <1>6
    <3> QED  BY <3>1, <3>2 DEF TaskOk, Placed
  <2>5. \A t \in Tasks : T.task[t].array # None => T.task[t].array \in {T.rq.active, Short}
    BY <1>2, <1>4, <1>6, <2>1
  <2> QED  BY <2>1, <2>2, <2>3, <2>4, <2>5 DEF Queues, T
<1> QED  BY <1>5, <1>6

(* schedule() picks the task with the best claim. *)
LEMMA NextTaskOk ==
    ASSUME NEW S, Queues(S, Idle),
           \E t \in Tasks : S.task[t].array \in {S.rq.active, Short}
    PROVE  LET n == NextTask(S)
           IN  /\ n \in Tasks /\ S.task[n].array \in {S.rq.active, Short}
               /\ BestIn(S, n) /\ FirstIn(S, n)
<1> DEFINE a == S.rq.active
           idx == FirstBit(S, a)
           short == FirstBit(S, Short)
           h == Head1(S, a, idx)
           g == Head1(S, Short, short)
           n == NextTask(S)
<1> SUFFICES /\ n \in Tasks /\ S.task[n].array \in {a, Short}
             /\ BestIn(S, n) /\ FirstIn(S, n)
  OBVIOUS
<1>1. /\ Sane(S, {}) /\ \A t \in Tasks : TaskOk(S, t, Idle)
      /\ S \in Sys /\ a \in {0, 1}
      /\ \A t \in Tasks : S.task[t] \in TaskType
  <2>1. Sane(S, {}) /\ S \in Sys /\ \A t \in Tasks : TaskOk(S, t, Idle)
    BY DEF Queues, Sane
  <2> QED  BY <2>1, TaskOf DEF Sys, RqType
<1>2. a \in Arrays /\ Short \in Arrays /\ a # None /\ Short # None /\ a # Short
  BY <1>1 DEF Arrays, Short, None
<1>3. /\ idx \in 0 .. MAX_PRIO
      /\ \A t \in Tasks : S.task[t].array = a => idx <= Level(S.task[t]) /\ idx < MAX_PRIO
      /\ idx < MAX_PRIO => h \in Tasks /\ S.task[h].array = a /\ Level(S.task[h]) = idx
  <2> HIDE DEF a
  <2> QED  BY <1>1, <1>2, FirstBitIs
<1>4. /\ short \in 0 .. MAX_PRIO
      /\ \A t \in Tasks : S.task[t].array = Short => short <= Level(S.task[t]) /\ short < MAX_PRIO
      /\ short < MAX_PRIO =>
            /\ g \in Tasks /\ S.task[g].array = Short /\ Level(S.task[g]) = short
            /\ S.rq.arrays[Short].queue[short] # << >>
            /\ S.rq.arrays[Short].queue[short][1] = g
  BY <1>1, <1>2, FirstBitIs
<1>5. n = IF idx >= MAX_RT_PRIO /\ short < MAX_PRIO THEN g ELSE h
  BY DEF NextTask
<1> HIDE DEF idx, short, h, g, n
<1>6. /\ MAX_RT_PRIO \in Nat /\ MAX_PRIO \in Nat /\ MAX_RT_PRIO < MAX_PRIO
      /\ \A t \in Tasks : Level(S.task[t]) \in Nat
  BY <1>1, Numbers, LevelIn
<1>7. \A t \in Tasks : t # Idle
  BY TasksAssumption
<1>8. \A t \in Tasks : S.task[t].array # None =>
         /\ S.task[t].policy = "SHORT" <=> S.task[t].array = Short
         /\ rt_task(S.task[t]) => S.task[t].array = a
         /\ rt_task(S.task[t]) <=> S.task[t].policy # "SHORT" /\ S.task[t].prio < MAX_RT_PRIO
         /\ S.task[t].policy # "SHORT" => Level(S.task[t]) = S.task[t].prio
  BY <1>1 DEF TaskOk, Placed, rt_task, Level
<1>9. CASE idx >= MAX_RT_PRIO /\ short < MAX_PRIO
  <2>1. /\ n = g /\ n \in Tasks /\ S.task[n].array = Short /\ Level(S.task[n]) = short
        /\ S.task[n].policy = "SHORT" /\ ~rt_task(S.task[n])
        /\ S.rq.arrays[Short].queue[short] # << >>
        /\ S.rq.arrays[Short].queue[short][1] = n
    BY <1>2, <1>4, <1>5, <1>8, <1>9
  <2>2. \A t \in Tasks : S.task[t].array # None => ~rt_task(S.task[t])
    <3> SUFFICES ASSUME NEW t \in Tasks, S.task[t].array # None, rt_task(S.task[t])
                 PROVE  FALSE
      OBVIOUS
    <3>1. S.task[t].array = a /\ Level(S.task[t]) < MAX_RT_PRIO
      BY <1>8
    <3>2. idx <= Level(S.task[t])
      BY <1>3, <3>1
    <3> QED  BY <1>3, <1>6, <1>9, <3>1, <3>2
  <2>3. BestIn(S, n)
    <3> SUFFICES ASSUME NEW t \in Tasks, S.task[t].array # None
                 PROVE  NotBefore(S, t, n)
      BY DEF BestIn
    <3>1. ClassIn(S, n) = 1
      BY <2>1 DEF ClassIn
    <3>2. ClassIn(S, t) \in {1, 2, 3}
      BY <2>2 DEF ClassIn
    <3>3. ClassIn(S, t) = 1 => S.task[t].array = Short
      BY <1>8, <2>2 DEF ClassIn
    <3>4. ClassIn(S, t) = 1 => short <= Level(S.task[t])
      BY <1>4, <3>3
    <3> QED  BY <1>4, <1>6, <1>7, <2>1, <3>1, <3>2, <3>4 DEF NotBefore
  <2>4. FirstIn(S, n)
    BY <1>4, <2>1 DEF FirstIn
  <2> QED  BY <2>1, <2>3, <2>4
<1>10. CASE ~(idx >= MAX_RT_PRIO /\ short < MAX_PRIO)
  <2>1. idx < MAX_PRIO
    <3>1. CASE short < MAX_PRIO
      BY <1>3, <1>6, <1>10, <3>1
    <3>2. CASE ~(short < MAX_PRIO)
      <4>1. \A t \in Tasks : S.task[t].array # Short
        BY <1>4, <3>2
      <4> QED  BY <1>3, <4>1
    <3> QED  BY <3>1, <3>2
  <2>2. n = h /\ n \in Tasks /\ S.task[n].array = a /\ Level(S.task[n]) = idx
    BY <1>3, <1>5, <1>10, <2>1
  <2>3. S.task[n].policy # "SHORT" /\ (rt_task(S.task[n]) <=> idx < MAX_RT_PRIO)
    BY <1>2, <1>8, <2>2
  <2>4. BestIn(S, n)
    <3> SUFFICES ASSUME NEW t \in Tasks, S.task[t].array # None
                 PROVE  NotBefore(S, t, n)
      BY DEF BestIn
    <3>1. S.task[t].array = a => idx <= Level(S.task[t])
      BY <1>3
    <3>2. CASE idx < MAX_RT_PRIO
      <4>1. ClassIn(S, n) = 0
        BY <2>3, <3>2 DEF ClassIn
      <4>2. ClassIn(S, t) \in {0, 1, 2, 3}
        BY DEF ClassIn
      <4>3. ClassIn(S, t) = 0 => S.task[t].array = a
        BY <1>8 DEF ClassIn
      <4> QED  BY <1>3, <1>6, <1>7, <2>2, <3>1, <4>1, <4>2, <4>3 DEF NotBefore
    <3>3. CASE ~(idx < MAX_RT_PRIO)
      <4>1. ClassIn(S, n) = 2
        BY <2>2, <2>3, <3>3 DEF ClassIn
      <4>2. ~rt_task(S.task[t])
        <5> SUFFICES ASSUME rt_task(S.task[t]) PROVE FALSE
          OBVIOUS
        <5>1. S.task[t].array = a /\ Level(S.task[t]) < MAX_RT_PRIO
          BY <1>8
        <5> QED  BY <1>3, <1>6, <3>1, <3>3, <5>1
      <4>3. S.task[t].policy # "SHORT"
        <5>1. ~(short < MAX_PRIO)
          BY <1>3, <1>6, <1>10, <3>3
        <5>2. S.task[t].array # Short
          BY <1>4, <5>1
        <5> QED  BY <1>8, <5>2
      <4>4. ClassIn(S, t) = IF S.task[t].array = a THEN 2 ELSE 3
        BY <4>2, <4>3 DEF ClassIn
      <4> QED  BY <1>3, <1>6, <1>7, <2>2, <3>1, <4>1, <4>4 DEF NotBefore
    <3> QED  BY <3>2, <3>3
  <2>5. FirstIn(S, n)
    BY <2>3 DEF FirstIn
  <2> QED  BY <2>2, <2>4, <2>5
<1> QED  BY <1>9, <1>10

Inv(S, c, r, s, x) ==
    /\ Queues(S, c) /\ c \in Tasks \cup {Idle}
    /\ r \in BOOLEAN /\ s \in BOOLEAN /\ x \in {"no", "nice", "policy"}
    /\ CurrentOk(S, c, r, s)
    /\ ~r /\ ~s => /\ c # Idle => FirstIn(S, c)
                   /\ x = "no" => BestIn(S, c)

IInv == Inv(Here, curr, need_resched, calling, excused)

LEMMA HereIs ==
    ASSUME NEW T \in Sys, Becomes(T)
    PROVE  Here' = T
BY DEF Sys, Becomes, Here

LEMMA InvStep ==
    ASSUME NEW T, Becomes(T), Inv(T, curr', need_resched', calling', excused')
    PROVE  IInv'
<1>1. T \in Sys
  BY DEF Inv, Queues, Sane
<1>2. Here' = T
  BY <1>1, HereIs
<1> QED  BY <1>2 DEF IInv

LEMMA HereFields == Here.task = task /\ Here.rq = rq
BY DEF Here

LEMMA LeavesOk ==
    ASSUME NEW signal \in BOOLEAN, IInv
    PROVE  LET T == Leaves(Here, signal)
           IN  /\ Queues(T, Idle)
               /\ \A t \in Tasks : T.task[t].policy = task[t].policy
                                   /\ T.task[t].time_left = task[t].time_left
<1> DEFINE S == Here
           T == Leaves(S, signal)
           p == S.task[curr]
<1> SUFFICES /\ Queues(T, Idle)
             /\ \A t \in Tasks : T.task[t].policy = task[t].policy
                                 /\ T.task[t].time_left = task[t].time_left
  OBVIOUS
<1>1. /\ Queues(S, curr) /\ curr \in Tasks \cup {Idle}
      /\ CurrentOk(S, curr, need_resched, calling)
  BY DEF IInv, Inv
<1>2. /\ Sane(S, {}) /\ Count(S) /\ \A t \in Tasks : TaskOk(S, t, curr)
      /\ S \in Sys /\ S.task = task
  BY <1>1, SaneType, HereFields DEF Queues
<1> HIDE DEF S
<1>3. \A t \in Tasks \ {curr} : TaskOk(S, t, Idle)
  BY <1>2 DEF TaskOk
<1>4. \A t \in Tasks : t # Idle
  BY TasksAssumption
<1>5. CASE curr = Idle \/ p.state = "running"
  <2>1. T = S
    BY <1>5 DEF Leaves
  <2>2. \A t \in Tasks : TaskOk(S, t, Idle)
    BY <1>2, <1>3, <1>4, <1>5 DEF TaskOk
  <2> QED  BY <1>2, <2>1, <2>2 DEF Queues
<1>6. CASE curr # Idle /\ p.state # "running"
  <2>1. /\ curr \in Tasks /\ p.array # None /\ p \in TaskType /\ TaskOk(S, curr, curr)
    BY <1>1, <1>2, <1>6, TaskOf DEF CurrentOk
  <2>2. CASE p.state = "sleeping" /\ signal
    <3> DEFINE q == [p EXCEPT !.state = "running"]
    <3>1. /\ q \in TaskType /\ q.array = p.array /\ q.policy = p.policy /\ q.prio = p.prio
          /\ q.short_prio = p.short_prio /\ q.state = "running" /\ q.time_left = p.time_left
      BY <2>1 DEF TaskType
    <3>2. T = Put(S, curr, q)
      BY <1>6, <2>2 DEF Leaves, Put
    <3> HIDE DEF q, T
    <3>3. Level(q) = Level(p) /\ (rt_task(q) <=> rt_task(p))
      BY <3>1 DEF Level, rt_task
    <3>4. Sane(T, {}) /\ Count(T)
      BY <1>2, <2>1, <3>1, <3>2, <3>3, SanePut
    <3>5. T.rq = S.rq /\ T.task[curr] = q /\ \A u \in Tasks \ {curr} : T.task[u] = S.task[u]
      BY <1>2, <2>1, <3>1, <3>2, PutGives
    <3>6. TaskOk(T, curr, Idle)
      BY <2>1, <3>1, <3>3, <3>5 DEF TaskOk, Placed
    <3>7. \A t \in Tasks \ {curr} : TaskOk(T, t, Idle)
      BY <1>3, <3>5 DEF TaskOk, Placed
    <3> QED  BY <1>2, <3>1, <3>4, <3>5, <3>6, <3>7 DEF Queues
  <2>3. CASE ~(p.state = "sleeping" /\ signal)
    <3> DEFINE q == [p EXCEPT !.array = None]
    <3>1. T = deactivate_task(S, curr)
      BY <1>6, <2>3 DEF Leaves
    <3>2. /\ Sane(T, {curr}) /\ Count(T)
          /\ T.task = [S.task EXCEPT ![curr].array = None]
          /\ T.rq.active = S.rq.active
      BY <1>2, <2>1, <3>1, SaneDeactivate
    <3> HIDE DEF T
    <3>3. T.task[curr] = q /\ \A u \in Tasks \ {curr} : T.task[u] = S.task[u]
      BY <1>2, <2>1, <3>2 DEF Sys
    <3>4. /\ q.array = None /\ q.policy = p.policy /\ q.prio = p.prio
          /\ q.short_prio = p.short_prio /\ q.state = p.state /\ q.time_left = p.time_left
      BY <2>1 DEF TaskType
    <3> HIDE DEF q
    <3>5. Sane(T, {})
      <4>1. T.task[curr].array = None
        BY <3>3, <3>4
      <4> QED  BY <2>1, <3>2, <4>1, SaneOut
    <3>6. TaskOk(T, curr, Idle)
      BY <1>6, <2>1, <3>3, <3>4 DEF TaskOk, rt_task
    <3>7. \A t \in Tasks \ {curr} : TaskOk(T, t, Idle)
      BY <1>3, <3>2, <3>3 DEF TaskOk, Placed
    <3> QED  BY <1>2, <3>2, <3>3, <3>4, <3>5, <3>6, <3>7 DEF Queues
  <2> QED  BY <2>2, <2>3
<1> QED  BY <1>5, <1>6

LEMMA QueuesAny ==
    ASSUME NEW S, NEW c, Queues(S, Idle)
    PROVE  Queues(S, c)
<1>1. \A t \in Tasks : t # Idle
  BY TasksAssumption
<1> QED  BY <1>1 DEF Queues, TaskOk

LEMMA ScheduleKeeps ==
    ASSUME IInv, Schedule
    PROVE  /\ IInv' /\ BestIn(Here', curr')
           /\ \A t \in Tasks : task'[t].policy = task[t].policy
                               /\ task'[t].time_left = task[t].time_left
<1>1. PICK signal \in BOOLEAN :
         LET left == Leaves(Here, signal)
             S == Switched(left)
         IN  IF left.rq.nr_running = 0
             THEN Becomes(left) /\ curr' = Idle
             ELSE Becomes(S) /\ curr' = NextTask(S)
  BY DEF Schedule
<1> DEFINE L == Leaves(Here, signal)
           S == Switched(L)
<1>2. /\ Queues(L, Idle)
      /\ \A t \in Tasks : L.task[t].policy = task[t].policy
                          /\ L.task[t].time_left = task[t].time_left
  BY LeavesOk
<1> HIDE DEF L
<1>3. need_resched' = FALSE /\ calling' = FALSE /\ excused' = "no"
  BY DEF Schedule
<1>4. CASE L.rq.nr_running = 0
  <2>1. Becomes(L) /\ curr' = Idle
    BY <1>1, <1>4 DEF L
  <2>2. \A t \in Tasks : L.task[t].array = None
    <3>1. IsFiniteSet(Runnable(L)) /\ Cardinality(Runnable(L)) = 0
      BY <1>2, <1>4, FiniteTasks DEF Queues, Count, Runnable
    <3>2. Runnable(L) = {}
      BY <3>1, FS_EmptySet
    <3> QED  BY <3>2 DEF Runnable
  <2>3. BestIn(L, curr')
    BY <2>2 DEF BestIn
  <2>4. Inv(L, curr', need_resched', calling', excused')
    <3>1. Queues(L, curr')
      BY <1>2, QueuesAny
    <3> QED  BY <1>3, <2>1, <2>3, <3>1 DEF Inv, CurrentOk
  <2>5. L \in Sys
    BY <1>2 DEF Queues, Sane
  <2>6. Here' = L
    BY <2>1, <2>5, HereIs
  <2>7. IInv'
    BY <2>1, <2>4, InvStep
  <2>8. \A t \in Tasks : task'[t].policy = task[t].policy
                         /\ task'[t].time_left = task[t].time_left
    BY <1>2, <2>1 DEF Becomes
  <2> QED  BY <2>3, <2>6, <2>7, <2>8
<1>5. CASE L.rq.nr_running # 0
  <2>1. Becomes(S) /\ curr' = NextTask(S)
    BY <1>1, <1>5 DEF L
  <2>2. /\ Queues(S, Idle) /\ S.task = L.task
        /\ (\E t \in Tasks : S.task[t].array # None)
              => \E t \in Tasks : S.task[t].array \in {S.rq.active, Short}
    BY <1>2, SwitchedOk
  <2> HIDE DEF S
  <2>3. \E t \in Tasks : S.task[t].array # None
    <3>1. Runnable(L) # {}
      BY <1>2, <1>5, FS_EmptySet DEF Queues, Count
    <3> QED  BY <2>2, <3>1 DEF Runnable
  <2>4. /\ curr' \in Tasks /\ S.task[curr'].array \in {S.rq.active, Short}
        /\ BestIn(S, curr') /\ FirstIn(S, curr')
    BY <2>1, <2>2, <2>3, NextTaskOk
  <2>5. S \in Sys /\ S.rq.active \in {0, 1}
    BY <2>2 DEF Queues, Sane, Sys, RqType
  <2>6. S.task[curr'].array # None
    BY <2>4, <2>5 DEF None, Short
  <2>7. TaskOk(S, curr', Idle) /\ curr' # Idle
    BY <2>2, <2>4, TasksAssumption DEF Queues
  <2>8. S.task[curr'].state = "running"
    BY <2>6, <2>7 DEF TaskOk
  <2>9. Inv(S, curr', need_resched', calling', excused')
    <3>1. Queues(S, curr')
      BY <2>2, QueuesAny
    <3> QED  BY <1>3, <2>4, <2>6, <2>8, <3>1 DEF Inv, CurrentOk
  <2>10. Here' = S
    BY <2>1, <2>5, HereIs
  <2>11. IInv'
    BY <2>1, <2>9, InvStep
  <2>12. \A t \in Tasks : task'[t].policy = task[t].policy
                          /\ task'[t].time_left = task[t].time_left
    BY <1>2, <2>1, <2>2 DEF Becomes
  <2> QED  BY <2>4, <2>10, <2>11, <2>12
<1> QED  BY <1>4, <1>5

------------------------------------------------------------------------------
(* What a step may do to a task that is or becomes SCHED_SHORT. *)
OneWay(p, q, t) ==
    /\ p.policy = "SHORT" =>
          \/ q.policy = "SHORT" /\ q.time_left <= p.time_left
          \/ /\ q.policy = "OTHER" /\ q.time_left = 0
             /\ t = curr \/ p.state = "zombie"
    /\ q.policy = "SHORT" /\ p.policy # "SHORT" =>
          p.policy = "OTHER" /\ p.state # "free"

LEMMA OneWaySame ==
    ASSUME NEW p \in TaskType, NEW q, NEW t,
           q.policy = p.policy, q.policy = "SHORT" => q.time_left = p.time_left
    PROVE  OneWay(p, q, t)
<1>1. p.time_left \in Nat
  BY DEF TaskType
<1> QED  BY <1>1 DEF OneWay

(* Every claim that a task has to the processor is what it was. *)
SameClaims(S, T) ==
    /\ \A u \in Tasks : /\ T.task[u].policy = S.task[u].policy
                        /\ T.task[u].prio = S.task[u].prio
                        /\ T.task[u].short_prio = S.task[u].short_prio
                        /\ T.task[u].array = S.task[u].array
    /\ T.rq.active = S.rq.active
    /\ T.rq.arrays = S.rq.arrays

LEMMA ClaimsBest ==
    ASSUME NEW S, NEW T, SameClaims(S, T), NEW c \in Tasks \cup {Idle}
    PROVE  /\ BestIn(S, c) => BestIn(T, c)
           /\ c # Idle /\ FirstIn(S, c) => FirstIn(T, c)
<1>1. \A u \in Tasks : ClassIn(T, u) = ClassIn(S, u) /\ Level(T.task[u]) = Level(S.task[u])
  BY DEF SameClaims, ClassIn, rt_task, Level
<1>2. BestIn(S, c) => BestIn(T, c)
  BY <1>1 DEF BestIn, NotBefore, SameClaims
<1>3. ASSUME c # Idle, FirstIn(S, c) PROVE FirstIn(T, c)
  BY <1>1, <1>3 DEF FirstIn, SameClaims
<1> QED  BY <1>2, <1>3

LEMMA IInvUse ==
    ASSUME IInv
    PROVE  /\ Queues(Here, curr) /\ Sane(Here, {}) /\ Count(Here)
           /\ \A t \in Tasks : TaskOk(Here, t, curr) /\ task[t] \in TaskType
           /\ Here \in Sys /\ Here.task = task /\ Here.rq = rq
           /\ curr \in Tasks \cup {Idle}
           /\ need_resched \in BOOLEAN /\ calling \in BOOLEAN
           /\ excused \in {"no", "nice", "policy"}
           /\ CurrentOk(Here, curr, need_resched, calling)
           /\ ~need_resched /\ ~calling =>
                 /\ curr # Idle => FirstIn(Here, curr)
                 /\ excused = "no" => BestIn(Here, curr)
           /\ curr # Idle => /\ curr \in Tasks /\ Placed(Here, curr)
                             /\ task[curr].state # "free"
<1>1. /\ Queues(Here, curr) /\ Sane(Here, {}) /\ Count(Here)
      /\ \A t \in Tasks : TaskOk(Here, t, curr)
      /\ curr \in Tasks \cup {Idle} /\ Here.task = task /\ Here.rq = rq
      /\ CurrentOk(Here, curr, need_resched, calling)
  BY HereFields DEF IInv, Inv, Queues
<1>2. Here \in Sys /\ \A t \in Tasks : task[t] \in TaskType
  <2>1. Here \in Sys
    BY <1>1, SaneType
  <2> QED  BY <1>1, <2>1, TaskOf
<1>3. curr # Idle => /\ curr \in Tasks /\ Placed(Here, curr) /\ task[curr].state # "free"
  BY <1>1 DEF CurrentOk, TaskOk
<1>4. /\ need_resched \in BOOLEAN /\ calling \in BOOLEAN
      /\ excused \in {"no", "nice", "policy"}
      /\ ~need_resched /\ ~calling =>
            /\ curr # Idle => FirstIn(Here, curr)
            /\ excused = "no" => BestIn(Here, curr)
  BY DEF IInv, Inv
<1> QED  BY <1>1, <1>2, <1>3, <1>4

LEMMA TickKeeps ==
    ASSUME IInv, Tick
    PROVE  IInv' /\ \A t \in Tasks : OneWay(task[t], task'[t], t)
<1>1. /\ curr # Idle
      /\ UNCHANGED <<curr, calling, excused>>
  BY DEF Tick
<1>2. PICK e \in EffectivePrios(StaticInTick(task[curr])), stays \in BOOLEAN :
         LET after == scheduler_tick(Here, curr, e, stays)
         IN  /\ Becomes(after.sys)
             /\ need_resched' = (need_resched \/ after.resched)
  BY DEF Tick
<1> DEFINE R == scheduler_tick(Here, curr, e, stays)
           T == R.sys
           p == task[curr]
           q == T.task[curr]
<1>3. /\ Queues(Here, curr) /\ Sane(Here, {}) /\ Count(Here)
      /\ \A t \in Tasks : TaskOk(Here, t, curr) /\ task[t] \in TaskType
      /\ Here \in Sys /\ Here.task = task /\ Here.rq = rq
      /\ curr \in Tasks /\ Placed(Here, curr)
      /\ CurrentOk(Here, curr, need_resched, calling)
      /\ excused \in {"no", "nice", "policy"} /\ calling \in BOOLEAN
  BY <1>1, IInvUse
<1>4. e \in NormalPrios
  BY <1>3, StaticIsInt, EffectiveNormal
<1>5. TickOk(Here, curr, T, R.resched)
  <2> HIDE DEF R
  <2>1. TickOk(Here, curr, scheduler_tick(Here, curr, e, stays).sys,
               scheduler_tick(Here, curr, e, stays).resched)
    BY <1>3, <1>4, TickedOk
  <2> QED  BY <2>1 DEF R
<1>6. Becomes(T) /\ need_resched' = (need_resched \/ R.resched)
  BY <1>2
<1> HIDE DEF R
<1>7. /\ Sane(T, {}) /\ Count(T)
      /\ T.rq.active = rq.active /\ T.rq.expired = rq.expired
      /\ \A u \in Tasks \ {curr} : T.task[u] = task[u]
      /\ TickOutcome(Here, p, q)
      /\ ~R.resched => T.rq = rq /\ Kept(p, q)
  BY <1>3, <1>5 DEF TickOk
<1>8. rq.active \in {0, 1} /\ rq.expired \in {0, 1} /\ p \in TaskType /\ q \in TaskType
  BY <1>3, <1>7, SaneType, TaskOf DEF Sys, RqType
<1>9. TaskOk(T, curr, curr)
  <2>1. TaskOk(Here, curr, curr) /\ Placed(Here, curr)
    BY <1>3
  <2>2. CASE Kept(p, q)
    <3>1. rt_task(q) <=> rt_task(p)
      BY <2>2, KeptLevel
    <3> QED  BY <1>3, <1>7, <2>1, <2>2, <3>1 DEF TaskOk, Placed, Kept
  <2>3. CASE /\ p.policy # "SHORT" /\ ~rt_task(p)
             /\ q.state = p.state /\ q.policy = p.policy /\ q.time_left = p.time_left
             /\ q.prio \in NormalPrios /\ q.array \in {rq.active, rq.expired}
    <3>1. ~rt_task(q)
      BY <2>3, Numbers DEF rt_task, NormalPrios
    <3>2. q.array # None /\ q.array # Short
      BY <1>8, <2>3 DEF None, Short
    <3>3. p.policy \notin {"FIFO", "RR"} /\ p.state # "free"
      BY <1>3, <2>1, <2>3 DEF TaskOk, Placed
    <3> QED  BY <1>7, <2>3, <3>1, <3>2, <3>3 DEF TaskOk, Placed
  <2>4. CASE /\ p.policy = "SHORT"
             /\ q.state = p.state /\ q.policy = "OTHER" /\ q.time_left = 0
             /\ q.prio \in NormalPrios /\ q.array = rq.active
    <3>1. ~rt_task(q)
      BY <2>4, Numbers DEF rt_task, NormalPrios
    <3>2. q.array # None /\ q.array # Short
      BY <1>8, <2>4 DEF None, Short
    <3>3. p.state # "free"
      BY <1>3, <2>1, <2>4 DEF TaskOk
    <3> QED  BY <1>7, <2>4, <3>1, <3>2, <3>3 DEF TaskOk, Placed
  <2> QED  BY <1>3, <1>7, <2>2, <2>3, <2>4 DEF TickOutcome
<1>10. Queues(T, curr)
  <2>1. \A u \in Tasks \ {curr} : TaskOk(T, u, curr)
    <3>1. \A u \in Tasks \ {curr} : T.task[u] = Here.task[u]
      BY <1>3, <1>7
    <3>2. T.rq.active = Here.rq.active
      BY <1>3, <1>7
    <3> HIDE DEF T
    <3> QED  BY <1>3, <3>1, <3>2, OthersOk
  <2> QED  BY <1>7, <1>9, <2>1 DEF Queues
<1>11. q.state = p.state
  BY <1>7 DEF TickOutcome, Kept
<1>12. q.array # None
  <2>1. p.array # None
    BY <1>3 DEF Placed
  <2> QED  BY <1>3, <1>7, <1>8, <2>1 DEF TickOutcome, Kept, None
<1>13. ASSUME ~R.resched PROVE SameClaims(Here, T)
  BY <1>3, <1>7, <1>13 DEF SameClaims, Kept
<1>14. CurrentOk(T, curr, need_resched', calling)
  <2>1. p.state # "running" => calling
    BY <1>1, <1>3 DEF CurrentOk
  <2>2. need_resched \/ calling \/ p.array \in {rq.active, Short}
    BY <1>1, <1>3 DEF CurrentOk
  <2>3. ~R.resched => q.array = p.array
    BY <1>7 DEF Kept
  <2> QED  BY <1>6, <1>7, <1>11, <1>12, <2>1, <2>2, <2>3 DEF CurrentOk
<1>15. ASSUME ~need_resched', ~calling
       PROVE  FirstIn(T, curr) /\ (excused = "no" => BestIn(T, curr))
  <2>1. ~R.resched /\ ~need_resched
    BY <1>6, <1>15
  <2>2. FirstIn(Here, curr) /\ (excused = "no" => BestIn(Here, curr))
    BY <1>1, <1>15, <2>1, IInvUse
  <2>3. SameClaims(Here, T)
    BY <1>13, <2>1
  <2> HIDE DEF T
  <2> QED  BY <1>1, <1>3, <2>2, <2>3, ClaimsBest
<1>16. Inv(T, curr', need_resched', calling', excused')
  <2>1. need_resched' \in BOOLEAN
    BY <1>6
  <2> HIDE DEF T
  <2> QED  BY <1>1, <1>3, <1>10, <1>14, <1>15, <2>1 DEF Inv
<1>17. IInv'
  BY <1>6, <1>16, InvStep
<1>18. ASSUME NEW t \in Tasks PROVE OneWay(task[t], task'[t], t)
  <2>1. task' = T.task
    BY <1>6 DEF Becomes
  <2>2. CASE t # curr
    <3>1. task'[t] = task[t] /\ task[t] \in TaskType
      BY <1>3, <1>7, <2>1, <2>2
    <3> QED  BY <3>1, OneWaySame
  <2>3. CASE t = curr
    <3>1. task'[t] = q
      BY <2>1, <2>3
    <3>2. OneWay(p, q, curr)
      BY <1>7 DEF TickOutcome, Kept, OneWay
    <3> QED  BY <2>3, <3>1, <3>2
  <2> QED  BY <2>2, <2>3
<1> QED  BY <1>17, <1>18

(* One task changed and all of its claims kept. *)
LEMMA PutClaims ==
    ASSUME NEW S, Sane(S, {}), Count(S), NEW t \in Tasks, NEW q \in TaskType,
           q.policy = S.task[t].policy, q.prio = S.task[t].prio,
           q.short_prio = S.task[t].short_prio, q.array = S.task[t].array
    PROVE  LET T == Put(S, t, q)
           IN  /\ Sane(T, {}) /\ Count(T) /\ SameClaims(S, T) /\ T.rq = S.rq
               /\ T.task[t] = q /\ \A u \in Tasks \ {t} : T.task[u] = S.task[u]
<1> DEFINE T == Put(S, t, q)
<1>1. S \in Sys
  BY SaneType
<1>2. Level(q) = Level(S.task[t])
  BY DEF Level
<1>3. Sane(T, {}) /\ Count(T)
  BY <1>1, <1>2, SanePut
<1>4. T.rq = S.rq /\ T.task[t] = q /\ \A u \in Tasks \ {t} : T.task[u] = S.task[u]
  BY <1>1, PutGives
<1> HIDE DEF T
<1>5. SameClaims(S, T)
  BY <1>4 DEF SameClaims
<1> QED  BY <1>3, <1>4, <1>5 DEF T

(* The current task stops running and calls schedule().                    *)
LEMMA StopKeeps ==
    ASSUME IInv, InKernel, NEW state \in {"sleeping", "zombie"},
           task' = [task EXCEPT ![curr].state = state], calling' = TRUE,
           UNCHANGED <<rq, curr, need_resched, excused>>
    PROVE  IInv' /\ \A t \in Tasks : OneWay(task[t], task'[t], t)
<1> DEFINE p == task[curr]
           q == [p EXCEPT !.state = state]
           T == Put(Here, curr, q)
<1>1. curr # Idle
  BY DEF InKernel
<1>2. /\ Queues(Here, curr) /\ Sane(Here, {}) /\ Count(Here)
      /\ \A t \in Tasks : TaskOk(Here, t, curr) /\ task[t] \in TaskType
      /\ Here \in Sys /\ Here.task = task /\ Here.rq = rq
      /\ curr \in Tasks /\ Placed(Here, curr)
      /\ CurrentOk(Here, curr, need_resched, calling)
      /\ excused \in {"no", "nice", "policy"} /\ need_resched \in BOOLEAN
      /\ task[curr].state # "free"
  BY <1>1, IInvUse
<1>3. /\ q \in TaskType /\ q.policy = p.policy /\ q.prio = p.prio /\ q.array = p.array
      /\ q.short_prio = p.short_prio /\ q.state = state /\ q.time_left = p.time_left
  BY <1>2 DEF TaskType
<1>4. Becomes(T)
  <2>1. T.rq = rq /\ T.task = [task EXCEPT ![curr] = q]
    <3>1. /\ T.rq = Here.rq /\ T.task = [Here.task EXCEPT ![curr] = q]
      <4> HIDE DEF q
      <4> QED  BY <1>2, <1>3, Puts
    <3> HIDE DEF T, q
    <3> QED  BY <1>2, <3>1
  <2> HIDE DEF T
  <2> QED  BY <2>1 DEF Becomes
<1>5. /\ Sane(T, {}) /\ Count(T) /\ SameClaims(Here, T) /\ T.rq = rq
      /\ T.task[curr] = q /\ \A u \in Tasks \ {curr} : T.task[u] = task[u]
  <2> HIDE DEF q
  <2>1. /\ q.policy = Here.task[curr].policy /\ q.prio = Here.task[curr].prio
        /\ q.short_prio = Here.task[curr].short_prio /\ q.array = Here.task[curr].array
    BY <1>2, <1>3
  <2>2. /\ Sane(T, {}) /\ Count(T) /\ SameClaims(Here, T) /\ T.rq = Here.rq
        /\ T.task[curr] = q /\ \A u \in Tasks \ {curr} : T.task[u] = Here.task[u]
    BY <1>2, <1>3, <2>1, PutClaims
  <2> HIDE DEF T
  <2> QED  BY <1>2, <2>2
<1> HIDE DEF q, T
<1>6. TaskOk(T, curr, curr)
  <2>1. TaskOk(Here, curr, curr)
    BY <1>2
  <2>2. rt_task(q) <=> rt_task(p)
    BY <1>3 DEF rt_task
  <2> QED  BY <1>2, <1>3, <1>5, <2>1, <2>2 DEF TaskOk, Placed
<1>7. Queues(T, curr)
  <2>1. \A u \in Tasks \ {curr} : T.task[u] = Here.task[u]
    BY <1>2, <1>5
  <2>2. T.rq.active = Here.rq.active
    BY <1>2, <1>5
  <2>3. \A u \in Tasks \ {curr} : TaskOk(T, u, curr)
    BY <1>2, <2>1, <2>2, OthersOk
  <2> QED  BY <1>5, <1>6, <2>3 DEF Queues
<1>8. CurrentOk(T, curr, need_resched', calling')
  BY <1>2, <1>3, <1>5 DEF CurrentOk, Placed
<1>9. Inv(T, curr', need_resched', calling', excused')
  BY <1>2, <1>7, <1>8 DEF Inv
<1>10. IInv'
  BY <1>4, <1>9, InvStep
<1>11. ASSUME NEW t \in Tasks PROVE OneWay(task[t], task'[t], t)
  <2>1. task'[t] = T.task[t]
    BY <1>4 DEF Becomes
  <2>2. T.task[t].policy = task[t].policy /\ T.task[t].time_left = task[t].time_left
    BY <1>3, <1>5
  <2> QED  BY <1>2, <2>1, <2>2, OneWaySame
<1> QED  BY <1>10, <1>11

LEMMA SleepKeeps ==
    ASSUME IInv, Sleep
    PROVE  IInv' /\ \A t \in Tasks : OneWay(task[t], task'[t], t)
BY StopKeeps DEF Sleep

LEMMA ExitKeeps ==
    ASSUME IInv, ExitTask
    PROVE  IInv' /\ \A t \in Tasks : OneWay(task[t], task'[t], t)
BY StopKeeps DEF ExitTask

(* A task that may not preempt the current one has no better claim.        *)
LEMMA NotPreempts ==
    ASSUME NEW S, S \in Sys, NEW t \in Tasks, NEW c \in Tasks,
           TaskOk(S, t, c), TaskOk(S, c, c), S.task[t].array # None, S.task[c].array # None,
           S.task[c].array \in {S.rq.active, Short},
           ~Preempts(S.task[t], S.task[c])
    PROVE  /\ NotBefore(S, t, c)
           /\ S.task[t].policy = "SHORT" /\ S.task[c].policy = "SHORT"
                 => Level(S.task[c]) <= Level(S.task[t])
<1> DEFINE p == S.task[t]
           q == S.task[c]
<1>1. p \in TaskType /\ q \in TaskType /\ c # Idle
  BY TaskOf, TasksAssumption
<1>2. /\ p.policy \in Policies /\ p.prio \in Nat /\ p.short_prio \in Nat
      /\ q.policy \in Policies /\ q.prio \in Nat /\ q.short_prio \in Nat
      /\ MAX_RT_PRIO \in Nat
  BY <1>1, Numbers DEF TaskType
<1>3. /\ p.policy \in {"FIFO", "RR"} => rt_task(p)
      /\ p.policy = "OTHER" => ~rt_task(p)
      /\ q.policy \in {"FIFO", "RR"} => rt_task(q)
      /\ q.policy = "OTHER" => ~rt_task(q)
      /\ q.policy = "SHORT" <=> q.array = Short
      /\ q.array \in {S.rq.active, Short}
  BY DEF TaskOk, Placed
<1>4. /\ ~(p.policy = "SHORT" /\ q.policy = "OTHER")
      /\ ~(p.policy = "SHORT" /\ q.policy = "SHORT" /\ p.short_prio < q.short_prio)
      /\ ~(rt_task(p) /\ q.policy = "SHORT")
      /\ ~(p.prio < q.prio)
  BY DEF Preempts
<1>5. ClassIn(S, c) = IF rt_task(q) THEN 0 ELSE IF q.policy = "SHORT" THEN 1 ELSE 2
  BY <1>3 DEF ClassIn
<1>6. /\ rt_task(p) => ClassIn(S, t) = 0
      /\ ~rt_task(p) /\ p.policy = "SHORT" => ClassIn(S, t) = 1
      /\ ~rt_task(p) /\ p.policy # "SHORT" => ClassIn(S, t) \in {2, 3}
  BY DEF ClassIn
<1>7. /\ rt_task(p) <=> p.policy # "SHORT" /\ p.prio < MAX_RT_PRIO
      /\ rt_task(q) <=> q.policy # "SHORT" /\ q.prio < MAX_RT_PRIO
      /\ Level(p) = IF p.policy = "SHORT" THEN p.short_prio ELSE p.prio
      /\ Level(q) = IF q.policy = "SHORT" THEN q.short_prio ELSE q.prio
  BY DEF rt_task, Level
<1> HIDE DEF p, q
<1>8. ~ (ClassIn(S, t) < ClassIn(S, c))
  <2>1. CASE rt_task(p)
    BY <1>2, <1>3, <1>4, <1>5, <1>6, <1>7, <2>1 DEF Policies
  <2>2. CASE ~rt_task(p)
    BY <1>2, <1>3, <1>4, <1>5, <1>6, <1>7, <2>2 DEF Policies
  <2> QED  BY <2>1, <2>2
<1>9. ClassIn(S, t) = ClassIn(S, c) => ~ (Level(p) < Level(q))
  <2>1. CASE rt_task(p)
    BY <1>2, <1>3, <1>4, <1>5, <1>6, <1>7, <2>1
  <2>2. CASE ~rt_task(p)
    BY <1>2, <1>3, <1>4, <1>5, <1>6, <1>7, <2>2
  <2> QED  BY <2>1, <2>2
<1>10. p.policy = "SHORT" /\ q.policy = "SHORT" => Level(q) <= Level(p)
  BY <1>2, <1>4, <1>7
<1> QED  BY <1>1, <1>8, <1>9, <1>10 DEF NotBefore, p, q

(* One task moves, and the claim of the current one stays the best. *)
LEMMA BestFrom ==
    ASSUME NEW S, NEW T, NEW t \in Tasks, NEW c \in Tasks, c # t,
           T.rq.active = S.rq.active, \A u \in Tasks \ {t} : T.task[u] = S.task[u],
           T.task[t].array # None => NotBefore(T, t, c), BestIn(S, c)
    PROVE  BestIn(T, c)
<1> SUFFICES ASSUME NEW u \in Tasks, T.task[u].array # None PROVE NotBefore(T, u, c)
  BY DEF BestIn
<1>1. CASE u = t
  BY <1>1
<1>2. CASE u # t
  <2>1. T.task[u] = S.task[u] /\ T.task[c] = S.task[c]
    BY <1>2
  <2>2. ClassIn(T, u) = ClassIn(S, u) /\ ClassIn(T, c) = ClassIn(S, c)
    BY <2>1 DEF ClassIn
  <2>3. NotBefore(S, u, c)
    BY <2>1 DEF BestIn
  <2> QED  BY <2>1, <2>2, <2>3 DEF NotBefore
<1> QED  BY <1>1, <1>2

LEMMA FirstFrom ==
    ASSUME NEW S \in Sys, NEW T, NEW t \in Tasks, NEW c \in Tasks, c # t,
           \A u \in Tasks \ {t} : T.task[u] = S.task[u],
           FirstsKept(S.rq.arrays[Short], T.rq.arrays[Short], t),
           T.task[t].array = Short /\ T.task[c].policy = "SHORT"
              => Level(T.task[c]) <= Level(T.task[t]),
           FirstIn(S, c)
    PROVE  FirstIn(T, c)
<1> DEFINE k == Level(S.task[c])
<1>1. T.task[c] = S.task[c] /\ k \in Levels
  BY TaskOf, LevelIn
<1> SUFFICES ASSUME S.task[c].policy = "SHORT"
             PROVE  /\ \A u \in Tasks : T.task[u].array = Short => k <= Level(T.task[u])
                    /\ T.rq.arrays[Short].queue[k] # << >>
                    /\ T.rq.arrays[Short].queue[k][1] = c
  BY <1>1 DEF FirstIn
<1>2. /\ \A u \in Tasks : S.task[u].array = Short => k <= Level(S.task[u])
      /\ S.rq.arrays[Short].queue[k] # << >>
      /\ S.rq.arrays[Short].queue[k][1] = c
  BY DEF FirstIn
<1>3. SameFirst(S.rq.arrays[Short].queue[k], T.rq.arrays[Short].queue[k], t)
  BY <1>1 DEF FirstsKept
<1>4. ASSUME NEW u \in Tasks, T.task[u].array = Short PROVE k <= Level(T.task[u])
  BY <1>1, <1>2, <1>4
<1>5. T.rq.arrays[Short].queue[k] # << >> /\ T.rq.arrays[Short].queue[k][1] = c
  BY <1>2, <1>3 DEF SameFirst
<1> QED  BY <1>4, <1>5

(* activate_task() of a task that is out of the lists. *)
Enters(S, T, t) ==
    /\ Sane(T, {}) /\ Count(T)
    /\ T.rq.active = S.rq.active
    /\ \A u \in Tasks \ {t} : T.task[u] = S.task[u]
    /\ T.task[t].state = S.task[t].state /\ T.task[t].policy = S.task[t].policy
    /\ T.task[t].time_left = S.task[t].time_left
    /\ Placed(T, t) /\ (rt_task(T.task[t]) <=> rt_task(S.task[t]))
    /\ T.task[t].array \in {T.rq.active, Short}
    /\ \A b \in Arrays : FirstsKept(S.rq.arrays[b], T.rq.arrays[b], t)

LEMMA EntersOk ==
    ASSUME NEW S, NEW t \in Tasks, Sane(S, {t}), Count(S), S.task[t].array = None,
           NEW e \in Levels,
           ~rt_task(S.task[t]) /\ S.task[t].policy # "SHORT" => e \in NormalPrios
    PROVE  Enters(S, activate_task(S, t, e), t)
<1> DEFINE T == activate_task(S, t, e)
           p == S.task[t]
           prio == IF rt_task(p) \/ p.policy = "SHORT" THEN p.prio ELSE e
           a == ArrayFor(S, t)
           q == [[p EXCEPT !.prio = prio] EXCEPT !.array = a]
<1>1. /\ Sane(T, {}) /\ Count(T)
      /\ T.task = [S.task EXCEPT ![t] = q]
      /\ T.rq.active = S.rq.active
      /\ \A b \in Arrays : FirstsKept(S.rq.arrays[b], T.rq.arrays[b], t)
  <2>1. /\ Sane(T, {}) /\ Count(T)
        /\ T.task = [S.task EXCEPT ![t] = q]
        /\ T.rq.active = S.rq.active /\ T.rq.expired = S.rq.expired
        /\ \A b \in Arrays : FirstsKept(S.rq.arrays[b], T.rq.arrays[b], t)
    BY SaneActivate, Zenon
  <2> HIDE DEF T, q
  <2> QED  BY <2>1
<1>2. /\ p \in TaskType /\ S.task \in [Tasks -> TaskType] /\ S.rq.active \in {0, 1}
  <2>1. S \in Sys
    BY SaneType
  <2> QED  BY <2>1, TaskOf DEF Sys, RqType
<1>3. a = IF p.policy = "SHORT" THEN Short ELSE S.rq.active
  BY DEF ArrayFor
<1> HIDE DEF T, a
<1>4. /\ q.state = p.state /\ q.policy = p.policy /\ q.time_left = p.time_left
      /\ q.prio = prio /\ q.array = a
  BY <1>2 DEF TaskType
<1> HIDE DEF q
<1>5. T.task[t] = q /\ \A u \in Tasks \ {t} : T.task[u] = S.task[u]
  BY <1>1, <1>2
<1>6. rt_task(q) <=> rt_task(p)
  <2>1. CASE rt_task(p) \/ p.policy = "SHORT"
    BY <1>4, <2>1 DEF rt_task
  <2>2. CASE ~(rt_task(p) \/ p.policy = "SHORT")
    BY <1>4, <2>2, Numbers DEF rt_task
  <2> QED  BY <2>1, <2>2
<1>7. a \in {S.rq.active, Short} /\ a # None /\ (p.policy = "SHORT" <=> a = Short)
  BY <1>2, <1>3 DEF None, Short
<1>8. Placed(T, t)
  <2>1. rt_task(q) => a = S.rq.active
    BY <1>3, <1>6 DEF rt_task
  <2> QED  BY <1>1, <1>4, <1>5, <1>7, <2>1 DEF Placed
<1>9. Enters(S, T, t)
  BY <1>1, <1>4, <1>5, <1>6, <1>7, <1>8 DEF Enters
<1> QED  BY <1>9 DEF T

LEMMA EntersQueues ==
    ASSUME NEW S, NEW T, NEW t \in Tasks, NEW c, Enters(S, T, t),
           \A u \in Tasks \ {t} : TaskOk(S, u, c),
           S.task[t].state = "running" \/ (t = c /\ S.task[t].state # "free"),
           S.task[t].policy \in {"FIFO", "RR"} => rt_task(S.task[t]),
           S.task[t].policy = "OTHER" => ~rt_task(S.task[t])
    PROVE  Queues(T, c)
<1>1. /\ T.rq.active = S.rq.active
      /\ \A u \in Tasks \ {t} : T.task[u] = S.task[u]
      /\ Sane(T, {}) /\ Count(T) /\ Placed(T, t)
      /\ T.task[t].state = S.task[t].state /\ T.task[t].policy = S.task[t].policy
      /\ rt_task(T.task[t]) <=> rt_task(S.task[t])
  BY DEF Enters
<1>2. \A u \in Tasks \ {t} : TaskOk(T, u, c)
  BY <1>1 DEF TaskOk, Placed
<1>3. TaskOk(T, t, c)
  BY <1>1 DEF TaskOk, Placed
<1> QED  BY <1>1, <1>2, <1>3 DEF Queues

(* Claims and states say what a task on the runqueue is like. *)
LEMMA ClaimsTaskOk ==
    ASSUME NEW S, NEW T, SameClaims(S, T), NEW t \in Tasks, NEW c, TaskOk(S, t, c),
           T.task[t].state = "running" => S.task[t].array # None,
           T.task[t].state # "running" => S.task[t].state # "running" \/ t = c,
           T.task[t].state = "free" => S.task[t].state = "free"
    PROVE  TaskOk(T, t, c)
<1> DEFINE p == S.task[t]
           q == T.task[t]
<1>1. /\ q.policy = p.policy /\ q.prio = p.prio /\ q.array = p.array
      /\ T.rq.active = S.rq.active
  BY DEF SameClaims
<1>2. rt_task(q) <=> rt_task(p)
  BY <1>1 DEF rt_task
<1>3. p.array # None => Placed(T, t)
  <2>1. p.array # None => Placed(S, t)
    BY DEF TaskOk
  <2> QED  BY <1>1, <1>2, <2>1 DEF Placed
<1> QED  BY <1>1, <1>2, <1>3 DEF TaskOk

(* An interrupt, or the current task, wakes one that sleeps. *)
LEMMA WakeKeeps ==
    ASSUME IInv, NEW t \in Tasks, Wake(t)
    PROVE  IInv' /\ \A u \in Tasks : OneWay(task[u], task'[u], u)
<1> DEFINE p == task[t]
           q == [p EXCEPT !.state = "running"]
           S == Put(Here, t, q)
<1>1. /\ Queues(Here, curr) /\ Sane(Here, {}) /\ Count(Here)
      /\ \A u \in Tasks : TaskOk(Here, u, curr) /\ task[u] \in TaskType
      /\ Here \in Sys /\ Here.task = task /\ Here.rq = rq
      /\ curr \in Tasks \cup {Idle} /\ need_resched \in BOOLEAN
      /\ CurrentOk(Here, curr, need_resched, calling)
      /\ excused \in {"no", "nice", "policy"} /\ calling \in BOOLEAN
  BY IInvUse
<1>2. /\ q \in TaskType /\ q.policy = p.policy /\ q.prio = p.prio /\ q.array = p.array
      /\ q.short_prio = p.short_prio /\ q.state = "running" /\ q.time_left = p.time_left
      /\ q.static_prio = p.static_prio
  BY <1>1 DEF TaskType
<1>3. /\ p.state = "sleeping" /\ UNCHANGED <<curr, calling, excused>>
      /\ TaskOk(Here, t, curr)
  BY <1>1 DEF Wake
<1>4. PICK e \in PriosOnWakeup(t) :
         LET U == [Here EXCEPT !.task[t].state = "running"]
             T == activate_task(U, t, e)
         IN  IF task[t].array # None
             THEN Becomes(U) /\ UNCHANGED need_resched
             ELSE /\ Becomes(T)
                  /\ need_resched' = (need_resched \/ Preempts(T.task[t], Running))
  BY DEF Wake
<1>5. [Here EXCEPT !.task[t].state = "running"] = S
  BY <1>1 DEF Put
<1> DEFINE T == activate_task(S, t, e)
<1>6. IF p.array # None
      THEN Becomes(S) /\ UNCHANGED need_resched
      ELSE Becomes(T) /\ need_resched' = (need_resched \/ Preempts(T.task[t], Running))
  BY <1>4, <1>5
<1>7. /\ Sane(S, {}) /\ Count(S) /\ SameClaims(Here, S) /\ S.rq = rq
      /\ S.task[t] = q /\ \A u \in Tasks \ {t} : S.task[u] = task[u]
  <2> HIDE DEF q
  <2>1. /\ q.policy = Here.task[t].policy /\ q.prio = Here.task[t].prio
        /\ q.short_prio = Here.task[t].short_prio /\ q.array = Here.task[t].array
    BY <1>1, <1>2
  <2>2. /\ Sane(S, {}) /\ Count(S) /\ SameClaims(Here, S) /\ S.rq = Here.rq
        /\ S.task[t] = q /\ \A u \in Tasks \ {t} : S.task[u] = Here.task[u]
    BY <1>1, <1>2, <2>1, PutClaims
  <2> HIDE DEF S
  <2> QED  BY <1>1, <2>2
<1> HIDE DEF q, S
<1>8. rt_task(q) <=> rt_task(p)
  BY <1>2 DEF rt_task
<1>9. \A u \in Tasks \ {t} : TaskOk(S, u, curr)
  <2>1. \A u \in Tasks \ {t} : S.task[u] = Here.task[u]
    BY <1>1, <1>7
  <2>2. S.rq.active = Here.rq.active
    BY <1>1, <1>7
  <2> QED  BY <1>1, <2>1, <2>2, OthersOk
<1>10. CASE p.array # None
  <2>1. Becomes(S) /\ need_resched' = need_resched
    BY <1>6, <1>10
  <2>2. TaskOk(S, t, curr)
    <3>1. Here.task[t].array # None /\ S.task[t].state = "running"
      BY <1>1, <1>2, <1>7, <1>10
    <3> QED  BY <1>3, <1>7, <3>1, ClaimsTaskOk
  <2>3. Queues(S, curr)
    BY <1>7, <1>9, <2>2 DEF Queues
  <2>4. CurrentOk(S, curr, need_resched', calling')
    BY <1>1, <1>2, <1>3, <1>7, <2>1 DEF CurrentOk
  <2>5. ASSUME ~need_resched, ~calling
        PROVE  /\ curr # Idle => FirstIn(S, curr)
               /\ excused = "no" => BestIn(S, curr)
    <3>1. /\ curr # Idle => FirstIn(Here, curr)
          /\ excused = "no" => BestIn(Here, curr)
      BY <2>5, IInvUse
    <3> QED  BY <1>1, <1>7, <3>1, ClaimsBest
  <2>6. Inv(S, curr', need_resched', calling', excused')
    BY <1>1, <1>3, <2>1, <2>3, <2>4, <2>5 DEF Inv
  <2>7. IInv'
    BY <2>1, <2>6, InvStep
  <2>8. ASSUME NEW u \in Tasks PROVE OneWay(task[u], task'[u], u)
    <3>1. task'[u] = S.task[u]
      BY <2>1 DEF Becomes
    <3>2. S.task[u].policy = task[u].policy /\ S.task[u].time_left = task[u].time_left
      BY <1>2, <1>7
    <3> QED  BY <1>1, <3>1, <3>2, OneWaySame
  <2> QED  BY <2>7, <2>8
<1>11. CASE p.array = None
  <2>1. Becomes(T) /\ need_resched' = (need_resched \/ Preempts(T.task[t], Running))
    BY <1>6, <1>11
  <2>2. e \in Levels /\ (p.policy # "SHORT" /\ ~rt_task(p) => e \in NormalPrios)
    <3>1. p.prio \in Levels /\ p.static_prio \in Int
      <4>1. p \in TaskType
        BY <1>1
      <4> HIDE DEF p
      <4>2. p.prio \in Levels /\ p.static_prio \in NormalPrios
        BY <4>1 DEF TaskType
      <4>3. p.static_prio \in Nat
        BY <4>2, Numbers
      <4> QED  BY <4>2, <4>3
    <3>2. EffectivePrios(p.static_prio) \subseteq NormalPrios
      BY <3>1, EffectiveNormal
    <3>3. p.policy # "SHORT" /\ ~rt_task(p) => p.prio \in NormalPrios
      BY <3>1, Numbers DEF rt_task, NormalPrios, Levels
    <3> QED  BY <3>1, <3>2, <3>3, Numbers DEF PriosOnWakeup
  <2>3. Enters(S, T, t)
    <3>1. Sane(S, {t})
      BY <1>2, <1>7, <1>11, SaneOut
    <3>2. ~rt_task(S.task[t]) /\ S.task[t].policy # "SHORT" => e \in NormalPrios
      BY <1>2, <1>7, <1>8, <2>2
    <3> HIDE DEF T
    <3>3. S.task[t].array = None /\ e \in Levels
      BY <1>2, <1>7, <1>11, <2>2
    <3>4. Enters(S, activate_task(S, t, e), t)
      BY <1>7, <3>1, <3>2, <3>3, EntersOk
    <3> QED  BY <3>4 DEF T
  <2> HIDE DEF T
  <2>4. Queues(T, curr)
    <3>1. /\ S.task[t].state = "running"
          /\ S.task[t].policy \in {"FIFO", "RR"} => rt_task(S.task[t])
          /\ S.task[t].policy = "OTHER" => ~rt_task(S.task[t])
      BY <1>2, <1>3, <1>7, <1>8, <1>1 DEF TaskOk
    <3> QED  BY <1>9, <2>3, <3>1, EntersQueues
  <2>5. /\ T.rq.active = rq.active /\ \A u \in Tasks \ {t} : T.task[u] = task[u]
        /\ T.task[t].policy = p.policy /\ T.task[t].time_left = p.time_left
        /\ T.task[t].array # None
        /\ \A b \in Arrays : FirstsKept(rq.arrays[b], T.rq.arrays[b], t)
    BY <1>2, <1>7, <2>3 DEF Enters, Placed
  <2>6. curr # Idle => curr \in Tasks /\ curr # t
    BY <1>1, <1>11 DEF CurrentOk
  <2>7. CurrentOk(T, curr, need_resched', calling')
    BY <1>1, <1>3, <2>1, <2>5, <2>6 DEF CurrentOk
  <2>8. ASSUME ~need_resched', ~calling
        PROVE  /\ curr # Idle => FirstIn(T, curr)
               /\ excused = "no" => BestIn(T, curr)
    <3>1. ~need_resched /\ ~Preempts(T.task[t], Running)
      BY <2>1, <2>8
    <3>2. curr # Idle
      <4> SUFFICES ASSUME curr = Idle PROVE FALSE
        OBVIOUS
      <4>1. Running.prio = MAX_PRIO
        BY DEF Running, IdleTask
      <4>2. T.task[t].prio \in Levels
        BY <2>4, SaneType, TaskOf DEF Queues, TaskType
      <4> QED  BY <3>1, <4>1, <4>2, Numbers DEF Preempts, Levels
    <3>3. ~Preempts(T.task[t], T.task[curr])
      BY <2>5, <2>6, <3>1, <3>2 DEF Running
    <3>4. FirstIn(Here, curr) /\ (excused = "no" => BestIn(Here, curr))
      BY <2>8, <3>1, <3>2, IInvUse
    <3>5. T \in Sys /\ TaskOk(T, t, curr) /\ TaskOk(T, curr, curr)
      BY <2>4, <2>6, <3>2, SaneType DEF Queues
    <3>6. T.task[curr].array # None /\ T.task[curr].array \in {T.rq.active, Short}
      BY <1>1, <2>5, <2>6, <2>8, <3>1, <3>2 DEF CurrentOk
    <3>7. /\ NotBefore(T, t, curr)
          /\ T.task[t].policy = "SHORT" /\ T.task[curr].policy = "SHORT"
                => Level(T.task[curr]) <= Level(T.task[t])
      BY <2>5, <2>6, <3>2, <3>3, <3>5, <3>6, NotPreempts
    <3>8. T.rq.active = Here.rq.active /\ \A u \in Tasks \ {t} : T.task[u] = Here.task[u]
      BY <1>1, <2>5
    <3>9. BestIn(Here, curr) => BestIn(T, curr)
      BY <2>6, <3>2, <3>7, <3>8, BestFrom
    <3>10. T.task[t].array = Short /\ T.task[curr].policy = "SHORT"
              => Level(T.task[curr]) <= Level(T.task[t])
      BY <2>5, <3>5, <3>7 DEF TaskOk, Placed
    <3>11. FirstsKept(Here.rq.arrays[Short], T.rq.arrays[Short], t)
      BY <1>1, <2>5 DEF Arrays
    <3>12. FirstIn(T, curr)
      BY <1>1, <2>6, <3>2, <3>4, <3>8, <3>10, <3>11, FirstFrom
    <3> QED  BY <3>4, <3>9, <3>12
  <2>9. Inv(T, curr', need_resched', calling', excused')
    <3>1. need_resched' \in BOOLEAN
      BY <2>1
    <3> QED  BY <1>1, <1>3, <2>4, <2>7, <2>8, <3>1 DEF Inv
  <2>10. IInv'
    BY <2>1, <2>9, InvStep
  <2>11. ASSUME NEW u \in Tasks PROVE OneWay(task[u], task'[u], u)
    <3>1. task'[u] = T.task[u]
      BY <2>1 DEF Becomes
    <3>2. T.task[u].policy = task[u].policy /\ T.task[u].time_left = task[u].time_left
      BY <2>5
    <3> QED  BY <1>1, <3>1, <3>2, OneWaySame
  <2> QED  BY <2>10, <2>11
<1> QED  BY <1>10, <1>11

LEMMA FreshType ==
    ASSUME NEW state \in {"free", "running"}
    PROVE  /\ Fresh(state) \in TaskType /\ ~rt_task(Fresh(state))
           /\ Fresh(state).policy = "OTHER" /\ Fresh(state).array = None
           /\ Fresh(state).time_left = 0 /\ Fresh(state).state = state
           /\ Fresh(state).prio = MAX_RT_PRIO
<1>1. /\ TimeSlice \in 1 .. MaxTimeSlice /\ MAX_RT_PRIO \in NormalPrios /\ MAX_RT_PRIO \in Levels
      /\ 0 \in Levels /\ 0 \in Nat /\ ~(MAX_RT_PRIO < MAX_RT_PRIO)
  BY Numbers
<1>2. Fresh(state) \in TaskType
  BY <1>1 DEF Fresh, TaskType, Policies
<1>3. /\ Fresh(state).policy = "OTHER" /\ Fresh(state).array = None
      /\ Fresh(state).time_left = 0 /\ Fresh(state).state = state
      /\ Fresh(state).prio = MAX_RT_PRIO
  BY DEF Fresh
<1> QED  BY <1>1, <1>2, <1>3 DEF rt_task

(* The current task releases a zombie. *)
LEMMA ReapKeeps ==
    ASSUME IInv, NEW t \in Tasks, Reap(t)
    PROVE  IInv' /\ \A u \in Tasks : OneWay(task[u], task'[u], u)
<1> DEFINE back == IF task[t].first_time_slice /\ task[t].policy # "SHORT"
                   THEN task[t].time_slice ELSE 0
           m == Min({task[curr].time_slice + back, MaxTimeSlice})
           p == task[curr]
           q == [p EXCEPT !.time_slice = m]
           F == Fresh("free")
           S == Put(Here, t, F)
           T == Put(S, curr, q)
<1>1. /\ curr # Idle /\ task[t].state = "zombie" /\ task[t].array = None
      /\ task' = [task EXCEPT ![t] = F, ![curr].time_slice = m]
      /\ UNCHANGED <<rq, curr, need_resched, calling, excused>>
  BY DEF Reap, InKernel
<1>2. /\ Queues(Here, curr) /\ Sane(Here, {}) /\ Count(Here)
      /\ \A u \in Tasks : TaskOk(Here, u, curr) /\ task[u] \in TaskType
      /\ Here \in Sys /\ Here.task = task /\ Here.rq = rq
      /\ curr \in Tasks /\ need_resched \in BOOLEAN /\ Placed(Here, curr)
      /\ CurrentOk(Here, curr, need_resched, calling)
      /\ excused \in {"no", "nice", "policy"} /\ calling \in BOOLEAN
  BY <1>1, IInvUse
<1>3. curr # t
  BY <1>1, <1>2 DEF Placed
<1>4. m \in 1 .. MaxTimeSlice
  <2>1. /\ task[t] \in TaskType /\ task[curr] \in TaskType
    BY <1>2
  <2>2. /\ task[t].time_slice \in 1 .. MaxTimeSlice
        /\ task[curr].time_slice \in 1 .. MaxTimeSlice /\ MaxTimeSlice \in Nat
    BY <2>1, SliceAssumption DEF TaskType
  <2>3. back \in Nat
    BY <2>2
  <2> HIDE DEF back
  <2>4. task[curr].time_slice + back \in Int /\ MaxTimeSlice \in Int
    BY <2>2, <2>3
  <2>5. m = IF task[curr].time_slice + back <= MaxTimeSlice
            THEN task[curr].time_slice + back ELSE MaxTimeSlice
    BY <2>4, OfTwo
  <2> QED  BY <2>2, <2>3, <2>5
<1> HIDE DEF m
<1>5. /\ q \in TaskType /\ q.policy = p.policy /\ q.prio = p.prio /\ q.array = p.array
      /\ q.short_prio = p.short_prio /\ q.state = p.state /\ q.time_left = p.time_left
  <2>1. p \in TaskType
    BY <1>2
  <2> HIDE DEF p
  <2> QED  BY <1>4, <2>1 DEF TaskType
<1>6. /\ F \in TaskType /\ ~rt_task(F) /\ F.policy = "OTHER" /\ F.array = None
      /\ F.time_left = 0 /\ F.state = "free"
  BY FreshType
<1>7. /\ S \in Sys /\ S.rq = rq /\ S.task[t] = F /\ S.task = [task EXCEPT ![t] = F]
      /\ \A u \in Tasks \ {t} : S.task[u] = task[u]
  <2> HIDE DEF F
  <2>1. /\ S \in Sys /\ S.rq = Here.rq /\ S.task[t] = F
        /\ S.task = [Here.task EXCEPT ![t] = F]
        /\ \A u \in Tasks \ {t} : S.task[u] = Here.task[u]
    BY <1>2, <1>6, Puts
  <2> HIDE DEF S
  <2> QED  BY <1>2, <2>1
<1>8. Sane(S, {}) /\ Count(S)
  <2> HIDE DEF F
  <2>1. Here.task[t].array = None
    BY <1>1, <1>2
  <2>2. Sane(Here, {t})
    BY <1>2, <2>1, SaneOut
  <2>3. Sane(S, {t}) /\ Count(S)
    BY <1>2, <1>6, <2>1, <2>2, SanePut
  <2> HIDE DEF S
  <2>4. S.task[t].array = None
    BY <1>6, <1>7
  <2> QED  BY <2>3, <2>4, SaneOut
<1> HIDE DEF F
<1>9. Becomes(T)
  <2>1. T.rq = S.rq /\ T.task = [S.task EXCEPT ![curr] = q]
    <3> HIDE DEF S, q
    <3>1. /\ T \in Sys /\ T.rq = S.rq /\ T.task[curr] = q
          /\ T.task = [S.task EXCEPT ![curr] = q]
          /\ \A u \in Tasks \ {curr} : T.task[u] = S.task[u]
      <4>1. S \in Sys /\ curr \in Tasks /\ q \in TaskType
        BY <1>2, <1>5, <1>7
      <4> QED  BY <4>1, Puts
    <3> QED  BY <3>1
  <2> HIDE DEF T, S
  <2>2. T.task = [[task EXCEPT ![t] = F] EXCEPT ![curr] = [p EXCEPT !.time_slice = m]]
    BY <1>7, <2>1
  <2>3. task' = [[task EXCEPT ![t] = F] EXCEPT ![curr] =
                    [[task EXCEPT ![t] = F][curr] EXCEPT !.time_slice = m]]
    BY <1>1
  <2>4. [task EXCEPT ![t] = F][curr] = p
    BY <1>2, <1>3 DEF Sys
  <2> QED  BY <1>1, <1>7, <2>1, <2>2, <2>3, <2>4 DEF Becomes
<1>10. /\ Sane(T, {}) /\ Count(T) /\ SameClaims(S, T) /\ T.rq = S.rq
       /\ T.task[curr] = q /\ \A u \in Tasks \ {curr} : T.task[u] = S.task[u]
  <2> HIDE DEF S, q
  <2>1. S.task[curr] = p
    BY <1>2, <1>3, <1>7
  <2> HIDE DEF p
  <2>2. /\ q.policy = S.task[curr].policy /\ q.prio = S.task[curr].prio
        /\ q.short_prio = S.task[curr].short_prio /\ q.array = S.task[curr].array
    BY <1>5, <2>1
  <2> QED  BY <1>2, <1>5, <1>8, <2>2, PutClaims
<1> HIDE DEF T, S, q
<1>11. \A u \in Tasks : TaskOk(S, u, curr)
  <2>1. \A u \in Tasks \ {t} : TaskOk(S, u, curr)
    <3>1. \A u \in Tasks \ {t} : S.task[u] = Here.task[u]
      BY <1>2, <1>7
    <3>2. S.rq.active = Here.rq.active
      BY <1>2, <1>7
    <3> QED  BY <1>2, <3>1, <3>2, OthersOk
  <2>2. TaskOk(S, t, curr)
    BY <1>6, <1>7 DEF TaskOk
  <2> QED  BY <2>1, <2>2
<1>12. Queues(T, curr)
  <2> SUFFICES ASSUME NEW u \in Tasks PROVE TaskOk(T, u, curr)
    BY <1>10 DEF Queues
  <2>0. TaskOk(S, u, curr)
    BY <1>11
  <2>1. T.task[u].state = S.task[u].state
    BY <1>2, <1>3, <1>5, <1>7, <1>10
  <2>2. /\ T.task[u].state = "running" => S.task[u].array # None
        /\ T.task[u].state # "running" => S.task[u].state # "running" \/ u = curr
        /\ T.task[u].state = "free" => S.task[u].state = "free"
    BY <2>0, <2>1 DEF TaskOk
  <2> QED  BY <1>10, <2>0, <2>2, ClaimsTaskOk
<1>13. CurrentOk(T, curr, need_resched, calling)
  BY <1>2, <1>5, <1>7, <1>10 DEF CurrentOk
<1>14. ASSUME ~need_resched, ~calling
       PROVE  FirstIn(T, curr) /\ (excused = "no" => BestIn(T, curr))
  <2>1. FirstIn(Here, curr) /\ (excused = "no" => BestIn(Here, curr))
    BY <1>1, <1>14, IInvUse
  <2>2. /\ S.task[t].array = None /\ S.rq.active = Here.rq.active
        /\ \A u \in Tasks \ {t} : S.task[u] = Here.task[u]
        /\ FirstsKept(Here.rq.arrays[Short], S.rq.arrays[Short], t)
    BY <1>2, <1>6, <1>7 DEF FirstsKept, SameFirst
  <2>3. FirstIn(S, curr)
    <3>1. S.task[t].array # Short
      BY <2>2 DEF None, Short
    <3> QED  BY <1>2, <1>3, <2>1, <2>2, <3>1, FirstFrom
  <2>4. BestIn(Here, curr) => BestIn(S, curr)
    BY <1>2, <1>3, <2>2, BestFrom
  <2> QED  BY <1>1, <1>2, <1>10, <2>1, <2>3, <2>4, ClaimsBest
<1>15. Inv(T, curr', need_resched', calling', excused')
  BY <1>1, <1>2, <1>12, <1>13, <1>14 DEF Inv
<1>16. IInv'
  BY <1>9, <1>15, InvStep
<1>17. ASSUME NEW u \in Tasks PROVE OneWay(task[u], task'[u], u)
  <2>1. task'[u] = T.task[u]
    BY <1>9 DEF Becomes
  <2>2. CASE u # t
    <3>1. T.task[u].policy = task[u].policy /\ T.task[u].time_left = task[u].time_left
      BY <1>5, <1>7, <1>10, <2>2
    <3> QED  BY <1>2, <2>1, <3>1, OneWaySame
  <2>3. CASE u = t
    <3>1. task'[u] = F
      BY <1>3, <1>7, <1>10, <2>1, <2>3
    <3> QED  BY <1>1, <1>6, <2>3, <3>1 DEF OneWay
  <2> QED  BY <2>2, <2>3
<1> QED  BY <1>16, <1>17

(* What scheduler_tick() leaves of the current task. *)
LEMMA TickedTask ==
    ASSUME NEW S, S \in Sys, NEW T, NEW t \in Tasks, NEW r \in BOOLEAN,
           TickOk(S, t, T, r), Placed(S, t), TaskOk(S, t, t)
    PROVE  /\ TaskOk(T, t, t) /\ T.task[t].array # None
           /\ T.task[t].state = S.task[t].state
           /\ S.task[t].policy # "SHORT" => T.task[t].policy = S.task[t].policy
<1> DEFINE p == S.task[t]
           q == T.task[t]
<1>1. /\ T \in Sys /\ T.rq.active = S.rq.active /\ T.rq.expired = S.rq.expired
      /\ TickOutcome(S, p, q)
  BY SaneType DEF TickOk
<1>2. S.rq.active \in {0, 1} /\ S.rq.expired \in {0, 1} /\ p \in TaskType /\ q \in TaskType
  BY <1>1, TaskOf DEF Sys, RqType
<1>3. /\ p.state = "running" => p.array # None
      /\ p.array # None /\ (p.policy = "SHORT" <=> p.array = Short)
      /\ rt_task(p) => p.array = S.rq.active
      /\ p.policy \in {"FIFO", "RR"} => rt_task(p)
      /\ p.policy = "OTHER" => ~rt_task(p)
      /\ p.state # "free" /\ p.policy \in Policies
  BY <1>2 DEF TaskOk, Placed, TaskType
<1> HIDE DEF p, q
<1> SUFFICES TaskOk(T, t, t) /\ q.array # None /\ q.state = p.state
             /\ (p.policy # "SHORT" => q.policy = p.policy)
  BY DEF p, q
<1>4. CASE Kept(p, q)
  <2>1. rt_task(q) <=> rt_task(p)
    BY <1>4, KeptLevel
  <2>2. q.state = p.state /\ q.policy = p.policy /\ q.array = p.array
    BY <1>4 DEF Kept
  <2>3. TaskOk(T, t, t)
    BY <1>1, <1>3, <2>1, <2>2 DEF TaskOk, Placed, q
  <2> QED  BY <1>3, <2>2, <2>3
<1>5. CASE /\ p.policy # "SHORT" /\ ~rt_task(p)
           /\ q.state = p.state /\ q.policy = p.policy /\ q.time_left = p.time_left
           /\ q.prio \in NormalPrios /\ q.array \in {S.rq.active, S.rq.expired}
  <2>1. ~rt_task(q)
    BY <1>5, Numbers DEF rt_task, NormalPrios
  <2>2. q.array # None /\ q.array # Short
    BY <1>2, <1>5 DEF None, Short
  <2>3. TaskOk(T, t, t)
    BY <1>3, <1>5, <2>1, <2>2 DEF TaskOk, Placed, q
  <2> QED  BY <1>5, <2>2, <2>3
<1>6. CASE /\ p.policy = "SHORT"
           /\ q.state = p.state /\ q.policy = "OTHER" /\ q.time_left = 0
           /\ q.prio \in NormalPrios /\ q.array = S.rq.active
  <2>1. ~rt_task(q)
    BY <1>6, Numbers DEF rt_task, NormalPrios
  <2>2. q.array # None /\ q.array # Short
    BY <1>2, <1>6 DEF None, Short
  <2>3. TaskOk(T, t, t)
    BY <1>3, <1>6, <2>1, <2>2 DEF TaskOk, Placed, q
  <2> QED  BY <1>6, <2>2, <2>3
<1> QED  BY <1>1, <1>4, <1>5, <1>6 DEF TickOutcome

LEMMA Halves == \A n \in 1 .. MaxTimeSlice :
    /\ (n + 1) \div 2 \in 1 .. MaxTimeSlice
    /\ n \div 2 \in 0 .. MaxTimeSlice
BY SliceAssumption

(* do_fork() *)
LEMMA ForkKeeps ==
    ASSUME IInv, NEW c \in Tasks, NEW vfork \in BOOLEAN, Fork(c, vfork)
    PROVE  IInv' /\ \A u \in Tasks : OneWay(task[u], task'[u], u)
<1> DEFINE p == task[curr]
           half == p.time_slice \div 2
           left == IF half = 0 THEN 1 ELSE half
           child == [p EXCEPT !.array = None, !.first_time_slice = TRUE,
                              !.time_slice = (p.time_slice + 1) \div 2]
           q == [p EXCEPT !.time_slice = left]
           R == Put(Here, c, child)
           S == Put(R, curr, q)
<1>1. /\ curr # Idle /\ calling = FALSE /\ task[c].state = "free" /\ p.policy # "SHORT"
      /\ calling' = vfork /\ curr' = curr /\ excused' = excused
  <2>1. InKernel /\ MayFork(p) /\ calling' = vfork /\ UNCHANGED <<curr, excused>>
        /\ task[c].state = "free"
    BY DEF Fork
  <2>2. calling \in BOOLEAN
    BY IInvUse
  <2> QED  BY <2>1, <2>2, SMTT(60) DEF InKernel, MayFork
<1>2. /\ Queues(Here, curr) /\ Sane(Here, {}) /\ Count(Here)
      /\ \A u \in Tasks : TaskOk(Here, u, curr) /\ task[u] \in TaskType
      /\ Here \in Sys /\ Here.task = task /\ Here.rq = rq
      /\ curr \in Tasks /\ need_resched \in BOOLEAN /\ Placed(Here, curr)
      /\ CurrentOk(Here, curr, need_resched, calling)
      /\ excused \in {"no", "nice", "policy"} /\ p.state # "free"
  BY <1>1, IInvUse
<1>3. curr # c /\ task[c].array = None /\ p.state = "running" /\ task[c].policy = "OTHER"
  <2>1. TaskOk(Here, c, curr)
    BY <1>2
  <2> QED  BY <1>1, <1>2, <2>1 DEF TaskOk, CurrentOk
<1>4. p \in TaskType /\ p.time_slice \in 1 .. MaxTimeSlice
  <2>1. p \in TaskType
    BY <1>2
  <2> HIDE DEF p
  <2> QED  BY <2>1 DEF TaskType
<1>5. left \in 1 .. MaxTimeSlice
  BY <1>4, Halves
<1>6. /\ child \in TaskType /\ child.array = None /\ child.policy = p.policy
      /\ child.prio = p.prio /\ child.state = p.state
  <2> HIDE DEF p
  <2>1. (p.time_slice + 1) \div 2 \in 1 .. MaxTimeSlice
    BY <1>4, Halves
  <2> QED  BY <1>4, <2>1 DEF TaskType
<1> HIDE DEF left
<1>7. /\ q \in TaskType /\ q.policy = p.policy /\ q.prio = p.prio /\ q.array = p.array
      /\ q.short_prio = p.short_prio /\ q.state = p.state /\ q.time_left = p.time_left
  <2> HIDE DEF p
  <2> QED  BY <1>4, <1>5 DEF TaskType
<1>8. /\ R \in Sys /\ R.rq = rq /\ R.task[c] = child /\ R.task = [task EXCEPT ![c] = child]
      /\ \A u \in Tasks \ {c} : R.task[u] = task[u]
  <2> HIDE DEF child
  <2>1. /\ R \in Sys /\ R.rq = Here.rq /\ R.task[c] = child
        /\ R.task = [Here.task EXCEPT ![c] = child]
        /\ \A u \in Tasks \ {c} : R.task[u] = Here.task[u]
    <3>1. Here \in Sys /\ c \in Tasks /\ child \in TaskType
      BY <1>2, <1>6
    <3> QED  BY <3>1, Puts
  <2> HIDE DEF R
  <2> QED  BY <1>2, <2>1
<1>9. [Here EXCEPT !.task[c] = child, !.task[curr].time_slice = left] = S
  <2>1. R = [Here EXCEPT !.task[c] = child]
    BY DEF Put
  <2>2. R.task[curr] = p
    BY <1>2, <1>3, <1>8
  <2> HIDE DEF child
  <2>3. S = [Here EXCEPT !.task = [R.task EXCEPT ![curr] = q]]
    <3> HIDE DEF p, q
    <3> QED  BY DEF Put
  <2>4. [Here EXCEPT !.task[c] = child, !.task[curr].time_slice = left]
           = [Here EXCEPT !.task = [[Here.task EXCEPT ![c] = child] EXCEPT
                                       ![curr] = [[Here.task EXCEPT ![c] = child][curr]
                                                     EXCEPT !.time_slice = left]]]
    OBVIOUS
  <2> HIDE DEF R
  <2> QED  BY <1>2, <1>8, <2>2, <2>3, <2>4
<1> DEFINE Forked(U, e, stays, d) ==
              LET after == IF half = 0 THEN scheduler_tick(U, curr, e, stays)
                                       ELSE Ticked(U, FALSE)
                  T == activate_task(after.sys, c, d)
              IN  /\ Becomes(IF vfork
                             THEN [T EXCEPT !.task[curr].state = "sleeping"]
                             ELSE T)
                  /\ need_resched' = (need_resched \/ after.resched \/ ~vfork)
<1>10. PICK e \in EffectivePrios(StaticInTick(p)), stays \in BOOLEAN,
            d \in EffectivePrios(p.static_prio) : Forked(S, e, stays, d)
  <2>1. \E e \in EffectivePrios(StaticInTick(p)), stays \in BOOLEAN,
           d \in EffectivePrios(p.static_prio) :
           Forked([Here EXCEPT !.task[c] = child, !.task[curr].time_slice = left],
                  e, stays, d)
    BY DEF Fork, left
  <2> HIDE DEF S, Forked, child
  <2> QED  BY <1>9, <2>1
<1> DEFINE A == IF half = 0 THEN scheduler_tick(S, curr, e, stays) ELSE Ticked(S, FALSE)
           U == A.sys
           T == activate_task(U, c, d)
           V == IF vfork THEN [T EXCEPT !.task[curr].state = "sleeping"] ELSE T
<1>11. Becomes(V) /\ need_resched' = (need_resched \/ A.resched \/ ~vfork)
  <2> HIDE DEF S
  <2> QED  BY <1>10
<1>12. Sane(R, {}) /\ Count(R)
  <2> HIDE DEF child
  <2>1. Here.task[c].array = None
    BY <1>2, <1>3
  <2>2. Sane(Here, {c})
    BY <1>2, <2>1, SaneOut
  <2>3. Sane(R, {c}) /\ Count(R)
    BY <1>2, <1>6, <2>1, <2>2, SanePut
  <2> HIDE DEF R
  <2>4. R.task[c].array = None
    BY <1>6, <1>8
  <2> QED  BY <2>3, <2>4, SaneOut
<1> HIDE DEF R, child
<1>13. R.task[curr] = p
  BY <1>2, <1>3, <1>8
<1>14. /\ Sane(S, {}) /\ Count(S) /\ SameClaims(R, S) /\ S.rq = R.rq
       /\ S.task[curr] = q /\ \A u \in Tasks \ {curr} : S.task[u] = R.task[u]
  <2> HIDE DEF p, q
  <2>1. /\ q.policy = R.task[curr].policy /\ q.prio = R.task[curr].prio
        /\ q.short_prio = R.task[curr].short_prio /\ q.array = R.task[curr].array
    BY <1>7, <1>13
  <2> QED  BY <1>2, <1>7, <1>12, <2>1, PutClaims
<1> HIDE DEF S, q
<1>15. S \in Sys /\ S.rq = rq /\ S.task[c] = child
       /\ \A u \in Tasks \ {c, curr} : S.task[u] = task[u]
  <2>1. S \in Sys
    BY <1>14, SaneType
  <2> QED  BY <1>3, <1>8, <1>14, <2>1
<1>16. Placed(S, curr) /\ TaskOk(S, curr, curr)
  <2>1. Placed(Here, curr) /\ TaskOk(Here, curr, curr)
    BY <1>2
  <2>2. rt_task(q) <=> rt_task(p)
    BY <1>7 DEF rt_task
  <2>3. Placed(S, curr)
    BY <1>2, <1>7, <1>14, <1>15, <2>1, <2>2 DEF Placed
  <2>4. /\ p.policy \in {"FIFO", "RR"} => rt_task(p)
        /\ p.policy = "OTHER" => ~rt_task(p)
    BY <1>2, <2>1 DEF TaskOk
  <2> QED  BY <1>2, <1>7, <1>14, <2>2, <2>3, <2>4 DEF TaskOk, Placed
<1>17. e \in NormalPrios /\ d \in NormalPrios
  <2>1. p.static_prio \in NormalPrios /\ StaticInTick(p) \in Int
    <3>1. p \in TaskType
      BY <1>4
    <3> HIDE DEF p
    <3> QED  BY <3>1, StaticIsInt DEF TaskType
  <2>2. p.static_prio \in Int
    <3>1. p.static_prio \in Nat
      BY <2>1, Numbers
    <3> QED  BY <3>1
  <2> HIDE DEF p
  <2> QED  BY <2>1, <2>2, EffectiveNormal
<1>18. /\ Sane(U, {}) /\ Count(U) /\ U.rq.active = rq.active
       /\ \A u \in Tasks \ {curr} : U.task[u] = S.task[u]
       /\ TaskOk(U, curr, curr) /\ U.task[curr].array # None
       /\ U.task[curr].state = p.state /\ U.task[curr].policy = p.policy
  <2>1. CASE half = 0
    <3> DEFINE X == scheduler_tick(S, curr, e, stays)
    <3>1. A = X
      BY <2>1
    <3>2. TickOk(S, curr, X.sys, X.resched)
      <4> HIDE DEF X
      <4>1. TickOk(S, curr, scheduler_tick(S, curr, e, stays).sys,
                   scheduler_tick(S, curr, e, stays).resched)
        BY <1>2, <1>14, <1>16, <1>17, TickedOk
      <4> QED  BY <4>1 DEF X
    <3> HIDE DEF X, A
    <3>3. TickOk(S, curr, U, X.resched)
      BY <3>1, <3>2
    <3>4. /\ Sane(U, {}) /\ Count(U) /\ U.rq.active = S.rq.active
          /\ \A u \in Tasks \ {curr} : U.task[u] = S.task[u]
      BY <3>3 DEF TickOk
    <3>5. TickOk(S, curr, U, TRUE)
      BY <3>3 DEF TickOk
    <3>6. /\ TaskOk(U, curr, curr) /\ U.task[curr].array # None
          /\ U.task[curr].state = S.task[curr].state
          /\ S.task[curr].policy # "SHORT" => U.task[curr].policy = S.task[curr].policy
      <4> HIDE DEF U
      <4>1. S \in Sys /\ curr \in Tasks /\ TRUE \in BOOLEAN
        BY <1>2, <1>15
      <4> QED  BY <1>16, <3>5, <4>1, TickedTask, Zenon
    <3> QED  BY <1>1, <1>7, <1>14, <1>15, <3>4, <3>6
  <2>2. CASE half # 0
    <3>1. A = Ticked(S, FALSE)
      BY <2>2
    <3>2. U = S
      BY <3>1 DEF Ticked
    <3> HIDE DEF A
    <3> QED  BY <1>7, <1>14, <1>15, <1>16, <3>2 DEF Placed
  <2> HIDE DEF U
  <2> QED  BY <2>1, <2>2
<1> HIDE DEF A, U, half
<1>19. U.task[c] = child /\ \A u \in Tasks \ {c, curr} : U.task[u] = task[u]
  BY <1>3, <1>15, <1>18
<1>20. Enters(U, T, c)
  <2>1. U.task[c].array = None
    BY <1>6, <1>19
  <2>2. Sane(U, {c}) /\ d \in Levels
    BY <1>17, <1>18, <2>1, SaneOut, Numbers
  <2> QED  BY <1>17, <1>18, <2>1, <2>2, EntersOk
<1> HIDE DEF T
<1>21. Queues(T, curr)
  <2>1. \A u \in Tasks \ {c, curr} : TaskOk(U, u, curr)
    <3> TAKE u \in Tasks \ {c, curr}
    <3>1. TaskOk(Here, u, curr) /\ U.task[u] = Here.task[u] /\ U.rq.active = Here.rq.active
      BY <1>2, <1>18, <1>19
    <3> QED  BY <3>1 DEF TaskOk, Placed
  <2>2. \A u \in Tasks \ {c} : TaskOk(U, u, curr)
    BY <1>18, <2>1
  <2>3. /\ U.task[c].state = "running"
        /\ U.task[c].policy \in {"FIFO", "RR"} => rt_task(U.task[c])
        /\ U.task[c].policy = "OTHER" => ~rt_task(U.task[c])
    <3>1. rt_task(child) <=> rt_task(p)
      BY <1>6 DEF rt_task
    <3>2. /\ p.policy \in {"FIFO", "RR"} => rt_task(p)
          /\ p.policy = "OTHER" => ~rt_task(p)
      BY <1>2 DEF TaskOk
    <3> QED  BY <1>3, <1>6, <1>19, <3>1, <3>2
  <2> QED  BY <1>20, <2>2, <2>3, EntersQueues
<1>22. /\ T.task[curr] = U.task[curr] /\ T.task[c].policy = p.policy
       /\ \A u \in Tasks \ {c, curr} : T.task[u] = task[u]
  BY <1>2, <1>3, <1>6, <1>19, <1>20 DEF Enters
<1>23. /\ Queues(V, curr) /\ V.task[curr].array # None /\ V.task[curr].policy = p.policy
       /\ V.task[c].policy = p.policy
       /\ \A u \in Tasks \ {c, curr} : V.task[u] = task[u]
       /\ ~vfork => V.task[curr].state = "running"
  <2>1. CASE ~vfork
    <3>1. V = T
      BY <2>1
    <3> HIDE DEF V
    <3> QED  BY <1>3, <1>18, <1>21, <1>22, <2>1, <3>1
  <2>2. CASE vfork
    <3> DEFINE w == [T.task[curr] EXCEPT !.state = "sleeping"]
    <3>1. V = Put(T, curr, w)
      BY <2>2 DEF Put
    <3>2. T \in Sys /\ T.task[curr] \in TaskType /\ Sane(T, {}) /\ Count(T)
      BY <1>2, <1>21, SaneType, TaskOf DEF Queues
    <3> HIDE DEF V
    <3>3. /\ w \in TaskType /\ w.policy = T.task[curr].policy /\ w.prio = T.task[curr].prio
          /\ w.short_prio = T.task[curr].short_prio /\ w.array = T.task[curr].array
          /\ w.state = "sleeping"
      BY <3>2 DEF TaskType
    <3> HIDE DEF w
    <3>4. /\ Sane(V, {}) /\ Count(V) /\ SameClaims(T, V) /\ V.rq = T.rq
          /\ V.task[curr] = w /\ \A u \in Tasks \ {curr} : V.task[u] = T.task[u]
      BY <1>2, <3>1, <3>2, <3>3, PutClaims
    <3>5. Queues(V, curr)
      <4> SUFFICES ASSUME NEW u \in Tasks PROVE TaskOk(V, u, curr)
        BY <3>4 DEF Queues
      <4>1. TaskOk(T, u, curr)
        BY <1>21 DEF Queues
      <4>2. /\ V.task[u].state = "running" => T.task[u].array # None
            /\ V.task[u].state # "running" => T.task[u].state # "running" \/ u = curr
            /\ V.task[u].state = "free" => T.task[u].state = "free"
        BY <3>3, <3>4, <4>1 DEF TaskOk
      <4> QED  BY <3>4, <4>1, <4>2, ClaimsTaskOk
    <3> QED  BY <1>3, <1>18, <1>22, <2>2, <3>3, <3>4, <3>5
  <2> HIDE DEF V
  <2> QED  BY <2>1, <2>2
<1> HIDE DEF V
<1>24. need_resched' \/ calling'
  BY <1>1, <1>11
<1>25. CurrentOk(V, curr, need_resched', calling')
  BY <1>1, <1>23, <1>24 DEF CurrentOk
<1>26. Inv(V, curr', need_resched', calling', excused')
  <2>1. need_resched' \in BOOLEAN /\ calling' \in BOOLEAN
    BY <1>1, <1>11
  <2> QED  BY <1>1, <1>2, <1>23, <1>24, <1>25, <2>1 DEF Inv
<1>27. IInv'
  BY <1>11, <1>26, InvStep
<1>28. ASSUME NEW u \in Tasks PROVE OneWay(task[u], task'[u], u)
  <2>1. task'[u] = V.task[u]
    BY <1>11 DEF Becomes
  <2>2. CASE u \in {c, curr}
    <3>1. task'[u].policy # "SHORT" /\ task[u].policy # "SHORT"
      BY <1>1, <1>3, <1>23, <2>1, <2>2
    <3> QED  BY <3>1 DEF OneWay
  <2>3. CASE u \notin {c, curr}
    <3>1. task'[u] = task[u] /\ task[u] \in TaskType
      BY <1>2, <1>23, <2>1, <2>3
    <3> QED  BY <3>1, OneWaySame
  <2> QED  BY <2>2, <2>3
<1> QED  BY <1>27, <1>28

------------------------------------------------------------------------------
(* sys_sched_yield() *)
Behind(q, t) == IF q = << >> THEN <<t>> ELSE InsertAt(q, 2, t)

LEMMA BehindList ==
    ASSUME NEW q, List(q), NEW t \in Tasks, ~In(q, t)
    PROVE  /\ List(Behind(q, t))
           /\ \A u : In(Behind(q, t), u) <=> In(q, u) \/ u = t
<1> DEFINE r == Behind(q, t)
<1>0. Len(q) \in Nat /\ q \in Seq(Tasks) /\ NoRepeats(q)
  BY LenProperties DEF List
<1>1. CASE q = << >>
  <2>1. r = Append(q, t)
    BY <1>1 DEF Behind
  <2>2. /\ List(Append(q, t))
        /\ \A u : In(Append(q, t), u) <=> In(q, u) \/ u = t
        /\ SameFirst(q, Append(q, t), t)
    BY AppendedList
  <2> HIDE DEF r
  <2>3. List(r) /\ \A u : In(r, u) <=> In(q, u) \/ u = t
    BY <2>1, <2>2
  <2> QED  BY <2>3 DEF r
<1>2. CASE q # << >>
  <2> DEFINE n == Len(q)
             a == SubSeq(q, 1, 1)
             b == SubSeq(q, 2, n)
             m == a \o <<t>>
  <2>0. n \in Nat /\ n >= 1 /\ \A i \in 1 .. n : q[i] \in Tasks
    BY <1>0, <1>2, ElementOfSeq, EmptySeq
  <2>1. /\ a \in Seq(Tasks) /\ Len(a) = 1 /\ a[1] = q[1]
    <3>1. 1 \in Int /\ \A i \in 1 .. 1 : q[i] \in Tasks
      BY <2>0
    <3>2. /\ a \in Seq(Tasks) /\ Len(a) = IF 1 <= 1 THEN 1 - 1 + 1 ELSE 0
          /\ \A i \in 1 .. 1 - 1 + 1 : a[i] = q[1 + i - 1]
      BY <3>1, SubSeqProperties
    <3> HIDE DEF a
    <3> QED  BY <3>2
  <2>2. /\ b \in Seq(Tasks) /\ Len(b) = n - 1
        /\ \A i \in 1 .. n - 1 : b[i] = q[i + 1]
    <3>1. 2 \in Int /\ n \in Int /\ \A i \in 2 .. n : q[i] \in Tasks
      BY <2>0
    <3>2. /\ b \in Seq(Tasks) /\ Len(b) = IF 2 <= n THEN n - 2 + 1 ELSE 0
          /\ \A i \in 1 .. n - 2 + 1 : b[i] = q[2 + i - 1]
      BY <3>1, SubSeqProperties
    <3> HIDE DEF b, n
    <3> QED  BY <2>0, <3>2
  <2> HIDE DEF a, b
  <2>3. m \in Seq(Tasks) /\ Len(m) = 2 /\ m[1] = q[1] /\ m[2] = t
    <3>1. <<t>> \in Seq(Tasks) /\ Len(<<t>>) = 1 /\ <<t>>[1] = t
      OBVIOUS
    <3>2. /\ m \in Seq(Tasks) /\ Len(m) = Len(a) + Len(<<t>>)
          /\ \A i \in 1 .. Len(a) + Len(<<t>>) :
                m[i] = IF i <= Len(a) THEN a[i] ELSE <<t>>[i - Len(a)]
      BY <2>1, <3>1, ConcatProperties
    <3> HIDE DEF m
    <3>3. 1 \in 1 .. Len(a) + Len(<<t>>) /\ 2 \in 1 .. Len(a) + Len(<<t>>) /\ 2 - Len(a) = 1
      BY <2>1, <3>1
    <3>4. m[1] = a[1] /\ m[2] = <<t>>[2 - Len(a)]
      BY <2>1, <3>2, <3>3
    <3> QED  BY <2>1, <3>1, <3>2, <3>3, <3>4
  <2> HIDE DEF m
  <2>4. /\ m \o b \in Seq(Tasks) /\ Len(m \o b) = n + 1
        /\ \A i \in 1 .. n + 1 :
              (m \o b)[i] = IF i = 1 THEN q[1] ELSE IF i = 2 THEN t ELSE q[i - 1]
    <3>1. /\ m \o b \in Seq(Tasks) /\ Len(m \o b) = Len(m) + Len(b)
          /\ \A i \in 1 .. Len(m) + Len(b) :
                (m \o b)[i] = IF i <= Len(m) THEN m[i] ELSE b[i - Len(m)]
      BY <2>2, <2>3, ConcatProperties
    <3> DEFINE w == m \o b
    <3> HIDE DEF w, n
    <3>2. ASSUME NEW i \in 1 .. n + 1
          PROVE  w[i] = IF i = 1 THEN q[1] ELSE IF i = 2 THEN t ELSE q[i - 1]
      <4>1. i \in 1 .. Len(m) + Len(b)
        BY <2>0, <2>2, <2>3
      <4>2. w[i] = IF i <= 2 THEN m[i] ELSE b[i - 2]
        BY <2>3, <3>1, <4>1 DEF w
      <4>3. CASE i <= 2
        <5>1. i = 1 \/ i = 2
          BY <2>0, <4>3
        <5> QED  BY <2>3, <4>2, <4>3, <5>1
      <4>4. CASE ~(i <= 2)
        <5>1. i - 2 \in 1 .. n - 1 /\ (i - 2) + 1 = i - 1 /\ i # 1 /\ i # 2
          BY <2>0, <4>4
        <5>2. b[i - 2] = q[(i - 2) + 1]
          BY <2>2, <5>1
        <5> QED  BY <4>2, <4>4, <5>1, <5>2
      <4> QED  BY <4>3, <4>4
    <3>3. w \in Seq(Tasks) /\ Len(w) = n + 1
      BY <2>0, <2>2, <2>3, <3>1 DEF w
    <3> QED  BY <3>2, <3>3 DEF w
  <2>5. r = m \o b
    BY <1>2 DEF Behind, InsertAt, m, a, b
  <2> HIDE DEF r, n
  <2>6. /\ r \in Seq(Tasks) /\ Len(r) = n + 1
        /\ \A i \in 1 .. n + 1 :
              r[i] = IF i = 1 THEN q[1] ELSE IF i = 2 THEN t ELSE q[i - 1]
    BY <2>4, <2>5
  <2>7. \A i, j \in 1 .. n : q[i] = q[j] => i = j
    BY <1>0 DEF NoRepeats, n
  <2>8. \A i \in 1 .. n : q[i] # t
    BY DEF In, n
  <2>9. ASSUME NEW i \in 1 .. n + 1, NEW j \in 1 .. n + 1, r[i] = r[j] PROVE i = j
    <3>1. \A x \in 1 .. n + 1 : x # 2 => LET y == IF x = 1 THEN 1 ELSE x - 1
                                         IN  y \in 1 .. n /\ r[x] = q[y]
      BY <2>0, <2>6
    <3>2. r[2] = t
      BY <2>0, <2>6
    <3>3. CASE i = 2 \/ j = 2
      BY <2>8, <2>9, <3>1, <3>2, <3>3
    <3>4. CASE i # 2 /\ j # 2
      BY <2>0, <2>7, <2>9, <3>1, <3>4
    <3> QED  BY <3>3, <3>4
  <2>10. ASSUME NEW u, In(r, u) PROVE In(q, u) \/ u = t
    <3>1. PICK i \in 1 .. n + 1 : r[i] = u
      BY <2>6, <2>10 DEF In
    <3>2. CASE i = 2
      BY <2>0, <2>6, <3>1, <3>2
    <3>3. CASE i = 1
      BY <2>0, <2>6, <3>1, <3>3 DEF In, n
    <3>4. CASE i # 1 /\ i # 2
      <4>1. i - 1 \in 1 .. n /\ q[i - 1] = u
        BY <2>0, <2>6, <3>1, <3>4
      <4> QED  BY <4>1 DEF In, n
    <3> QED  BY <3>2, <3>3, <3>4
  <2>11. ASSUME NEW u, In(q, u) \/ u = t PROVE In(r, u)
    <3>1. CASE u = t
      <4>1. 2 \in 1 .. n + 1 /\ r[2] = u
        BY <2>0, <2>6, <3>1
      <4> QED  BY <2>6, <4>1 DEF In
    <3>2. CASE In(q, u)
      <4>1. PICK i \in 1 .. n : q[i] = u
        BY <3>2 DEF In, n
      <4>2. CASE i = 1
        <5>1. 1 \in 1 .. n + 1 /\ r[1] = u
          BY <2>0, <2>6, <4>1, <4>2
        <5> QED  BY <2>6, <5>1 DEF In
      <4>3. CASE i # 1
        <5>1. i + 1 \in 1 .. n + 1 /\ i + 1 # 1 /\ i + 1 # 2 /\ (i + 1) - 1 = i
          BY <2>0, <4>1, <4>3
        <5>2. r[i + 1] = q[(i + 1) - 1]
          BY <2>6, <5>1
        <5> QED  BY <2>6, <4>1, <5>1, <5>2 DEF In
      <4> QED  BY <4>2, <4>3
    <3> QED  BY <2>11, <3>1, <3>2
  <2>12. List(r)
    BY <2>6, <2>9 DEF List, NoRepeats
  <2> QED  BY <2>10, <2>11, <2>12 DEF r
<1> QED  BY <1>1, <1>2

LEMMA HoldsYield ==
    ASSUME NEW A, NEW D \in SUBSET Tasks, NEW lev \in [Tasks -> Levels], Holds(A, D, lev),
           NEW t \in D, NEW k0 \in Levels, NEW q0, List(q0),
           \A u \in Tasks : In(q0, u) <=> In(RemoveFirst(A.queue[k0], t), u) \/ u = t,
           NEW bits \in SUBSET Levels,
           \A k \in Levels : k \in bits <=>
                                \/ k = k0
                                \/ /\ k \in A.bitmap
                                   /\ k = lev[t] => RemoveFirst(A.queue[k], t) # << >>
    PROVE  Holds([nr_active |-> A.nr_active, bitmap |-> bits,
                  queue |-> [k \in Levels |-> IF k = k0 THEN q0
                                              ELSE RemoveFirst(A.queue[k], t)]],
                 D, [lev EXCEPT ![t] = k0])
<1> DEFINE B == [nr_active |-> A.nr_active, bitmap |-> bits,
                 queue |-> [k \in Levels |-> IF k = k0 THEN q0
                                             ELSE RemoveFirst(A.queue[k], t)]]
           lev2 == [lev EXCEPT ![t] = k0]
<1>1. /\ A \in ArrayType /\ A.nr_active = Cardinality(D)
      /\ \A k \in Levels :
            /\ k \in A.bitmap <=> A.queue[k] # << >>
            /\ List(A.queue[k])
            /\ \A u \in Tasks : In(A.queue[k], u) <=> u \in D /\ lev[u] = k
  BY DEF Holds
<1>2. \A k \in Levels : B.queue[k] = IF k = k0 THEN q0 ELSE RemoveFirst(A.queue[k], t)
  OBVIOUS
<1>3. B.nr_active = A.nr_active /\ B.bitmap = bits
      /\ B.queue = [k \in Levels |-> B.queue[k]]
      /\ B = [nr_active |-> B.nr_active, bitmap |-> B.bitmap, queue |-> B.queue]
  OBVIOUS
<1>4. lev2[t] = k0 /\ \A u \in Tasks \ {t} : lev2[u] = lev[u]
  OBVIOUS
<1> HIDE DEF B, lev2
<1>5. ASSUME NEW k \in Levels
      PROVE  /\ List(RemoveFirst(A.queue[k], t))
             /\ \A u \in Tasks : In(RemoveFirst(A.queue[k], t), u)
                                    <=> u \in D /\ lev[u] = k /\ u # t
  <2>1. /\ List(A.queue[k])
        /\ \A u \in Tasks : In(A.queue[k], u) <=> u \in D /\ lev[u] = k
    BY <1>1
  <2>2. /\ List(RemoveFirst(A.queue[k], t))
        /\ \A u : In(RemoveFirst(A.queue[k], t), u) <=> In(A.queue[k], u) /\ u # t
        /\ SameFirst(A.queue[k], RemoveFirst(A.queue[k], t), t)
    BY <2>1, RemovedList
  <2> QED  BY <2>1, <2>2
<1>6. ASSUME NEW k \in Levels
      PROVE  /\ k \in bits <=> B.queue[k] # << >>
             /\ List(B.queue[k])
             /\ \A u \in Tasks : In(B.queue[k], u) <=> u \in D /\ lev2[u] = k
  <2>1. CASE k = k0
    <3>1. B.queue[k] = q0 /\ k \in bits
      BY <1>2, <2>1
    <3>2. In(q0, t)
      OBVIOUS
    <3>3. q0 # << >>
      BY <3>2, EmptyHasNone
    <3>4. \A u \in Tasks : In(q0, u) <=> u \in D /\ lev2[u] = k
      BY <1>4, <1>5, <2>1
    <3> QED  BY <3>1, <3>3, <3>4
  <2>2. CASE k # k0
    <3> DEFINE r == RemoveFirst(A.queue[k], t)
    <3>1. B.queue[k] = r /\ List(r) /\ List(A.queue[k])
      BY <1>1, <1>2, <1>5, <2>2
    <3>2. \A u \in Tasks : In(r, u) <=> u \in D /\ lev2[u] = k
      BY <1>4, <1>5, <2>2
    <3>3. k # lev[t] => (r = << >> <=> A.queue[k] = << >>)
      <4>1. k # lev[t] => \A u \in Tasks : In(r, u) <=> In(A.queue[k], u)
        BY <1>1, <1>5
      <4> HIDE DEF r
      <4> QED  BY <3>1, <4>1, EmptyHasNone
    <3>4. k = lev[t] => A.queue[k] # << >>
      <4>1. k = lev[t] => In(A.queue[k], t)
        BY <1>1
      <4> QED  BY <3>1, <4>1, EmptyHasNone
    <3>5. k \in bits <=> k \in A.bitmap /\ (k = lev[t] => r # << >>)
      BY <2>2
    <3>6. k \in A.bitmap <=> A.queue[k] # << >>
      BY <1>1
    <3> HIDE DEF r
    <3>7. k \in bits <=> r # << >>
      BY <3>3, <3>4, <3>5, <3>6
    <3> QED  BY <3>1, <3>2, <3>7
  <2> QED  BY <2>1, <2>2
<1>7. B \in ArrayType
  <2>1. B.queue \in [Levels -> Seq(Tasks)]
    BY <1>3, <1>6 DEF List
  <2>2. A.nr_active \in Nat
    BY <1>1 DEF ArrayType
  <2> QED  BY <1>3, <2>1, <2>2 DEF ArrayType
<1>8. Holds(B, D, lev2)
  BY <1>1, <1>3, <1>6, <1>7 DEF Holds
<1> QED  BY <1>8 DEF B, lev2

(* The current task, as w, moves to another place of its array, and calls *)
(* schedule().                                                             *)
Placing(A, k0, q0, bits) ==
    [rq EXCEPT !.arrays = [rq.arrays EXCEPT ![A] =
        [nr_active |-> rq.arrays[A].nr_active, bitmap |-> bits,
         queue |-> [k \in Levels |-> IF k = k0 THEN q0
                                     ELSE RemoveFirst(rq.arrays[A].queue[k], curr)]]]]

MovesTo(w, q0, bits) ==
    /\ w \in TaskType
    /\ w.state = task[curr].state /\ w.policy = task[curr].policy
    /\ w.array = task[curr].array /\ w.time_left = task[curr].time_left
    /\ rt_task(w) <=> rt_task(task[curr])
    /\ task' = [task EXCEPT ![curr] = w]
    /\ List(q0)
    /\ \A u \in Tasks :
          In(q0, u) <=> In(RemoveFirst(rq.arrays[w.array].queue[Level(w)], curr), u) \/ u = curr
    /\ bits \in SUBSET Levels
    /\ \A k \in Levels : k \in bits <=>
          \/ k = Level(w)
          \/ /\ k \in rq.arrays[w.array].bitmap
             /\ k = Level(task[curr]) => RemoveFirst(rq.arrays[w.array].queue[k], curr) # << >>
    /\ rq' = Placing(w.array, Level(w), q0, bits)
    /\ calling' = TRUE /\ UNCHANGED <<curr, need_resched, excused>>

LEMMA MovesKeep ==
    ASSUME IInv, curr # Idle, NEW w, NEW q0, NEW bits, MovesTo(w, q0, bits)
    PROVE  IInv' /\ \A u \in Tasks : OneWay(task[u], task'[u], u)
<1> USE DEF MovesTo
<1> DEFINE p == task[curr]
           a == w.array
           A == rq.arrays[a]
           k0 == Level(w)
           B == [nr_active |-> A.nr_active, bitmap |-> bits,
                 queue |-> [k \in Levels |-> IF k = k0 THEN q0
                                             ELSE RemoveFirst(A.queue[k], curr)]]
           arrays == [rq.arrays EXCEPT ![a] = B]
           ts == [task EXCEPT ![curr] = w]
           D == On(Here, a, {})
           T == Renewed(Here, ts, arrays)
<1>1. /\ Queues(Here, curr) /\ Sane(Here, {}) /\ Count(Here)
      /\ \A u \in Tasks : TaskOk(Here, u, curr) /\ task[u] \in TaskType
      /\ Here \in Sys /\ Here.task = task /\ Here.rq = rq
      /\ curr \in Tasks /\ need_resched \in BOOLEAN /\ Placed(Here, curr)
      /\ excused \in {"no", "nice", "policy"} /\ p.state # "free"
  BY IInvUse
<1>2. a \in Arrays /\ a # None /\ p.array = a
  BY <1>1 DEF Placed, TaskType, Arrays
<1>3. /\ Holds(A, D, Lev(Here)) /\ Lev(Here) \in [Tasks -> Levels] /\ Lev(Here)[curr] = Level(p)
      /\ curr \in D /\ D \in SUBSET Tasks
  BY <1>1, <1>2, LevType DEF Sane, Lev, On
<1>4. k0 \in Levels
  BY LevelIn
<1>5. Holds(B, D, [Lev(Here) EXCEPT ![curr] = k0])
  <2>1. /\ \A u \in Tasks : In(q0, u) <=> In(RemoveFirst(A.queue[k0], curr), u) \/ u = curr
        /\ \A k \in Levels : k \in bits <=>
              \/ k = k0
              \/ /\ k \in A.bitmap
                 /\ k = Lev(Here)[curr] => RemoveFirst(A.queue[k], curr) # << >>
    BY <1>3
  <2> HIDE DEF A, k0, D
  <2> QED  BY <1>3, <1>4, <2>1, HoldsYield, ZenonT(60)
<1>6. rq' = [rq EXCEPT !.arrays = arrays]
  BY DEF Placing
<1> HIDE DEF B, k0, D
<1>7. /\ task \in [Tasks -> TaskType] /\ rq \in RqType /\ rq.arrays \in [Arrays -> ArrayType]
  BY <1>1 DEF Sys, RqType
<1>8. /\ ts \in [Tasks -> TaskType] /\ ts[curr] = w
      /\ \A u \in Tasks \ {curr} : ts[u] = task[u]
  BY <1>1, <1>7
<1>9. /\ arrays \in [Arrays -> ArrayType] /\ arrays[a] = B
      /\ \A b \in Arrays \ {a} : arrays[b] = rq.arrays[b]
  <2>1. B \in ArrayType
    BY <1>5 DEF Holds
  <2> QED  BY <1>2, <1>7, <2>1
<1> HIDE DEF A, a
<1>10. Becomes(T)
  <2>1. rq' = [active |-> rq.active, expired |-> rq.expired,
               nr_running |-> rq.nr_running, arrays |-> arrays]
    <3> HIDE DEF arrays
    <3> QED  BY <1>6, <1>7 DEF RqType
  <2> HIDE DEF arrays
  <2>2. task' = ts
    OBVIOUS
  <2> HIDE DEF ts
  <2> QED  BY <1>1, <2>1, <2>2 DEF Becomes, Renewed
<1> HIDE DEF ts, arrays
<1>11. T \in Sys /\ T.task = ts /\ T.rq.arrays = arrays /\ SameRq(Here, T)
  <2>1. T \in Sys
    BY <1>1, <1>8, <1>9, RenewedType
  <2> QED  BY <2>1, RenewedFields
<1> HIDE DEF T
<1>12. T.rq.active = rq.active /\ T.rq.nr_running = rq.nr_running /\ T.rq.active # T.rq.expired
  <2>1. rq.active # rq.expired
    BY <1>1 DEF Sane
  <2> QED  BY <1>1, <1>11, <2>1 DEF SameRq
<1>13. Lev(T) = [Lev(Here) EXCEPT ![curr] = k0]
  BY <1>1, <1>8, <1>11 DEF Lev, k0
<1>14. \A b \in Arrays : On(T, b, {}) = On(Here, b, {})
  BY <1>1, <1>2, <1>8, <1>11 DEF On, a
<1>15. Sane(T, {})
  <2> SUFFICES ASSUME NEW b \in Arrays PROVE Holds(T.rq.arrays[b], On(T, b, {}), Lev(T))
    BY <1>11, <1>12 DEF Sane
  <2>1. CASE b = a
    BY <1>5, <1>9, <1>11, <1>13, <1>14, <2>1 DEF D
  <2>2. CASE b # a
    <3>1. Holds(rq.arrays[b], On(Here, b, {}), Lev(Here))
      BY <1>1 DEF Sane
    <3>2. \A u \in On(Here, b, {}) : Lev(T)[u] = Lev(Here)[u]
      <4>1. \A u \in On(Here, b, {}) : u \in Tasks /\ u # curr
        BY <1>1, <1>2, <2>2 DEF On
      <4> QED  BY <1>1, <1>3, <1>13, <4>1
    <3>3. Holds(rq.arrays[b], On(Here, b, {}), Lev(T))
      BY <3>1, <3>2, HoldsIf
    <3> QED  BY <1>9, <1>11, <1>14, <2>2, <3>3
  <2> QED  BY <2>1, <2>2
<1>16. Count(T)
  <2>1. Runnable(T) = Runnable(Here)
    BY <1>1, <1>2, <1>8, <1>11 DEF Runnable, a
  <2> QED  BY <1>1, <1>12, <2>1 DEF Count
<1>17. Queues(T, curr)
  <2>1. \A u \in Tasks \ {curr} : TaskOk(T, u, curr)
    <3>1. \A u \in Tasks \ {curr} : T.task[u] = Here.task[u]
      BY <1>1, <1>8, <1>11
    <3>2. T.rq.active = Here.rq.active
      BY <1>1, <1>12
    <3> QED  BY <1>1, <3>1, <3>2, OthersOk
  <2>2. TaskOk(T, curr, curr)
    <3>1. TaskOk(Here, curr, curr) /\ T.task[curr] = w
      BY <1>1, <1>8, <1>11
    <3> QED  BY <1>1, <1>12, <3>1 DEF TaskOk, Placed
  <2> QED  BY <1>15, <1>16, <2>1, <2>2 DEF Queues
<1>18. CurrentOk(T, curr, need_resched', calling')
  BY <1>2, <1>8, <1>11 DEF CurrentOk, a
<1>19. Inv(T, curr', need_resched', calling', excused')
  BY <1>1, <1>17, <1>18 DEF Inv
<1>20. IInv'
  BY <1>10, <1>19, InvStep
<1>21. ASSUME NEW u \in Tasks PROVE OneWay(task[u], task'[u], u)
  <2>1. task'[u] = ts[u]
    BY DEF ts
  <2>2. ts[u].policy = task[u].policy /\ ts[u].time_left = task[u].time_left
    BY <1>8
  <2> QED  BY <1>1, <2>1, <2>2, OneWaySame
<1> QED  BY <1>20, <1>21

LEMMA YieldKeeps ==
    ASSUME IInv, Yield
    PROVE  IInv' /\ \A u \in Tasks : OneWay(task[u], task'[u], u)
<1> DEFINE p == task[curr]
           a == p.array
           A == rq.arrays[a]
           queue == [k \in Levels |-> RemoveFirst(rq.arrays[a].queue[k], curr)]
           same == queue[Level(p)]
           bits == rq.arrays[a].bitmap \ {p.prio}
           i == Min(bits \cup {MAX_PRIO})
           down == IF i = MAX_PRIO \/ i <= p.prio THEN p.prio ELSE i
           behind(q) == IF q = << >> THEN <<curr>> ELSE InsertAt(q, 2, curr)
           requeued(k, q, bitmap) ==
               [rq EXCEPT !.arrays[a] = [nr_active |-> rq.arrays[a].nr_active,
                                         queue |-> [queue EXCEPT ![k] = q],
                                         bitmap |-> bitmap]]
<1>1. /\ curr # Idle /\ calling' = TRUE /\ UNCHANGED <<curr, need_resched, excused>>
  BY ZenonT(60) DEF Yield, InKernel
<1>2. \/ /\ rt_task(p) \/ p.policy = "SHORT"
         /\ rq' = requeued(Level(p), Append(same, curr), rq.arrays[a].bitmap)
         /\ UNCHANGED task
      \/ /\ p.policy = "OTHER" /\ ~rt_task(p) /\ same # << >>
         /\ rq' = requeued(p.prio, behind(same), rq.arrays[a].bitmap)
         /\ UNCHANGED task
      \/ /\ p.policy = "OTHER" /\ ~rt_task(p) /\ same = << >>
         /\ rq' = requeued(down, behind(queue[down]), bits \cup {down})
         /\ task' = [task EXCEPT ![curr].prio = down]
  BY DEF Yield
<1>3. /\ Sane(Here, {}) /\ task[curr] \in TaskType /\ p \in TaskType
      /\ Here \in Sys /\ Here.task = task /\ Here.rq = rq
      /\ curr \in Tasks /\ Placed(Here, curr)
  BY <1>1, IInvUse
<1>4. a \in Arrays /\ Level(p) \in Levels
  BY <1>3, LevelIn DEF Placed, TaskType, Arrays
<1> HIDE DEF p
<1>5. /\ task \in [Tasks -> TaskType] /\ rq \in RqType /\ rq.arrays \in [Arrays -> ArrayType]
      /\ A \in ArrayType
  BY <1>3, <1>4 DEF Sys, RqType
<1>6. Holds(A, On(Here, a, {}), Lev(Here))
  BY <1>3, <1>4 DEF Sane
<1>7. Level(p) \in A.bitmap
  <2>1. Here.task[curr].array = a /\ Here.task[curr] = p
    BY <1>3 DEF p
  <2>2. Level(Here.task[curr]) \in Here.rq.arrays[a].bitmap
    <3> HIDE DEF a
    <3> QED  BY <1>3, <1>4, <2>1, Listed
  <2> QED  BY <1>3, <2>1, <2>2
<1>8. ASSUME NEW k \in Levels
      PROVE  /\ List(RemoveFirst(A.queue[k], curr))
             /\ ~In(RemoveFirst(A.queue[k], curr), curr)
             /\ k \in A.bitmap => A.queue[k] # << >>
  <2>1. List(A.queue[k]) /\ (k \in A.bitmap => A.queue[k] # << >>)
    BY <1>6 DEF Holds
  <2>2. /\ List(RemoveFirst(A.queue[k], curr))
        /\ \A u : In(RemoveFirst(A.queue[k], curr), u) <=> In(A.queue[k], u) /\ u # curr
        /\ SameFirst(A.queue[k], RemoveFirst(A.queue[k], curr), curr)
    BY <1>3, <2>1, RemovedList
  <2> QED  BY <2>1, <2>2
<1>9. ASSUME NEW k \in Levels, NEW q, NEW bitmap
      PROVE  requeued(k, q, bitmap) = Placing(a, k, q, bitmap)
  <2>1. [queue EXCEPT ![k] = q]
           = [n \in Levels |-> IF n = k THEN q ELSE RemoveFirst(A.queue[n], curr)]
    OBVIOUS
  <2> QED  BY <2>1 DEF Placing
<1>10. \A k \in Levels : queue[k] = RemoveFirst(A.queue[k], curr)
  OBVIOUS
<1>11. \A q : behind(q) = Behind(q, curr)
  BY DEF Behind
<1>12. p.policy # "SHORT" => Level(p) = p.prio
  BY DEF Level
<1> HIDE DEF requeued, behind, queue, same
<1>13. same = RemoveFirst(A.queue[Level(p)], curr) /\ List(same) /\ ~In(same, curr)
  BY <1>4, <1>8, <1>10 DEF same
<1>14. A.bitmap \in SUBSET Levels
  BY <1>5 DEF ArrayType
<1> DEFINE Goal == IInv' /\ \A u \in Tasks : OneWay(task[u], task'[u], u)
<1> SUFFICES Goal
  OBVIOUS
<1> HIDE DEF Goal
<1>15. ASSUME NEW q0, List(q0), \A u : In(q0, u) <=> In(same, u) \/ u = curr,
              rq' = requeued(Level(p), q0, A.bitmap), UNCHANGED task
       PROVE  Goal
  <2>1. rq' = Placing(a, Level(p), q0, A.bitmap)
    BY <1>4, <1>9, <1>15
  <2>2. \A u \in Tasks : In(q0, u) <=> In(RemoveFirst(A.queue[Level(p)], curr), u) \/ u = curr
    BY <1>13, <1>15
  <2>3. \A k \in Levels : k \in A.bitmap <=>
           \/ k = Level(p)
           \/ /\ k \in A.bitmap
              /\ k = Level(task[curr]) => RemoveFirst(A.queue[k], curr) # << >>
    BY <1>7 DEF p
  <2>4. task' = [task EXCEPT ![curr] = p]
    BY <1>5, <1>15 DEF p
  <2>5. /\ p.state = task[curr].state /\ p.policy = task[curr].policy
        /\ p.array = task[curr].array /\ p.time_left = task[curr].time_left
        /\ rt_task(p) <=> rt_task(task[curr])
    BY SMTT(60) DEF p
  <2>6. MovesTo(p, q0, A.bitmap)
    BY <1>1, <1>3, <1>14, <1>15, <2>1, <2>2, <2>3, <2>4, <2>5 DEF MovesTo
  <2> QED  BY <1>1, <2>6, MovesKeep DEF Goal
<1>16. CASE /\ rt_task(p) \/ p.policy = "SHORT"
            /\ rq' = requeued(Level(p), Append(same, curr), rq.arrays[a].bitmap)
            /\ UNCHANGED task
  <2>1. /\ List(Append(same, curr))
        /\ \A u : In(Append(same, curr), u) <=> In(same, u) \/ u = curr
        /\ SameFirst(same, Append(same, curr), curr)
    BY <1>3, <1>13, AppendedList
  <2> QED  BY <1>15, <1>16, <2>1
<1>17. CASE /\ p.policy = "OTHER" /\ ~rt_task(p) /\ same # << >>
            /\ rq' = requeued(p.prio, behind(same), rq.arrays[a].bitmap)
            /\ UNCHANGED task
  <2>1. /\ List(Behind(same, curr))
        /\ \A u : In(Behind(same, curr), u) <=> In(same, u) \/ u = curr
    BY <1>3, <1>13, BehindList
  <2>2. rq' = requeued(Level(p), Behind(same, curr), A.bitmap)
    BY <1>11, <1>12, <1>17
  <2> QED  BY <1>15, <1>17, <2>1, <2>2
<1>18. CASE /\ p.policy = "OTHER" /\ ~rt_task(p) /\ same = << >>
            /\ rq' = requeued(down, behind(queue[down]), bits \cup {down})
            /\ task' = [task EXCEPT ![curr].prio = down]
  <2>1. p.prio \in NormalPrios /\ down \in NormalPrios
    <3>1. p.prio \in Levels /\ ~(p.prio < MAX_RT_PRIO)
      BY <1>3, <1>18 DEF rt_task, TaskType
    <3>2. bits \cup {MAX_PRIO} \in SUBSET Nat /\ bits \cup {MAX_PRIO} # {}
      BY <1>14, Numbers
    <3>3. i \in bits \cup {MAX_PRIO}
      BY <3>2, MinIsLeast
    <3>4. p.prio \in NormalPrios
      BY <3>1, Numbers DEF NormalPrios, Levels
    <3> HIDE DEF i
    <3>5. i # MAX_PRIO => i \in Levels
      BY <1>14, <3>3
    <3> QED  BY <3>4, <3>5, Numbers DEF NormalPrios, Levels
  <2> HIDE DEF down, bits
  <2> DEFINE w == [p EXCEPT !.prio = down]
             q0 == Behind(queue[down], curr)
  <2>2. /\ w \in TaskType /\ w.state = p.state /\ w.policy = p.policy /\ w.array = p.array
        /\ w.time_left = p.time_left /\ w.prio = down
    BY <1>3, <2>1, Numbers DEF TaskType
  <2>3. Level(w) = down /\ ~rt_task(w)
    BY <1>18, <2>1, <2>2, Numbers DEF Level, rt_task
  <2>4. down \in Levels
    BY <2>1, Numbers
  <2>5. /\ List(q0)
        /\ \A u : In(q0, u) <=> In(RemoveFirst(A.queue[down], curr), u) \/ u = curr
    <3>1. queue[down] = RemoveFirst(A.queue[down], curr)
      BY <1>10, <2>4
    <3>2. List(queue[down]) /\ ~In(queue[down], curr)
      BY <1>8, <2>4, <3>1
    <3>3. /\ List(Behind(queue[down], curr))
          /\ \A u : In(Behind(queue[down], curr), u) <=> In(queue[down], u) \/ u = curr
      BY <1>3, <3>2, BehindList
    <3> QED  BY <3>1, <3>3
  <2>6. rq' = Placing(a, down, q0, bits \cup {down})
    <3>1. rq' = requeued(down, q0, bits \cup {down})
      BY <1>11, <1>18
    <3> HIDE DEF q0
    <3> QED  BY <1>9, <2>4, <3>1
  <2>7. \A k \in Levels : k \in bits \cup {down} <=>
           \/ k = down
           \/ /\ k \in A.bitmap
              /\ k = Level(task[curr]) => RemoveFirst(A.queue[k], curr) # << >>
    BY <1>12, <1>13, <1>18 DEF bits, p
  <2>8. bits \cup {down} \in SUBSET Levels
    BY <1>14, <2>4 DEF bits
  <2>9. task' = [task EXCEPT ![curr] = w]
    BY <1>18 DEF p
  <2>10. /\ w.state = task[curr].state /\ w.policy = task[curr].policy
         /\ w.array = task[curr].array /\ w.time_left = task[curr].time_left
         /\ rt_task(w) <=> rt_task(task[curr])
    BY <1>18, <2>2, <2>3 DEF p
  <2> HIDE DEF w, q0
  <2>11. w.array = a
    BY <2>2
  <2> HIDE DEF a, down, bits
  <2>12. MovesTo(w, q0, bits \cup {down})
    BY <1>1, <2>2, <2>3, <2>5, <2>6, <2>7, <2>8, <2>9, <2>10, <2>11 DEF MovesTo
  <2> QED  BY <1>1, <2>12, MovesKeep DEF Goal
<1> QED  BY <1>2, <1>16, <1>17, <1>18, SMTT(60)

------------------------------------------------------------------------------
(* setscheduler() and set_user_nice() *)
Reniced(p, static, prio) == [[p EXCEPT !.static_prio = static] EXCEPT !.prio = prio]
Renices(S, t, static, prio) ==
    [S EXCEPT !.task[t].static_prio = static, !.task[t].prio = prio]

LEMMA Put2 ==
    ASSUME NEW S \in Sys, NEW t \in Tasks, NEW static \in NormalPrios, NEW prio \in Levels
    PROVE  /\ Reniced(S.task[t], static, prio) \in TaskType
           /\ Renices(S, t, static, prio) = Put(S, t, Reniced(S.task[t], static, prio))
<1> DEFINE p == [S.task[t] EXCEPT !.static_prio = static]
           q == [p EXCEPT !.prio = prio]
           T == Put(S, t, p)
<1>1. S.task[t] \in TaskType
  BY TaskOf
<1>2. p \in TaskType
  BY <1>1 DEF TaskType
<1> HIDE DEF p
<1>3. q \in TaskType
  BY <1>2 DEF TaskType
<1> HIDE DEF q
<1>4. T.task[t] = p
  BY <1>2, PutGives
<1>5. [S EXCEPT !.task[t].static_prio = static, !.task[t].prio = prio]
         = [T EXCEPT !.task[t].prio = prio]
  BY DEF Put, p
<1>6. [T EXCEPT !.task[t].prio = prio] = Put(T, t, [T.task[t] EXCEPT !.prio = prio])
  BY DEF Put
<1>7. [T.task[t] EXCEPT !.prio = prio] = q
  BY <1>4 DEF q
<1>8. Put(T, t, q) = Put(S, t, q)
  BY <1>2, <1>3, PutPut
<1>9. q = Reniced(S.task[t], static, prio)
  BY DEF q, p, Reniced
<1>10. [S EXCEPT !.task[t].static_prio = static, !.task[t].prio = prio]
          = Renices(S, t, static, prio)
  BY DEF Renices
<1> HIDE DEF T, q
<1> QED  BY <1>3, <1>5, <1>6, <1>7, <1>8, <1>9, <1>10

Changed(p, policy, prio, short, left) ==
    [[[[p EXCEPT !.policy = policy] EXCEPT !.prio = prio]
          EXCEPT !.short_prio = short] EXCEPT !.time_left = left]
Changes(S, t, policy, prio, short, left) ==
    [S EXCEPT !.task[t].policy = policy, !.task[t].prio = prio,
              !.task[t].short_prio = short, !.task[t].time_left = left]

LEMMA Put4 ==
    ASSUME NEW S \in Sys, NEW t \in Tasks, NEW policy \in Policies, NEW prio \in Levels,
           NEW short \in Levels, NEW left \in Nat
    PROVE  /\ Changed(S.task[t], policy, prio, short, left) \in TaskType
           /\ Changes(S, t, policy, prio, short, left)
                 = Put(S, t, Changed(S.task[t], policy, prio, short, left))
<1> DEFINE a == [S.task[t] EXCEPT !.policy = policy]
           b == [a EXCEPT !.prio = prio]
           c == [b EXCEPT !.short_prio = short]
           d == [c EXCEPT !.time_left = left]
           A == Put(S, t, a)
           B == Put(S, t, b)
           C == Put(S, t, c)
<1>0. S.task[t] \in TaskType
  BY TaskOf
<1>1. a \in TaskType
  BY <1>0 DEF TaskType
<1>10. d = Changed(S.task[t], policy, prio, short, left)
  BY DEF Changed
<1>11. [S EXCEPT !.task[t].policy = policy] = A
  BY DEF Put
<1> HIDE DEF a
<1>2. b \in TaskType
  BY <1>1 DEF TaskType
<1>3. A \in Sys /\ A.task[t] = a
  BY <1>1, PutGives
<1>4. [A EXCEPT !.task[t].prio = prio] = B
  <2>1. [A EXCEPT !.task[t].prio = prio] = Put(A, t, [A.task[t] EXCEPT !.prio = prio])
    BY DEF Put
  <2>2. [A.task[t] EXCEPT !.prio = prio] = b
    BY <1>3
  <2> HIDE DEF b
  <2>3. Put(A, t, b) = B
    BY <1>1, <1>2, PutPut
  <2> HIDE DEF A, B
  <2> QED  BY <2>1, <2>2, <2>3
<1> HIDE DEF b
<1>5. c \in TaskType
  BY <1>2 DEF TaskType
<1>6. B \in Sys /\ B.task[t] = b
  BY <1>2, PutGives
<1>7. [B EXCEPT !.task[t].short_prio = short] = C
  <2>1. [B EXCEPT !.task[t].short_prio = short]
           = Put(B, t, [B.task[t] EXCEPT !.short_prio = short])
    BY DEF Put
  <2>2. [B.task[t] EXCEPT !.short_prio = short] = c
    BY <1>6
  <2> HIDE DEF c
  <2>3. Put(B, t, c) = C
    BY <1>2, <1>5, PutPut
  <2> HIDE DEF B, C
  <2> QED  BY <2>1, <2>2, <2>3
<1> HIDE DEF c
<1>8. d \in TaskType
  BY <1>5 DEF TaskType
<1>9. C \in Sys /\ C.task[t] = c
  BY <1>5, PutGives
<1>12. [C EXCEPT !.task[t].time_left = left] = Put(S, t, d)
  <2>1. [C EXCEPT !.task[t].time_left = left]
           = Put(C, t, [C.task[t] EXCEPT !.time_left = left])
    BY DEF Put
  <2>2. [C.task[t] EXCEPT !.time_left = left] = d
    BY <1>9
  <2> HIDE DEF d
  <2>3. Put(C, t, d) = Put(S, t, d)
    BY <1>5, <1>8, PutPut
  <2> HIDE DEF C
  <2> QED  BY <2>1, <2>2, <2>3
<1> HIDE DEF A, B, C, d
<1>13. Changes(S, t, policy, prio, short, left) = Put(S, t, d)
  BY <1>4, <1>7, <1>11, <1>12 DEF Changes
<1> QED  BY <1>8, <1>10, <1>13

LEMMA SetSchedulerKeeps ==
    ASSUME IInv, NEW t \in Tasks, task[t].state # "free", NEW policy \in Policies,
           NEW level \in Levels, NEW ticks \in Nat, NEW e \in Levels,
           policy \in {"FIFO", "RR"} => level \in RtPrios,
           policy = "OTHER" => e \in NormalPrios,
           SetScheduler(t, policy, level, ticks, e)
    PROVE  IInv' /\ \A u \in Tasks : OneWay(task[u], task'[u], u)
<1> DEFINE p == task[t]
           S == IF p.array # None THEN deactivate_task(Here, t) ELSE Here
           prio == CASE policy \in {"FIFO", "RR"} -> level
                     [] policy = "OTHER" -> p.static_prio
                     [] policy = "SHORT" -> p.prio
           short == IF policy = "SHORT" THEN level ELSE S.task[t].short_prio
           left == IF policy = "SHORT" THEN ticks ELSE S.task[t].time_left
           w == Changed(S.task[t], policy, prio, short, left)
           T == Changes(S, t, policy, prio, short, left)
           V == IF p.array # None THEN activate_task(T, t, e) ELSE T
<1>1. /\ curr # Idle /\ ~calling /\ p.policy # "SHORT"
      /\ policy = "SHORT" => p.policy = "OTHER"
      /\ Becomes(V)
      /\ need_resched' = (need_resched \/ policy = "SHORT")
      /\ excused' = IF policy # "SHORT" /\ p.array # None THEN "policy" ELSE excused
      /\ UNCHANGED <<curr, calling>>
  BY DEF SetScheduler, InKernel, MaySetPolicy, Changes
<1>2. /\ Queues(Here, curr) /\ Sane(Here, {}) /\ Count(Here)
      /\ \A u \in Tasks : TaskOk(Here, u, curr) /\ task[u] \in TaskType
      /\ Here \in Sys /\ Here.task = task /\ Here.rq = rq
      /\ curr \in Tasks /\ need_resched \in BOOLEAN /\ calling \in BOOLEAN
      /\ CurrentOk(Here, curr, need_resched, calling)
      /\ excused \in {"no", "nice", "policy"}
  BY <1>1, IInvUse
<1>3. p \in TaskType /\ TaskOk(Here, t, curr)
  BY <1>2
<1> HIDE DEF p
<1>4. /\ p.prio \in Levels /\ p.static_prio \in NormalPrios /\ p.short_prio \in Levels
      /\ p.time_left \in Nat
  BY <1>3 DEF TaskType
<1>5. /\ Sane(S, {t}) /\ Count(S) /\ S.rq.active = rq.active
      /\ S.task[t].array = None /\ S.task[t].state = p.state
      /\ S.task[t].short_prio = p.short_prio /\ S.task[t].time_left = p.time_left
      /\ \A u \in Tasks \ {t} : S.task[u] = task[u]
      /\ \A b \in Arrays : FirstsKept(rq.arrays[b], S.rq.arrays[b], t)
  <2>1. CASE p.array # None
    <3>1. S = deactivate_task(Here, t)
      BY <2>1
    <3> DEFINE q == [p EXCEPT !.array = None]
    <3>2. /\ Sane(S, {t}) /\ Count(S)
          /\ S.task = [Here.task EXCEPT ![t].array = None]
          /\ S.rq.active = Here.rq.active /\ S.rq.expired = Here.rq.expired
          /\ \A b \in Arrays : FirstsKept(Here.rq.arrays[b], S.rq.arrays[b], t)
      <4>1. Here.task[t].array # None
        BY <1>2, <2>1 DEF p
      <4> HIDE DEF S
      <4> QED  BY <1>2, <3>1, <4>1, SaneDeactivate
    <3> HIDE DEF S
    <3>3. S.task[t] = q /\ \A u \in Tasks \ {t} : S.task[u] = task[u]
      BY <1>2, <3>2 DEF Sys, p
    <3>4. /\ q.array = None /\ q.state = p.state
          /\ q.short_prio = p.short_prio /\ q.time_left = p.time_left
      BY <1>3 DEF TaskType
    <3> HIDE DEF q
    <3> QED  BY <1>2, <3>2, <3>3, <3>4
  <2>2. CASE p.array = None
    <3>1. S = Here
      BY <2>2
    <3> HIDE DEF S
    <3>2. Sane(Here, {t})
      BY <1>2, <2>2, SaneOut DEF p
    <3>3. \A b \in Arrays : FirstsKept(rq.arrays[b], rq.arrays[b], t)
      BY DEF FirstsKept, SameFirst
    <3> QED  BY <1>2, <2>2, <3>1, <3>2, <3>3 DEF p
  <2> HIDE DEF S
  <2> QED  BY <2>1, <2>2
<1> HIDE DEF S
<1>6. /\ prio \in Levels
      /\ policy \in {"FIFO", "RR"} => prio < MAX_RT_PRIO
      /\ policy = "OTHER" => prio \in NormalPrios
  <2>1. policy \in {"FIFO", "RR"} \/ policy = "OTHER" \/ policy = "SHORT"
    BY DEF Policies
  <2>2. CASE policy \in {"FIFO", "RR"}
    <3>1. prio = level
      BY <2>2
    <3>2. level < MAX_RT_PRIO
      BY <2>2, Numbers DEF RtPrios
    <3> HIDE DEF prio
    <3> QED  BY <2>2, <3>1, <3>2
  <2>3. CASE policy = "OTHER"
    <3>1. prio = p.static_prio
      BY <2>3
    <3> HIDE DEF prio
    <3> QED  BY <1>4, <2>3, <3>1, Numbers
  <2>4. CASE policy = "SHORT"
    <3>1. prio = p.prio
      BY <2>4
    <3> HIDE DEF prio
    <3> QED  BY <1>4, <2>4, <3>1
  <2> QED  BY <2>1, <2>2, <2>3, <2>4
<1> HIDE DEF prio
<1>7. short \in Levels /\ left \in Nat
  BY <1>4, <1>5
<1>8. S \in Sys /\ S.task[t] \in TaskType
  BY <1>5, SaneType, TaskOf
<1> HIDE DEF short, left
<1>9. w \in TaskType /\ T = Put(S, t, w)
  <2>1. prio \in Levels /\ short \in Levels /\ left \in Nat /\ S \in Sys
    BY <1>6, <1>7, <1>8
  <2> QED  BY <2>1, Put4
<1>10. /\ w.policy = policy /\ w.prio = prio /\ w.array = None /\ w.state = p.state
  BY <1>5, <1>8 DEF TaskType, Changed
<1> HIDE DEF T, w
<1>11. /\ Sane(T, {t}) /\ Count(T)
       /\ T.rq = S.rq /\ T.task[t] = w /\ \A u \in Tasks \ {t} : T.task[u] = task[u]
  <2>1. Sane(T, {t}) /\ Count(T)
    BY <1>5, <1>8, <1>9, <1>10, SanePut
  <2>2. T.rq = S.rq /\ T.task[t] = w /\ \A u \in Tasks \ {t} : T.task[u] = S.task[u]
    BY <1>8, <1>9, PutGives
  <2> QED  BY <1>5, <2>1, <2>2
<1>12. /\ policy \in {"FIFO", "RR"} => rt_task(w)
       /\ policy = "OTHER" => ~rt_task(w)
       /\ policy = "SHORT" => ~rt_task(w)
  BY <1>6, <1>10, Numbers DEF rt_task, NormalPrios
<1>13. T.rq.active = rq.active /\ \A b \in Arrays : FirstsKept(rq.arrays[b], T.rq.arrays[b], t)
  BY <1>5, <1>11
<1>14. CASE p.array # None
  <2>1. V = activate_task(T, t, e)
    BY <1>14
  <2>2. Enters(T, V, t)
    <3> HIDE DEF V
    <3>1. T.task[t].array = None
      BY <1>10, <1>11
    <3>2. ~rt_task(T.task[t]) /\ T.task[t].policy # "SHORT" => e \in NormalPrios
      BY <1>10, <1>11, <1>12 DEF Policies
    <3>3. Enters(T, activate_task(T, t, e), t)
      BY <1>11, <3>1, <3>2, EntersOk
    <3> QED  BY <2>1, <3>3
  <2> HIDE DEF V
  <2>3. Queues(V, curr)
    <3>1. \A u \in Tasks \ {t} : TaskOk(T, u, curr)
      <4>1. \A u \in Tasks \ {t} : T.task[u] = Here.task[u]
        BY <1>2, <1>11
      <4>2. T.rq.active = Here.rq.active
        BY <1>2, <1>13
      <4> QED  BY <1>2, <4>1, <4>2, OthersOk
    <3>2. T.task[t].state = "running" \/ (t = curr /\ T.task[t].state # "free")
      <4>1. Here.task[t] = p
        BY <1>2 DEF p
      <4>2. p.state = "running" \/ t = curr
        BY <1>3, <1>14, <4>1 DEF TaskOk
      <4> QED  BY <1>10, <1>11, <4>2 DEF p
    <3>3. /\ T.task[t].policy \in {"FIFO", "RR"} => rt_task(T.task[t])
          /\ T.task[t].policy = "OTHER" => ~rt_task(T.task[t])
      BY <1>10, <1>11, <1>12
    <3> QED  BY <2>2, <3>1, <3>2, <3>3, EntersQueues
  <2>4. /\ V.rq.active = rq.active /\ \A u \in Tasks \ {t} : V.task[u] = task[u]
        /\ V.task[t].policy = policy /\ V.task[t].state = p.state
        /\ V.task[t].array # None /\ V.task[t].array \in {rq.active, Short}
        /\ V.task[t].policy = "SHORT" <=> V.task[t].array = Short
        /\ \A b \in Arrays : FirstsKept(T.rq.arrays[b], V.rq.arrays[b], t)
    BY <1>10, <1>11, <1>13, <2>2 DEF Enters, Placed
  <2>5. CurrentOk(V, curr, need_resched', calling')
    <3>1. CASE t = curr
      <4>1. p.state # "running" => calling
        BY <1>1, <1>2, <3>1 DEF CurrentOk, p
      <4> QED  BY <1>1, <2>4, <3>1, <4>1 DEF CurrentOk
    <3>2. CASE t # curr
      BY <1>1, <1>2, <2>4, <3>2 DEF CurrentOk
    <3> QED  BY <3>1, <3>2
  <2>6. ASSUME ~need_resched' PROVE FirstIn(V, curr) /\ excused' # "no"
    <3>1. policy # "SHORT" /\ ~need_resched /\ excused' = "policy"
      BY <1>1, <1>14, <2>6
    <3>2. CASE t = curr
      BY <2>4, <3>1, <3>2 DEF FirstIn
    <3>3. CASE t # curr
      <4>1. FirstIn(Here, curr)
        BY <1>1, <3>1, IInvUse
      <4>2. \A u \in Tasks \ {t} : V.task[u] = Here.task[u]
        BY <1>2, <2>4
      <4>3. FirstsKept(Here.rq.arrays[Short], V.rq.arrays[Short], t)
        <5>1. /\ FirstsKept(rq.arrays[Short], T.rq.arrays[Short], t)
              /\ FirstsKept(T.rq.arrays[Short], V.rq.arrays[Short], t)
          BY <1>13, <2>4 DEF Arrays
        <5> QED  BY <1>2, <5>1 DEF FirstsKept, SameFirst
      <4>4. V.task[t].array # Short
        BY <2>4, <3>1
      <4>5. FirstIn(V, curr)
        BY <1>2, <3>3, <4>1, <4>2, <4>3, <4>4, FirstFrom
      <4> QED  BY <3>1, <4>5
    <3> QED  BY <3>1, <3>2, <3>3
  <2>7. Inv(V, curr', need_resched', calling', excused')
    <3>1. need_resched' \in BOOLEAN /\ excused' \in {"no", "nice", "policy"}
      BY <1>1, <1>2
    <3> QED  BY <1>1, <1>2, <2>3, <2>5, <2>6, <3>1 DEF Inv
  <2>8. IInv'
    BY <1>1, <2>7, InvStep
  <2>9. ASSUME NEW u \in Tasks PROVE OneWay(task[u], task'[u], u)
    <3>1. task'[u] = V.task[u]
      BY <1>1 DEF Becomes
    <3>2. CASE u = t
      BY <1>1, <1>3, <2>4, <3>1, <3>2 DEF OneWay, p
    <3>3. CASE u # t
      <4>1. task'[u] = task[u] /\ task[u] \in TaskType
        BY <1>2, <2>4, <3>1, <3>3
      <4> QED  BY <4>1, OneWaySame
    <3> QED  BY <3>2, <3>3
  <2> QED  BY <2>8, <2>9
<1>15. CASE p.array = None
  <2>1. V = T
    BY <1>15
  <2> HIDE DEF V
  <2>2. Becomes(T)
    BY <1>1, <2>1
  <2>3. t # curr
    BY <1>1, <1>2, <1>15 DEF CurrentOk, p
  <2>4. \A u \in Tasks \ {t} : T.task[u] = Here.task[u]
    BY <1>2, <1>11
  <2>5. T.rq.active = Here.rq.active
    BY <1>2, <1>13
  <2>6. Queues(T, curr)
    <3>1. \A u \in Tasks \ {t} : TaskOk(T, u, curr)
      BY <1>2, <2>4, <2>5, OthersOk
    <3>2. TaskOk(T, t, curr)
      <4>1. p.state # "running" /\ p.state # "free"
        <5>1. Here.task[t] = p
          BY <1>2 DEF p
        <5> QED  BY <1>3, <1>15, <5>1 DEF TaskOk, p
      <4> QED  BY <1>10, <1>11, <1>12, <4>1 DEF TaskOk
    <3>3. Sane(T, {})
      BY <1>10, <1>11, SaneOut
    <3> QED  BY <1>11, <3>1, <3>2, <3>3 DEF Queues
  <2>7. CurrentOk(T, curr, need_resched', calling')
    BY <1>1, <1>2, <2>3, <2>4, <2>5 DEF CurrentOk
  <2>8. ASSUME ~need_resched'
        PROVE  FirstIn(T, curr) /\ (excused' = "no" => BestIn(T, curr))
    <3>1. ~need_resched /\ excused' = excused
      BY <1>1, <1>15, <2>8
    <3>2. FirstIn(Here, curr) /\ (excused = "no" => BestIn(Here, curr))
      BY <1>1, <3>1, IInvUse
    <3>3. T.task[t].array = None /\ T.task[t].array # Short
      BY <1>10, <1>11 DEF None, Short
    <3>4. FirstsKept(Here.rq.arrays[Short], T.rq.arrays[Short], t)
      BY <1>2, <1>13 DEF Arrays
    <3>5. FirstIn(T, curr)
      BY <1>2, <2>3, <2>4, <3>2, <3>3, <3>4, FirstFrom
    <3>6. BestIn(Here, curr) => BestIn(T, curr)
      BY <1>2, <2>3, <2>4, <2>5, <3>3, BestFrom
    <3> QED  BY <3>1, <3>2, <3>5, <3>6
  <2>9. Inv(T, curr', need_resched', calling', excused')
    <3>1. need_resched' \in BOOLEAN /\ excused' \in {"no", "nice", "policy"}
      BY <1>1, <1>2
    <3> QED  BY <1>1, <1>2, <2>6, <2>7, <2>8, <3>1 DEF Inv
  <2>10. IInv'
    BY <2>2, <2>9, InvStep
  <2>11. ASSUME NEW u \in Tasks PROVE OneWay(task[u], task'[u], u)
    <3>1. task'[u] = T.task[u]
      BY <2>2 DEF Becomes
    <3>2. CASE u = t
      BY <1>1, <1>3, <1>10, <1>11, <3>1, <3>2 DEF OneWay, p
    <3>3. CASE u # t
      <4>1. task'[u] = task[u] /\ task[u] \in TaskType
        BY <1>2, <1>11, <3>1, <3>3
      <4> QED  BY <4>1, OneWaySame
    <3> QED  BY <3>2, <3>3
  <2> QED  BY <2>10, <2>11
<1> QED  BY <1>14, <1>15

LEMMA SetPolicyKeeps ==
    ASSUME IInv, NEW t \in Tasks, task[t].state # "free", SetPolicy(t)
    PROVE  IInv' /\ \A u \in Tasks : OneWay(task[u], task'[u], u)
<1> DEFINE Goal == IInv' /\ \A u \in Tasks : OneWay(task[u], task'[u], u)
<1> SUFFICES Goal
  OBVIOUS
<1>1. ASSUME NEW policy \in Policies, NEW level \in Levels, NEW ticks \in Nat, NEW e \in Levels,
             policy \in {"FIFO", "RR"} => level \in RtPrios,
             policy = "OTHER" => e \in NormalPrios,
             SetScheduler(t, policy, level, ticks, e)
      PROVE  Goal
  BY <1>1, SetSchedulerKeeps
<1> HIDE DEF Goal
<1>2. /\ RtPrios \subseteq Levels /\ 0 \in Levels /\ NormalPrios \subseteq Levels
      /\ ShortPrios \subseteq Levels /\ RequestedTicks \subseteq Nat
  BY Numbers, ShortAssumption DEF RtPrios, Levels
<1>3. {"FIFO", "RR", "OTHER", "SHORT"} = Policies
  BY DEF Policies
<1>4. {task[t].static_prio} \cup EffectivePrios(task[t].static_prio) \subseteq NormalPrios
  <2> DEFINE x == task[t].static_prio
  <2>1. x \in NormalPrios
    BY IInvUse DEF TaskType
  <2> HIDE DEF x
  <2>2. x \in Nat
    BY <2>1, Numbers
  <2>3. EffectivePrios(x) \subseteq NormalPrios
    BY <2>2, EffectiveNormal
  <2> QED  BY <2>1, <2>3 DEF x
<1>5. CASE \E policy \in Asked \cap {"FIFO", "RR"}, level \in RtPrios :
              SetScheduler(t, policy, level, 0, 0)
  BY <1>1, <1>2, <1>3, <1>5
<1>6. CASE \E e \in {task[t].static_prio} \cup EffectivePrios(task[t].static_prio) :
              SetScheduler(t, "OTHER", 0, 0, e)
  <2>1. PICK e \in NormalPrios : SetScheduler(t, "OTHER", 0, 0, e)
    BY <1>4, <1>6
  <2> QED  BY <1>1, <1>2, <1>3, <2>1
<1>7. CASE \E level \in ShortPrios, ticks \in RequestedTicks :
              SetScheduler(t, "SHORT", level, ticks, 0)
  BY <1>1, <1>2, <1>3, <1>7
<1> QED  BY <1>5, <1>6, <1>7 DEF SetPolicy

LEMMA SetUserNiceKeeps ==
    ASSUME IInv, NEW t \in Tasks, task[t].state # "free", NEW new \in NormalPrios,
           SetUserNice(t, new)
    PROVE  IInv' /\ \A u \in Tasks : OneWay(task[u], task'[u], u)
<1> DEFINE p == task[t]
           a == p.array
           S == IF a # None THEN dequeue_task(Here, t, a) ELSE Here
           T == Renices(S, t, new, new)
           V == IF a # None THEN enqueue_task(T, t, a) ELSE T
           Goal == IInv' /\ \A u \in Tasks : OneWay(task[u], task'[u], u)
<1> SUFFICES Goal
  OBVIOUS
<1> HIDE DEF Goal
<1>1. /\ curr # Idle /\ ~calling /\ p.policy # "SHORT"
      /\ UNCHANGED <<curr, calling>>
      /\ IF rt_task(p)
         THEN /\ task' = [task EXCEPT ![t].static_prio = new]
              /\ UNCHANGED <<rq, need_resched, excused>>
         ELSE /\ Becomes(V)
              /\ need_resched' = (need_resched \/ t = curr)
              /\ excused' = IF a # None /\ new < p.prio /\ t # curr
                            THEN "nice" ELSE excused
  BY DEF SetUserNice, InKernel, Renices
<1>2. /\ Queues(Here, curr) /\ Sane(Here, {}) /\ Count(Here)
      /\ \A u \in Tasks : TaskOk(Here, u, curr) /\ task[u] \in TaskType
      /\ Here \in Sys /\ Here.task = task /\ Here.rq = rq
      /\ curr \in Tasks /\ need_resched \in BOOLEAN /\ calling \in BOOLEAN
      /\ CurrentOk(Here, curr, need_resched, calling)
      /\ excused \in {"no", "nice", "policy"}
  BY <1>1, IInvUse
<1>3. p \in TaskType /\ TaskOk(Here, t, curr) /\ Here.task[t] = p
  BY <1>2
<1> HIDE DEF p
<1>4. new \in Levels
  BY Numbers
<1>5. CASE rt_task(p)
  <2> DEFINE w == [p EXCEPT !.static_prio = new]
             U == Put(Here, t, w)
  <2>1. /\ w \in TaskType /\ w.policy = p.policy /\ w.prio = p.prio
        /\ w.short_prio = p.short_prio /\ w.array = p.array
        /\ w.state = p.state /\ w.time_left = p.time_left
    BY <1>3 DEF TaskType
  <2>2. task' = [task EXCEPT ![t] = w] /\ rq' = rq /\ need_resched' = need_resched
        /\ excused' = excused
    BY <1>1, <1>5 DEF p
  <2> HIDE DEF w
  <2>3. /\ Sane(U, {}) /\ Count(U) /\ SameClaims(Here, U) /\ U.rq = Here.rq
        /\ U.task[t] = w /\ \A u \in Tasks \ {t} : U.task[u] = Here.task[u]
    <3>1. /\ w.policy = Here.task[t].policy /\ w.prio = Here.task[t].prio
          /\ w.short_prio = Here.task[t].short_prio /\ w.array = Here.task[t].array
      BY <1>3, <2>1
    <3> QED  BY <1>2, <2>1, <3>1, PutClaims
  <2>4. Becomes(U)
    <3>1. U.task = [Here.task EXCEPT ![t] = w]
      BY DEF Put
    <3> HIDE DEF U
    <3> QED  BY <1>2, <2>2, <2>3, <3>1 DEF Becomes
  <2> HIDE DEF U
  <2>5. Queues(U, curr)
    <3> SUFFICES ASSUME NEW u \in Tasks PROVE TaskOk(U, u, curr)
      BY <2>3 DEF Queues
    <3>0. TaskOk(Here, u, curr)
      BY <1>2
    <3>1. U.task[u].state = Here.task[u].state
      BY <1>3, <2>1, <2>3
    <3>2. /\ U.task[u].state = "running" => Here.task[u].array # None
          /\ U.task[u].state # "running" => Here.task[u].state # "running" \/ u = curr
          /\ U.task[u].state = "free" => Here.task[u].state = "free"
      BY <3>0, <3>1 DEF TaskOk
    <3> QED  BY <2>3, <3>0, <3>2, ClaimsTaskOk
  <2>6. CurrentOk(U, curr, need_resched, calling)
    <3>1. /\ U.task[curr].state = Here.task[curr].state
          /\ U.task[curr].array = Here.task[curr].array
      BY <1>2, <1>3, <2>1, <2>3
    <3> QED  BY <1>2, <2>3, <3>1 DEF CurrentOk
  <2>7. ASSUME ~need_resched
        PROVE  FirstIn(U, curr) /\ (excused = "no" => BestIn(U, curr))
    <3>1. FirstIn(Here, curr) /\ (excused = "no" => BestIn(Here, curr))
      BY <1>1, <2>7, IInvUse
    <3> QED  BY <1>1, <1>2, <2>3, <3>1, ClaimsBest
  <2>8. Inv(U, curr', need_resched', calling', excused')
    BY <1>1, <1>2, <2>2, <2>5, <2>6, <2>7 DEF Inv
  <2>9. IInv'
    BY <2>4, <2>8, InvStep
  <2>10. ASSUME NEW u \in Tasks PROVE OneWay(task[u], task'[u], u)
    <3>1. task'[u] = U.task[u]
      BY <2>4 DEF Becomes
    <3>2. U.task[u].policy = task[u].policy /\ U.task[u].time_left = task[u].time_left
      BY <1>2, <1>3, <2>1, <2>3
    <3> QED  BY <1>2, <3>1, <3>2, OneWaySame
  <2> QED  BY <2>9, <2>10 DEF Goal
<1>6. CASE ~rt_task(p)
  <2>1. /\ Becomes(V) /\ need_resched' = (need_resched \/ t = curr)
        /\ excused' = IF a # None /\ new < p.prio /\ t # curr THEN "nice" ELSE excused
    BY <1>1, <1>6
  <2>2. p.policy = "OTHER"
    BY <1>1, <1>3, <1>6 DEF TaskOk, TaskType, Policies
  <2>3. a # None => a \in Arrays
    BY <1>3 DEF TaskType, Arrays
  <2> HIDE DEF a
  <2>4. /\ Sane(S, {t}) /\ SameRq(Here, S) /\ S.task = task
        /\ \A b \in Arrays : FirstsKept(rq.arrays[b], S.rq.arrays[b], t)
    <3>1. CASE a # None
      <4>1. S = dequeue_task(Here, t, a)
        BY <3>1
      <4> HIDE DEF S
      <4>2. a \in Arrays /\ Here.task[t].array = a
        BY <1>3, <2>3, <3>1 DEF a
      <4>3. /\ Sane(S, {t}) /\ S.task = Here.task /\ SameRq(Here, S)
            /\ \A b \in Arrays : FirstsKept(Here.rq.arrays[b], S.rq.arrays[b], t)
        BY <1>2, <4>1, <4>2, SaneDequeue
      <4> QED  BY <1>2, <4>3
    <3>2. CASE a = None
      <4>1. S = Here
        BY <3>2
      <4> HIDE DEF S
      <4>2. Sane(Here, {t})
        BY <1>2, <1>3, <3>2, SaneOut DEF a
      <4>3. \A b \in Arrays : FirstsKept(rq.arrays[b], rq.arrays[b], t)
        BY DEF FirstsKept, SameFirst
      <4> QED  BY <1>2, <4>1, <4>2, <4>3 DEF SameRq
    <3> QED  BY <3>1, <3>2
  <2> HIDE DEF S
  <2> DEFINE w == Reniced(S.task[t], new, new)
  <2>5. S \in Sys /\ S.task[t] = p
    BY <1>2, <1>3, <2>4, SaneType
  <2>6. w \in TaskType /\ T = Put(S, t, w)
    BY <1>4, <2>5, Put2
  <2>7. /\ w.policy = "OTHER" /\ w.prio = new /\ w.array = a /\ w.state = p.state
        /\ w.time_left = p.time_left
    BY <1>3, <2>2, <2>5 DEF TaskType, a, Reniced
  <2> HIDE DEF T, w
  <2>8. Level(w) = new /\ ~rt_task(w)
    BY <2>7, Numbers DEF Level, rt_task
  <2>9. /\ Sane(T, {t}) /\ T.rq = S.rq /\ T.task[t] = w
        /\ T.task = [S.task EXCEPT ![t] = w]
        /\ \A u \in Tasks \ {t} : T.task[u] = S.task[u]
    <3>1. Sane(T, {t})
      BY <2>4, <2>6, SanePut
    <3>2. /\ T \in Sys /\ T.rq = S.rq /\ T.task[t] = w
          /\ T.task = [S.task EXCEPT ![t] = w]
          /\ \A u \in Tasks \ {t} : T.task[u] = S.task[u]
      BY <2>5, <2>6, Puts
    <3> QED  BY <3>1, <3>2
  <2>10. /\ Sane(V, {}) /\ V.task[t] = w /\ \A u \in Tasks \ {t} : V.task[u] = task[u]
         /\ SameRq(Here, V)
         /\ \A b \in Arrays : FirstsKept(rq.arrays[b], V.rq.arrays[b], t)
    <3>1. CASE a # None
      <4>1. V = enqueue_task(T, t, a)
        BY <3>1
      <4> HIDE DEF V
      <4>2. /\ Sane(V, {}) /\ V.task = [T.task EXCEPT ![t].array = a] /\ SameRq(T, V)
            /\ \A b \in Arrays : FirstsKept(T.rq.arrays[b], V.rq.arrays[b], t)
        <5>1. Sane(T, {t}) /\ a \in Arrays /\ t \in {t}
          BY <2>3, <2>9, <3>1
        <5> QED  BY <4>1, <5>1, SaneEnqueue
      <4>3. /\ V.task[t] = [w EXCEPT !.array = a]
            /\ \A u \in Tasks \ {t} : V.task[u] = task[u]
        <5>1. T \in Sys
          BY <2>9, SaneType
        <5>2. T.task \in [Tasks -> TaskType]
          BY <5>1 DEF Sys
        <5> QED  BY <2>4, <2>9, <4>2, <5>2
      <4>4. [w EXCEPT !.array = a] = w
        BY <2>6, <2>7 DEF TaskType
      <4>5. SameRq(Here, V)
        BY <2>4, <2>9, <4>2 DEF SameRq
      <4>6. ASSUME NEW b \in Arrays PROVE FirstsKept(rq.arrays[b], V.rq.arrays[b], t)
        <5>1. /\ FirstsKept(rq.arrays[b], T.rq.arrays[b], t)
              /\ FirstsKept(T.rq.arrays[b], V.rq.arrays[b], t)
          BY <2>4, <2>9, <4>2
        <5> QED  BY <5>1 DEF FirstsKept, SameFirst
      <4> QED  BY <4>2, <4>3, <4>4, <4>5, <4>6
    <3>2. CASE a = None
      <4>1. V = T
        BY <3>2
      <4> HIDE DEF V
      <4>2. Sane(T, {})
        BY <2>7, <2>9, <3>2, SaneOut
      <4> QED  BY <2>4, <2>9, <4>1, <4>2 DEF SameRq
    <3> HIDE DEF V
    <3> QED  BY <3>1, <3>2
  <2> HIDE DEF V
  <2>11. V.rq.active = rq.active /\ V.rq.nr_running = rq.nr_running
    BY <1>2, <2>10 DEF SameRq
  <2>12. \A u \in Tasks : V.task[u].array = task[u].array /\ V.task[u].state = task[u].state
    BY <2>7, <2>10 DEF a, p
  <2>13. Count(V)
    <3>1. Runnable(V) = Runnable(Here)
      BY <1>2, <2>12 DEF Runnable
    <3> QED  BY <1>2, <2>11, <3>1 DEF Count
  <2>14. Queues(V, curr)
    <3>1. \A u \in Tasks \ {t} : TaskOk(V, u, curr)
      <4>1. \A u \in Tasks \ {t} : V.task[u] = Here.task[u]
        BY <1>2, <2>10
      <4>2. V.rq.active = Here.rq.active
        BY <1>2, <2>11
      <4> QED  BY <1>2, <4>1, <4>2, OthersOk
    <3>2. TaskOk(V, t, curr)
      <4>1. /\ p.state = "running" => a # None
            /\ a # None /\ p.state # "running" => t = curr
            /\ a # None => a # Short
            /\ p.state = "free" => a = None
        BY <1>3, <2>2 DEF TaskOk, Placed, a
      <4> QED  BY <2>7, <2>8, <2>10, <2>11, <4>1 DEF TaskOk, Placed
    <3> QED  BY <2>10, <2>13, <3>1, <3>2 DEF Queues
  <2>15. CurrentOk(V, curr, need_resched', calling')
    BY <1>1, <1>2, <2>1, <2>11, <2>12 DEF CurrentOk
  <2>16. ASSUME ~need_resched'
         PROVE  FirstIn(V, curr) /\ (excused' = "no" => BestIn(V, curr))
    <3>1. ~need_resched /\ t # curr
      BY <2>1, <2>16
    <3>2. FirstIn(Here, curr) /\ (excused = "no" => BestIn(Here, curr))
      BY <1>1, <3>1, IInvUse
    <3>3. /\ \A u \in Tasks \ {t} : V.task[u] = Here.task[u]
          /\ V.rq.active = Here.rq.active
          /\ FirstsKept(Here.rq.arrays[Short], V.rq.arrays[Short], t)
      BY <1>2, <2>10, <2>11 DEF Arrays
    <3>4. V.task[t].array # Short
      <4>1. TaskOk(V, t, curr)
        BY <2>14 DEF Queues
      <4> QED  BY <2>7, <2>10, <4>1 DEF TaskOk, Placed, None, Short
    <3>5. FirstIn(V, curr)
      BY <1>2, <3>1, <3>2, <3>3, <3>4, FirstFrom
    <3>6. ASSUME excused' = "no" PROVE BestIn(V, curr)
      <4>1. excused = "no" /\ (a # None => ~(new < p.prio))
        BY <2>1, <3>1, <3>6
      <4>2. BestIn(Here, curr)
        BY <3>2, <4>1
      <4>3. ASSUME V.task[t].array # None PROVE NotBefore(V, t, curr)
        <5>1. Here.task[t].array # None /\ ~(new < p.prio)
          BY <1>3, <2>7, <2>10, <4>1, <4>3 DEF a
        <5>2. NotBefore(Here, t, curr)
          BY <4>2, <5>1 DEF BestIn
        <5>3. ClassIn(V, t) = ClassIn(Here, t)
          <6>1. V.task[t].array = Here.task[t].array
            BY <1>3, <2>7, <2>10 DEF a
          <6> QED  BY <1>3, <1>6, <2>2, <2>7, <2>8, <2>10, <3>3, <6>1 DEF ClassIn
        <5>4. V.task[curr] = Here.task[curr] /\ ClassIn(V, curr) = ClassIn(Here, curr)
          BY <1>2, <3>1, <3>3 DEF ClassIn
        <5>5. Level(V.task[t]) = new /\ Level(Here.task[t]) = p.prio
          BY <1>3, <2>2, <2>8, <2>10 DEF Level
        <5>6. p.prio \in Nat /\ new \in Nat /\ Level(Here.task[curr]) \in Nat
          <6>1. p.prio \in Levels /\ Level(Here.task[curr]) \in Levels
            BY <1>2, <1>3, TaskOf, LevelIn DEF TaskType
          <6> QED  BY <1>4, <6>1, Numbers
        <5> QED  BY <5>1, <5>2, <5>3, <5>4, <5>5, <5>6 DEF NotBefore
      <4> QED  BY <1>2, <3>1, <3>3, <4>2, <4>3, BestFrom
    <3> QED  BY <3>5, <3>6
  <2>17. Inv(V, curr', need_resched', calling', excused')
    <3>1. need_resched' \in BOOLEAN /\ excused' \in {"no", "nice", "policy"}
      BY <1>2, <2>1
    <3> QED  BY <1>1, <1>2, <2>14, <2>15, <2>16, <3>1 DEF Inv
  <2>18. IInv'
    BY <2>1, <2>17, InvStep
  <2>19. ASSUME NEW u \in Tasks PROVE OneWay(task[u], task'[u], u)
    <3>1. task'[u] = V.task[u]
      BY <2>1 DEF Becomes
    <3>2. V.task[u].policy = task[u].policy /\ V.task[u].time_left = task[u].time_left
      BY <2>2, <2>7, <2>10 DEF p
    <3> QED  BY <1>2, <3>1, <3>2, OneWaySame
  <2> QED  BY <2>18, <2>19 DEF Goal
<1> QED  BY <1>5, <1>6

------------------------------------------------------------------------------
(* The invariant holds at first, and every step keeps it. *)
LEMMA InitInv == Init => IInv
<1> SUFFICES ASSUME Init PROVE IInv
  OBVIOUS
<1> DEFINE boot == [task |-> [t \in Tasks |-> Fresh(IF t = FirstTask THEN "running"
                                                    ELSE "free")],
                    rq |-> [active |-> 0, expired |-> 1, nr_running |-> 0,
                            arrays |-> [a \in {0, 1, Short} |-> EmptyArray]]]
           T == activate_task(boot, FirstTask, MAX_RT_PRIO)
<1>1. /\ task = T.task /\ rq = T.rq /\ curr = FirstTask
      /\ need_resched = FALSE /\ calling = FALSE /\ excused = "no"
  BY DEF Init
<1>2. FirstTask \in Tasks /\ FirstTask # Idle
  BY TasksAssumption
<1>3. ASSUME NEW t \in Tasks
      PROVE  /\ boot.task[t] \in TaskType /\ ~rt_task(boot.task[t])
             /\ boot.task[t].policy = "OTHER" /\ boot.task[t].array = None
             /\ boot.task[t].state = IF t = FirstTask THEN "running" ELSE "free"
  BY FreshType
<1>4. /\ boot.rq.active = 0 /\ boot.rq.expired = 1 /\ boot.rq.nr_running = 0
      /\ DOMAIN boot.task = Tasks
      /\ boot.task = [t \in Tasks |-> boot.task[t]]
      /\ boot.rq.arrays = [a \in Arrays |-> EmptyArray]
      /\ boot = [task |-> boot.task, rq |-> boot.rq]
      /\ boot.rq = [active |-> 0, expired |-> 1, nr_running |-> 0,
                    arrays |-> boot.rq.arrays]
  BY DEF Arrays
<1> HIDE DEF boot
<1>5. boot \in Sys
  <2>1. EmptyArray \in ArrayType
    BY EmptyHolds DEF Holds
  <2>2. boot.rq.arrays \in [Arrays -> ArrayType] /\ boot.task \in [Tasks -> TaskType]
    BY <1>3, <1>4, <2>1
  <2>3. boot.rq \in RqType
    BY <1>4, <2>2 DEF RqType
  <2> QED  BY <1>4, <2>2, <2>3 DEF Sys
<1>6. Sane(boot, {FirstTask})
  <2> SUFFICES ASSUME NEW a \in Arrays
               PROVE  Holds(boot.rq.arrays[a], On(boot, a, {FirstTask}), Lev(boot))
    BY <1>4, <1>5 DEF Sane
  <2>1. On(boot, a, {FirstTask}) = {}
    BY <1>3 DEF On, Arrays, None, Short
  <2> QED  BY <1>4, <2>1, EmptyHolds
<1>7. Count(boot)
  <2>1. Runnable(boot) = {}
    BY <1>3 DEF Runnable
  <2> QED  BY <1>4, <2>1, FS_EmptySet DEF Count
<1>8. Enters(boot, T, FirstTask)
  <2>1. MAX_RT_PRIO \in NormalPrios /\ MAX_RT_PRIO \in Levels
    BY Numbers
  <2>2. boot.task[FirstTask].array = None
    BY <1>2, <1>3
  <2> HIDE DEF T
  <2>3. Enters(boot, activate_task(boot, FirstTask, MAX_RT_PRIO), FirstTask)
    BY <1>2, <1>6, <1>7, <2>1, <2>2, EntersOk
  <2> QED  BY <2>3 DEF T
<1> HIDE DEF T
<1>9. /\ Sane(T, {}) /\ T \in Sys /\ T.task[FirstTask].state = "running"
      /\ T.task[FirstTask].array \in {T.rq.active, Short}
      /\ T.task[FirstTask].array # None
      /\ T.task[FirstTask].policy = "OTHER"
      /\ \A u \in Tasks \ {FirstTask} : T.task[u] = boot.task[u]
  BY <1>2, <1>3, <1>8, SaneType DEF Enters, Placed
<1>10. Queues(T, FirstTask)
  <2>1. \A u \in Tasks \ {FirstTask} : TaskOk(boot, u, FirstTask)
    BY <1>3 DEF TaskOk
  <2>2. /\ boot.task[FirstTask].state = "running"
        /\ boot.task[FirstTask].policy \in {"FIFO", "RR"} => rt_task(boot.task[FirstTask])
        /\ boot.task[FirstTask].policy = "OTHER" => ~rt_task(boot.task[FirstTask])
    BY <1>2, <1>3
  <2> QED  BY <1>2, <1>8, <2>1, <2>2, EntersQueues
<1>11. CurrentOk(T, FirstTask, FALSE, FALSE)
  BY <1>9 DEF CurrentOk
<1>12. FirstIn(T, FirstTask)
  BY <1>9 DEF FirstIn
<1>13. BestIn(T, FirstTask)
  <2> SUFFICES ASSUME NEW t \in Tasks, T.task[t].array # None
               PROVE  NotBefore(T, t, FirstTask)
    BY DEF BestIn
  <2>1. t = FirstTask
    BY <1>3, <1>9
  <2>2. ClassIn(T, t) \in Nat /\ Level(T.task[t]) \in Nat
    <3>1. Level(T.task[t]) \in Levels
      BY <1>9, TaskOf, LevelIn
    <3> QED  BY <3>1, Numbers DEF ClassIn
  <2> QED  BY <1>2, <2>1, <2>2 DEF NotBefore
<1>14. Here = T
  <2>1. T = [task |-> T.task, rq |-> T.rq]
    BY <1>9 DEF Sys
  <2> QED  BY <1>1, <2>1 DEF Here
<1> QED  BY <1>1, <1>2, <1>10, <1>11, <1>12, <1>13, <1>14 DEF IInv, Inv

LEMMA StepKeeps ==
    ASSUME IInv, Next, ~Schedule
    PROVE  IInv' /\ \A u \in Tasks : OneWay(task[u], task'[u], u)
<1>1. CASE Tick
  BY <1>1, TickKeeps
<1>2. CASE Sleep
  BY <1>2, SleepKeeps
<1>3. CASE ExitTask
  BY <1>3, ExitKeeps
<1>4. CASE Yield
  BY <1>4, YieldKeeps
<1>5. CASE \E t \in Tasks : Wake(t) \/ Reap(t)
  BY <1>5, WakeKeeps, ReapKeeps
<1>6. CASE \E c \in Tasks, vfork \in BOOLEAN : Fork(c, vfork)
  BY <1>6, ForkKeeps
<1>7. CASE \E t \in Alive : SetPolicy(t)
  BY <1>7, SetPolicyKeeps DEF Alive
<1>8. CASE \E t \in Alive, new \in Nices : SetUserNice(t, new)
  <2>1. \A new \in Nices : new \in NormalPrios
    BY NicesAssumption DEF NormalPrios
  <2> QED  BY <1>8, <2>1, SetUserNiceKeeps DEF Alive
<1> QED  BY <1>1, <1>2, <1>3, <1>4, <1>5, <1>6, <1>7, <1>8 DEF Next

LEMMA StutterKeeps ==
    ASSUME IInv, UNCHANGED vars
    PROVE  IInv' /\ \A u \in Tasks : OneWay(task[u], task'[u], u)
<1>1. IInv'
  BY DEF vars, IInv, Inv, Here, Queues, Sane, Count, TaskOk, Placed, CurrentOk, FirstIn,
         BestIn, NotBefore, ClassIn, Runnable, Holds, On, Lev
<1>2. ASSUME NEW u \in Tasks PROVE OneWay(task[u], task'[u], u)
  <2>1. task'[u] = task[u] /\ task[u] \in TaskType
    BY IInvUse DEF vars
  <2> QED  BY <2>1, OneWaySame
<1> QED  BY <1>1, <1>2

(* The inductive invariant of every behaviour of the scheduler: every task *)
(* is on the list that its fields name and the counters say so, the array  *)
(* follows from the policy and the policy from the priority, and while no  *)
(* reschedule is pending the current task has the best claim.              *)
THEOREM QueuesStaySane == Spec => []IInv
<1>1. Init => IInv
  BY InitInv
<1>2. IInv /\ [Next]_vars => IInv'
  BY ScheduleKeeps, StepKeeps, StutterKeeps
<1> QED  BY <1>1, <1>2, PTL DEF Spec

------------------------------------------------------------------------------
(* Sums of sizes: MapThenSumSet takes one element, Pick, after the other.  *)
Pick(T) == CHOOSE k \in T : TRUE
Sums(size, g, S) ==
    g = [T \in SUBSET S |-> IF T = {} THEN 0 ELSE size[Pick(T)] + g[T \ {Pick(T)}]]

LEMMA PickIn == \A T : T # {} => Pick(T) \in T
BY DEF Pick

LEMMA SmallestSet ==
    ASSUME NEW S, IsFiniteSet(S), NEW Bad \in SUBSET (SUBSET S), Bad # {}
    PROVE  \E T \in Bad : \A U \in SUBSET T : U # T => U \notin Bad
<1>1. Bad \subseteq FiniteSubsetsOf(S)
  BY FS_Subset DEF FiniteSubsetsOf
<1>2. PICK T \in Bad : \A U \in Bad : ~(<<U, T>> \in StrictSubsetOrdering(S))
  BY <1>1, FS_StrictSubsetOrderingWellFounded, WFMin
<1>3. \A U \in SUBSET T : U # T /\ U \in Bad => <<U, T>> \in StrictSubsetOrdering(S)
  BY DEF StrictSubsetOrdering
<1>4. \A U \in SUBSET T : U # T => U \notin Bad
  BY <1>2, <1>3
<1> QED  BY <1>4

LEMMA SumsAgree ==
    ASSUME NEW S, IsFiniteSet(S), NEW size, NEW g, NEW h,
           Sums(size, g, S), Sums(size, h, S)
    PROVE  g[S] = h[S]
<1> DEFINE Bad == {T \in SUBSET S : g[T] # h[T]}
<1>1. SUFFICES ASSUME Bad # {} PROVE FALSE
  BY DEF Bad
<1> HIDE DEF Bad
<1>2. PICK T \in Bad : \A U \in SUBSET T : U # T => U \notin Bad
  <2>1. Bad \in SUBSET (SUBSET S)
    BY DEF Bad
  <2> QED  BY <1>1, <2>1, SmallestSet
<1> USE DEF Bad
<1>3. T # {}
  BY DEF Sums
<1>4. Pick(T) \in T
  BY <1>3, PickIn
<1>5. g[T \ {Pick(T)}] = h[T \ {Pick(T)}]
  BY <1>2, <1>4
<1>6. /\ g[T] = size[Pick(T)] + g[T \ {Pick(T)}]
      /\ h[T] = size[Pick(T)] + h[T \ {Pick(T)}]
  BY <1>3 DEF Sums
<1> QED  BY <1>5, <1>6

(* The sizes of disjoint sets add up to that of their union. *)
All(f, T) == UNION {f[k] : k \in T}

LEMMA DisjointSums ==
    ASSUME NEW S, NEW f \in [S -> SUBSET Tasks], NEW size,
           \A k \in S : size[k] = Cardinality(f[k]),
           \A j, k \in S : j # k => f[j] \cap f[k] = {}
    PROVE  Sums(size, [T \in SUBSET S |-> Cardinality(All(f, T))], S)
<1> DEFINE g == [T \in SUBSET S |-> Cardinality(All(f, T))]
<1> SUFFICES Sums(size, g, S)
  OBVIOUS
<1>1. ASSUME NEW T \in SUBSET S
      PROVE  g[T] = IF T = {} THEN 0 ELSE size[Pick(T)] + g[T \ {Pick(T)}]
  <2>1. CASE T = {}
    <3>1. All(f, T) = {}
      BY <2>1 DEF All
    <3> QED  BY <2>1, <3>1, FS_EmptySet
  <2>2. CASE T # {}
    <3> DEFINE x == Pick(T)
               R == T \ {x}
    <3>1. x \in T /\ R \in SUBSET S
      BY <2>2, PickIn
    <3> HIDE DEF x
    <3>2. /\ All(f, T) = f[x] \cup All(f, R) /\ f[x] \cap All(f, R) = {}
          /\ f[x] \in SUBSET Tasks /\ All(f, R) \in SUBSET Tasks
      BY <3>1 DEF All
    <3>3. /\ Cardinality(f[x] \cup All(f, R))
                = Cardinality(f[x]) + Cardinality(All(f, R)) - Cardinality({})
          /\ Cardinality(f[x]) \in Nat /\ Cardinality(All(f, R)) \in Nat
      <4> DEFINE a == f[x]
                 b == All(f, R)
      <4>1. /\ IsFiniteSet(a) /\ IsFiniteSet(b) /\ a \cap b = {}
            /\ Cardinality(a) \in Nat /\ Cardinality(b) \in Nat
        BY <3>2, FiniteTasks
      <4> HIDE DEF a, b
      <4>2. Cardinality(a \cup b) = Cardinality(a) + Cardinality(b) - Cardinality(a \cap b)
        BY <4>1, FS_Union
      <4>3. Cardinality(a \cup b) = Cardinality(a) + Cardinality(b) - Cardinality({})
        BY <4>1, <4>2
      <4> QED  BY <4>1, <4>3 DEF a, b
    <3>4. Cardinality(All(f, T)) = Cardinality(f[x]) + Cardinality(All(f, R))
      BY <3>2, <3>3, FS_EmptySet
    <3>5. size[x] = Cardinality(f[x])
      BY <3>1
    <3>6. g[T] = Cardinality(All(f, T)) /\ g[R] = Cardinality(All(f, R))
      BY <3>1
    <3> HIDE DEF g, R
    <3>7. g[T] = size[x] + g[R]
      BY <3>4, <3>5, <3>6
    <3> QED  BY <2>2, <3>7 DEF x, R
  <2> QED  BY <2>1, <2>2
<1>2. g = [T \in SUBSET S |-> g[T]]
  OBVIOUS
<1> HIDE DEF g
<1> QED  BY <1>1, <1>2 DEF Sums

(* A list has as many members as places. *)
Before1(q, n) == {t \in Tasks : \E i \in 1 .. n : q[i] = t}

LEMMA ListSize ==
    ASSUME NEW q, List(q), NEW n \in 0 .. Len(q)
    PROVE  Cardinality(Before1(q, n)) = n
<1> DEFINE f == [i \in 1 .. n |-> q[i]]
<1>1. /\ Len(q) \in Nat /\ \A i \in 1 .. Len(q) : q[i] \in Tasks
      /\ \A i, j \in 1 .. Len(q) : q[i] = q[j] => i = j
  BY LenProperties, ElementOfSeq DEF List, NoRepeats
<1>2. n \in Nat /\ \A i \in 1 .. n : i \in 1 .. Len(q)
  BY <1>1
<1>3. f \in Bijection(1 .. n, Before1(q, n))
  <2>1. f \in [1 .. n -> Before1(q, n)]
    BY <1>1, <1>2 DEF Before1
  <2>2. \A i, j \in 1 .. n : f[i] = f[j] => i = j
    BY <1>1, <1>2
  <2>3. \A t \in Before1(q, n) : \E i \in 1 .. n : f[i] = t
    BY DEF Before1
  <2> HIDE DEF f
  <2> QED  BY <2>1, <2>2, <2>3 DEF Bijection, Injection, IsInjective, Surjection
<1>4. ExistsBijection(1 .. n, Before1(q, n))
  BY <1>3 DEF ExistsBijection
<1>5. IsFiniteSet(1 .. n) /\ Cardinality(1 .. n) = n
  BY <1>2, FS_Interval
<1> QED  BY <1>4, <1>5, FS_Bijection

LEMMA LevelsFinite == IsFiniteSet(Levels) /\ \A n \in Levels : IsFiniteSet(0 .. n)
<1>1. MAX_PRIO - 1 \in Int /\ 0 \in Int /\ \A n \in Levels : n \in Int
  BY Numbers DEF Levels
<1> QED  BY <1>1, FS_Interval DEF Levels

LEMMA LengthsAdd ==
    ASSUME NEW a, NEW f \in [Levels -> SUBSET Tasks],
           \A k \in Levels : Len(rq.arrays[a].queue[k]) = Cardinality(f[k]),
           \A j, k \in Levels : j # k => f[j] \cap f[k] = {}
    PROVE  SumOfLengths(a) = Cardinality(All(f, Levels))
<1> DEFINE size == [k \in Levels |-> Len(rq.arrays[a].queue[k])]
           adds(g) == [T \in SUBSET Levels |->
                          IF T = {} THEN 0
                          ELSE Len(rq.arrays[a].queue[Pick(T)]) + g[T \ {Pick(T)}]]
           h == CHOOSE g : g = adds(g)
           G == [T \in SUBSET Levels |-> Cardinality(All(f, T))]
<1>1. SumOfLengths(a) = h[Levels]
  BY DEF SumOfLengths, MapThenSumSet, MapThenFoldSet, Pick
<1>2. ASSUME NEW g PROVE g = adds(g) <=> Sums(size, g, Levels)
  <2>1. \A T \in SUBSET Levels : T # {} => size[Pick(T)] = Len(rq.arrays[a].queue[Pick(T)])
    BY PickIn
  <2> HIDE DEF size
  <2>2. adds(g) = [T \in SUBSET Levels |->
                      IF T = {} THEN 0 ELSE size[Pick(T)] + g[T \ {Pick(T)}]]
    BY <2>1
  <2> HIDE DEF adds
  <2> QED  BY <2>2 DEF Sums
<1>3. Sums(size, G, Levels)
  BY DisjointSums
<1> HIDE DEF size, G
<1>4. Sums(size, h, Levels)
  <2>1. G = adds(G)
    BY <1>2, <1>3
  <2> HIDE DEF adds
  <2>2. h = adds(h)
    BY <2>1
  <2> HIDE DEF h
  <2> QED  BY <1>2, <2>2 DEF adds
<1> HIDE DEF h
<1>5. h[Levels] = G[Levels]
  BY <1>3, <1>4, LevelsFinite, SumsAgree
<1> QED  BY <1>1, <1>5 DEF G

Seen(t, k) ==
    IF Contains(rq.arrays[Short].queue[k], t)
    THEN SelectInSeq(rq.arrays[Short].queue[k], LAMBDA u : u = t) - 1
    ELSE Len(rq.arrays[Short].queue[k])

LEMMA WalkAdds ==
    ASSUME NEW t \in Tasks, t # curr, Walked(t) \subseteq Levels, IsFiniteSet(Walked(t)),
           NEW f \in [Walked(t) -> SUBSET Tasks],
           \A k \in Walked(t) : Seen(t, k) = Cardinality(f[k]),
           \A j, k \in Walked(t) : j # k => f[j] \cap f[k] = {}
    PROVE  short_place_in_queue(t) = Cardinality(All(f, Walked(t)))
<1> DEFINE W == Walked(t)
           size == [k \in W |-> Seen(t, k)]
           adds(g) == [T \in SUBSET W |->
                          IF T = {} THEN 0 ELSE Seen(t, Pick(T)) + g[T \ {Pick(T)}]]
           h == CHOOSE g : g = adds(g)
           G == [T \in SUBSET W |-> Cardinality(All(f, T))]
<1>1. short_place_in_queue(t) = h[W]
  BY DEF short_place_in_queue, MapThenSumSet, MapThenFoldSet, Pick, Seen
<1> HIDE DEF W
<1>2. ASSUME NEW g PROVE g = adds(g) <=> Sums(size, g, W)
  <2>1. \A T \in SUBSET W : T # {} => size[Pick(T)] = Seen(t, Pick(T))
    BY PickIn
  <2> HIDE DEF size
  <2>2. adds(g) = [T \in SUBSET W |->
                      IF T = {} THEN 0 ELSE size[Pick(T)] + g[T \ {Pick(T)}]]
    BY <2>1
  <2> HIDE DEF adds
  <2> QED  BY <2>2 DEF Sums
<1>3. Sums(size, G, W)
  BY DisjointSums DEF W
<1> HIDE DEF size, G
<1>4. Sums(size, h, W)
  <2>1. G = adds(G)
    BY <1>2, <1>3
  <2> HIDE DEF adds
  <2>2. h = adds(h)
    BY <2>1
  <2> HIDE DEF h
  <2> QED  BY <1>2, <2>2 DEF adds
<1> HIDE DEF h
<1>5. h[W] = G[W]
  <2>1. IsFiniteSet(W)
    BY DEF W
  <2> QED  BY <1>3, <1>4, <2>1, SumsAgree
<1> QED  BY <1>1, <1>5 DEF G, W

------------------------------------------------------------------------------
(* The properties follow from the invariant. *)
LEMMA Lists ==
    ASSUME IInv, NEW a \in Arrays, NEW k \in Levels
    PROVE  LET q == rq.arrays[a].queue[k]
           IN  /\ List(q) /\ q \in Seq(Tasks)
               /\ k \in rq.arrays[a].bitmap <=> q # << >>
               /\ \A t \in Tasks : In(q, t) <=> task[t].array = a /\ Level(task[t]) = k
<1> DEFINE q == rq.arrays[a].queue[k]
<1>1. Here.task = task /\ Here.rq = rq /\ Holds(rq.arrays[a], On(Here, a, {}), Lev(Here))
  BY IInvUse DEF Sane
<1>2. /\ List(q) /\ (k \in rq.arrays[a].bitmap <=> q # << >>)
      /\ \A t \in Tasks : In(q, t) <=> t \in On(Here, a, {}) /\ Lev(Here)[t] = k
  BY <1>1 DEF Holds
<1>3. \A t \in Tasks : In(q, t) <=> task[t].array = a /\ Level(task[t]) = k
  BY <1>1, <1>2 DEF On, Lev
<1> QED  BY <1>2, <1>3 DEF List

LEMMA InvTypes == IInv => TypeOK
<1> SUFFICES ASSUME IInv PROVE TypeOK
  OBVIOUS
<1>1. /\ Here \in Sys /\ Here.task = task /\ Here.rq = rq
      /\ curr \in Tasks \cup {Idle} /\ need_resched \in BOOLEAN /\ calling \in BOOLEAN
      /\ excused \in {"no", "nice", "policy"}
  BY IInvUse
<1>2. rq.active # rq.expired
  BY <1>1, IInvUse DEF Sane
<1> QED  BY <1>1, <1>2 DEF TypeOK, Sys, TaskType, RqType, ArrayType, Arrays

LEMMA InvCounts == IInv => QueuesCounted
<1> SUFFICES ASSUME IInv PROVE QueuesCounted
  OBVIOUS
<1>1. /\ Here.task = task /\ Here.rq = rq /\ Count(Here)
      /\ \A a \in Arrays : Holds(rq.arrays[a], On(Here, a, {}), Lev(Here))
  BY IInvUse DEF Sane
<1>2. rq.nr_running = Cardinality({t \in Tasks : task[t].array # None})
  BY <1>1 DEF Count, Runnable
<1>3. ASSUME NEW a \in Arrays
      PROVE  /\ rq.arrays[a].nr_active = Cardinality(Queued(a))
             /\ SumOfLengths(a) = Cardinality(Queued(a))
             /\ \A k \in Levels :
                   /\ k \in rq.arrays[a].bitmap <=> rq.arrays[a].queue[k] # << >>
                   /\ ToSet(rq.arrays[a].queue[k])
                         = {t \in Queued(a) : Level(task[t]) = k}
  <2> DEFINE f == [k \in Levels |-> {t \in Queued(a) : Level(task[t]) = k}]
  <2>1. rq.arrays[a].nr_active = Cardinality(Queued(a))
    <3>1. On(Here, a, {}) = Queued(a)
      BY <1>1 DEF On, Queued
    <3> QED  BY <1>1, <3>1 DEF Holds
  <2>2. ASSUME NEW k \in Levels
        PROVE  /\ k \in rq.arrays[a].bitmap <=> rq.arrays[a].queue[k] # << >>
               /\ ToSet(rq.arrays[a].queue[k]) = f[k]
               /\ Len(rq.arrays[a].queue[k]) = Cardinality(f[k])
    <3> DEFINE q == rq.arrays[a].queue[k]
    <3>1. /\ List(q) /\ q \in Seq(Tasks) /\ (k \in rq.arrays[a].bitmap <=> q # << >>)
          /\ \A t \in Tasks : In(q, t) <=> task[t].array = a /\ Level(task[t]) = k
      BY Lists
    <3>2. f[k] = {t \in Tasks : In(q, t)}
      BY <3>1 DEF Queued
    <3> HIDE DEF q, f
    <3>3. ToSet(q) = {t \in Tasks : In(q, t)}
      <4>1. \A t : t \in ToSet(q) <=> In(q, t)
        BY <3>1, InIsMember
      <4>2. \A t : In(q, t) => t \in Tasks
        BY <3>1, ElementOfSeq DEF In
      <4> QED  BY <4>1, <4>2
    <3>4. Len(q) = Cardinality(f[k])
      <4>1. Len(q) \in 0 .. Len(q)
        BY <3>1, LenProperties
      <4>2. Cardinality(Before1(q, Len(q))) = Len(q)
        BY <3>1, <4>1, ListSize
      <4>3. Before1(q, Len(q)) = {t \in Tasks : In(q, t)}
        BY DEF Before1, In
      <4> QED  BY <3>2, <4>2, <4>3
    <3> QED  BY <3>1, <3>2, <3>3, <3>4 DEF q
  <2>3. SumOfLengths(a) = Cardinality(Queued(a))
    <3>1. /\ f \in [Levels -> SUBSET Tasks]
          /\ \A j, k \in Levels : j # k => f[j] \cap f[k] = {}
      BY DEF Queued
    <3>2. All(f, Levels) = Queued(a)
      <4>1. \A t \in Tasks : Level(task[t]) \in Levels
        BY IInvUse, LevelIn
      <4> QED  BY <4>1 DEF All, Queued
    <3> HIDE DEF f
    <3>3. SumOfLengths(a) = Cardinality(All(f, Levels))
      BY <2>2, <3>1, LengthsAdd
    <3> QED  BY <3>2, <3>3
  <2> QED  BY <2>1, <2>2, <2>3
<1> QED  BY <1>2, <1>3 DEF QueuesCounted, Arrays

LEMMA InvPlaces == IInv => ArraysByPolicy
<1> SUFFICES ASSUME IInv, NEW t \in Tasks
             PROVE  /\ task[t].state = "running" => task[t].array # None
                    /\ task[t].array # None =>
                          /\ task[t].policy = "SHORT" <=> task[t].array = Short
                          /\ rt_task(task[t]) => task[t].array = rq.active
                          /\ task[t].state # "running" => t = curr
  BY DEF ArraysByPolicy
<1>1. TaskOk(Here, t, curr) /\ Here.task = task /\ Here.rq = rq
  BY IInvUse
<1> QED  BY <1>1 DEF TaskOk, Placed

(* In every reachable state a task is on exactly the list that its fields  *)
(* name, bitmaps and counters agree with the lists, and the array follows  *)
(* from the policy: what dequeue_task(), schedule() and sys_sched_yield()  *)
(* take for granted.                                                       *)
THEOREM RunqueueStaysConsistent == Spec => []RunqueueConsistent
<1>1. IInv => RunqueueConsistent
  BY InvTypes, InvCounts, InvPlaces DEF RunqueueConsistent
<1> QED  BY <1>1, QueuesStaySane, PTL

------------------------------------------------------------------------------
(* Who runs. *)
LEMMA BestIsBest ==
    ASSUME NEW S, NEW c \in Tasks \cup {Idle}, BestIn(S, c),
           S.task = task', S.rq = rq', c = curr'
    PROVE  CurrIsBest'
<1> SUFFICES ASSUME NEW t \in Tasks, task'[t].array # None PROVE ~Before(t, curr)'
  BY DEF CurrIsBest
<1>1. NotBefore(S, t, c)
  BY DEF BestIn
<1>2. t # Idle /\ c # Idle
  BY <1>1, TasksAssumption DEF NotBefore
<1>3. Class(t)' = ClassIn(S, t) /\ Class(curr)' = ClassIn(S, c)
  BY <1>2 DEF Class, ClassIn, rt_task
<1> QED  BY <1>1, <1>3 DEF Before, NotBefore

(* Only schedule() ends a pending call of schedule(). *)
LEMMA StaysPending ==
    ASSUME IInv, Next, ~Schedule, need_resched \/ calling
    PROVE  need_resched' \/ calling'
<1>1. CASE Tick
  BY <1>1 DEF Tick
<1>2. CASE Sleep \/ ExitTask \/ Yield
  BY <1>2 DEF Sleep, ExitTask, Yield
<1>3. ASSUME NEW t \in Tasks, Wake(t) PROVE need_resched' \/ calling'
  BY <1>3 DEF Wake
<1>4. ASSUME NEW t \in Tasks, Reap(t) PROVE need_resched' \/ calling'
  BY <1>4 DEF Reap
<1>5. ASSUME NEW c \in Tasks, NEW vfork \in BOOLEAN, Fork(c, vfork)
      PROVE  need_resched' \/ calling'
  BY <1>5 DEF Fork, InKernel
<1>6. ASSUME NEW t, SetPolicy(t) PROVE need_resched' \/ calling'
  <2>1. PICK policy, level, ticks, e : SetScheduler(t, policy, level, ticks, e)
    BY <1>6 DEF SetPolicy
  <2>2. ~calling /\ (need_resched' = (need_resched \/ policy = "SHORT"))
    BY <2>1 DEF SetScheduler, InKernel
  <2> QED  BY <2>2
<1>7. ASSUME NEW t, NEW new, SetUserNice(t, new) PROVE need_resched' \/ calling'
  BY <1>7 DEF SetUserNice, InKernel
<1> QED  BY <1>1, <1>2, <1>3, <1>4, <1>5, <1>6, <1>7 DEF Next

LEMMA Pending ==
    ASSUME IInv, [Next]_vars
    PROVE  /\ excused' = "no" /\ ~calling' /\ ~need_resched' => CurrIsBest'
           /\ PicksBest
<1>1. IInv'
  BY ScheduleKeeps, StepKeeps, StutterKeeps
<1>2. Inv(Here', curr', need_resched', calling', excused')
  BY <1>1 DEF IInv
<1>3. /\ Here'.task = task' /\ Here'.rq = rq' /\ curr' \in Tasks \cup {Idle}
      /\ need_resched' \in BOOLEAN /\ calling' \in BOOLEAN
      /\ excused' = "no" /\ ~calling' /\ ~need_resched' => BestIn(Here', curr')
  BY <1>2 DEF Inv, Here
<1>4. BestIn(Here', curr') => CurrIsBest'
  BY <1>3, BestIsBest
<1>5. ASSUME need_resched \/ calling, ~need_resched', ~calling' PROVE CurrIsBest'
  <2>1. CASE Schedule
    BY <1>4, <2>1, ScheduleKeeps
  <2>2. CASE ~Schedule /\ Next
    BY <1>5, <2>2, StaysPending
  <2>3. CASE UNCHANGED vars
    BY <1>5, <2>3 DEF vars
  <2> QED  BY <2>1, <2>2, <2>3
<1> QED  BY <1>3, <1>4, <1>5 DEF PicksBest

(* While no reschedule is pending no task has a better claim than the      *)
(* current one, but for the priorities changed without one; and schedule() *)
(* always switches to a task than which none has a better claim.           *)
THEOREM BestTaskRuns == Spec => PreemptionPending
<1>1. IInv /\ [Next]_vars =>
         [/\ excused' = "no" /\ ~calling' /\ ~need_resched' => CurrIsBest'
          /\ PicksBest]_vars
  BY Pending
<1> QED  BY <1>1, QueuesStaySane, PTL DEF Spec, PreemptionPending

(* Only a normal task that exists becomes SCHED_SHORT, as often as         *)
(* setscheduler() is called for it (sched.c:1249); while it is, its time   *)
(* never grows, and it becomes a normal task only when the time is used up *)
(* or when it is released.                                                 *)
THEOREM ShortOnlyExpires == Spec => ShortIsOneWay
<1> DEFINE Step == \A t \in Tasks :
                      /\ is_short(t) =>
                            \/ /\ task'[t].policy = "SHORT"
                               /\ task'[t].time_left <= task[t].time_left
                            \/ /\ task'[t].policy = "OTHER" /\ task'[t].time_left = 0
                               /\ t = curr \/ task[t].state = "zombie"
                      /\ is_short(t)' /\ ~is_short(t) =>
                            task[t].policy = "OTHER" /\ task[t].state # "free"
<1>1. ASSUME IInv, [Next]_vars, NEW u \in Tasks PROVE OneWay(task[u], task'[u], u)
  <2>1. CASE Schedule
    <3>1. /\ task'[u].policy = task[u].policy
          /\ task'[u].time_left = task[u].time_left
          /\ task[u] \in TaskType
      BY <1>1, <2>1, ScheduleKeeps, IInvUse
    <3> QED  BY <3>1, OneWaySame
  <2>2. CASE ~Schedule /\ Next
    BY <1>1, <2>2, StepKeeps
  <2>3. CASE UNCHANGED vars
    BY <1>1, <2>3, StutterKeeps
  <2> QED  BY <1>1, <2>1, <2>2, <2>3
<1>2. IInv /\ [Next]_vars => [Step]_vars
  <2> SUFFICES ASSUME IInv, [Next]_vars PROVE Step
    OBVIOUS
  <2>1. \A u \in Tasks : OneWay(task[u], task'[u], u)
    BY <1>1
  <2> QED  BY <2>1 DEF OneWay, is_short
<1> QED  BY <1>2, QueuesStaySane, PTL DEF Spec, ShortIsOneWay

------------------------------------------------------------------------------
(* The place of a short process. *)
LEMMA NoneAheadOfCurrent ==
    ASSUME IInv, curr \in Tasks, is_short(curr), ~calling, ~need_resched
    PROVE  AheadOf(curr) = {}
<1> SUFFICES ASSUME NEW u \in AheadOf(curr) PROVE FALSE
  OBVIOUS
<1>1. /\ Here.task = task /\ Here.rq = rq /\ curr # Idle
      /\ FirstIn(Here, curr) /\ Placed(Here, curr)
      /\ \A t \in Tasks : task[t] \in TaskType
  BY IInvUse, TasksAssumption
<1> DEFINE L == Level(task[curr])
           q == rq.arrays[Short].queue[L]
<1>2. /\ task[curr].array = Short
      /\ \A t \in Tasks : task[t].array = Short => L <= Level(task[t])
      /\ q # << >> /\ q[1] = curr
  BY <1>1, SMTT(60) DEF FirstIn, Placed, is_short
<1>3. /\ u \in Tasks /\ u # curr /\ task[u].array = Short
      /\ \/ Level(task[u]) < L
         \/ \E i, j \in DOMAIN q : i < j /\ q[i] = u /\ q[j] = curr
  BY <1>2 DEF AheadOf, Queued
<1>4. L \in Levels /\ Level(task[u]) \in Levels
  BY <1>1, <1>3, LevelIn
<1>5. L <= Level(task[u])
  BY <1>2, <1>3
<1>6. ~(Level(task[u]) < L)
  <2>1. \A n \in Levels : n \in Nat
    BY Numbers
  <2>2. L \in Nat /\ Level(task[u]) \in Nat
    BY <1>4, <2>1, SMTT(60)
  <2> QED  BY <1>5, <2>2
<1>7. PICK i \in DOMAIN q, j \in DOMAIN q : i < j /\ q[i] = u /\ q[j] = curr
  BY <1>3, <1>6
<1>8. List(q) /\ q \in Seq(Tasks)
  BY <1>4, Lists DEF Arrays
<1> HIDE DEF q
<1>9. DOMAIN q = 1 .. Len(q) /\ Len(q) \in Nat
  BY <1>8, LenProperties
<1>10. 1 \in 1 .. Len(q)
  BY <1>7, <1>9
<1>11. j = 1
  BY <1>2, <1>7, <1>8, <1>9, <1>10 DEF List, NoRepeats
<1> QED  BY <1>7, <1>9, <1>11

(* What the walk counts at one level. *)
AheadAt(t, k) == {u \in AheadOf(t) : Level(task[u]) = k}

LEMMA SeenIs ==
    ASSUME IInv, NEW t \in Tasks, is_short(t), NEW k \in Walked(t)
    PROVE  k \in Levels /\ Seen(t, k) = Cardinality(AheadAt(t, k))
<1> DEFINE L == Level(task[t])
           q == rq.arrays[Short].queue[k]
<1>1. /\ task[t] \in TaskType /\ L = task[t].short_prio /\ L \in Levels
  BY IInvUse, LevelIn DEF Level, is_short
<1>2. k \in Levels /\ k <= L /\ k \in Nat /\ L \in Nat
  BY <1>1, Numbers DEF Walked, Levels
<1>3. /\ List(q) /\ q \in Seq(Tasks)
      /\ \A u \in Tasks : In(q, u) <=> task[u].array = Short /\ Level(task[u]) = k
  BY <1>2, Lists DEF Arrays
<1>4. Len(q) \in Nat /\ DOMAIN q = 1 .. Len(q)
  BY <1>3, LenProperties
<1>5. Contains(q, t) <=> In(q, t)
  BY DEF Contains, In
<1>6. CASE In(q, t)
  <2> DEFINE I == {i \in 1 .. Len(q) : q[i] = t}
             n == SelectInSeq(q, LAMBDA u : u = t)
  <2>1. I # {} /\ I \in SUBSET Nat
    BY <1>4, <1>6 DEF In
  <2>2. n = Min(I)
    BY <2>1 DEF SelectInSeq
  <2>3. n \in 1 .. Len(q) /\ q[n] = t
    BY <2>1, <2>2, MinIsLeast
  <2>4. Seen(t, k) = n - 1
    BY <1>5, <1>6 DEF Seen
  <2> HIDE DEF n, I
  <2>5. k = L /\ task[t].array = Short
    BY <1>3, <1>6
  <2>6. n - 1 \in 0 .. Len(q)
    BY <1>4, <2>3
  <2> HIDE DEF L
  <2>7. AheadOf(t) = {u \in Queued(Short) \ {t} :
                        \/ Level(task[u]) < k
                        \/ /\ Level(task[u]) = k
                           /\ \E i, j \in 1 .. Len(q) : i < j /\ q[i] = u /\ q[j] = t}
    BY <1>4, <2>5, SMTT(60) DEF AheadOf, L
  <2> HIDE DEF q
  <2>8. ASSUME NEW u, u \in AheadAt(t, k) PROVE u \in Before1(q, n - 1)
    <3>1. u \in Tasks /\ Level(task[u]) = k /\ u \in AheadOf(t)
      BY <2>8 DEF AheadAt, AheadOf, Queued
    <3>2. PICK i \in 1 .. Len(q), j \in 1 .. Len(q) : i < j /\ q[i] = u /\ q[j] = t
      BY <1>2, <2>7, <3>1
    <3>3. j = n
      BY <1>3, <2>3, <3>2 DEF List, NoRepeats
    <3>4. i \in 1 .. n - 1
      BY <1>4, <2>3, <3>2, <3>3
    <3> QED  BY <3>1, <3>2, <3>4 DEF Before1
  <2>9. ASSUME NEW u, u \in Before1(q, n - 1) PROVE u \in AheadAt(t, k)
    <3>1. PICK i \in 1 .. n - 1 : q[i] = u
      BY <2>9 DEF Before1
    <3>2. u \in Tasks /\ i \in 1 .. Len(q) /\ i < n
      BY <1>4, <2>3, <2>9, <3>1 DEF Before1
    <3>3. In(q, u) /\ u # t
      BY <1>3, <2>3, <3>1, <3>2 DEF In, List, NoRepeats
    <3>4. task[u].array = Short /\ Level(task[u]) = k
      BY <1>3, <3>2, <3>3
    <3> QED  BY <2>3, <2>7, <3>1, <3>2, <3>3, <3>4 DEF AheadAt, Queued
  <2>10. AheadAt(t, k) = Before1(q, n - 1)
    BY <2>8, <2>9
  <2>11. Cardinality(Before1(q, n - 1)) = n - 1
    BY <1>3, <2>6, ListSize
  <2> QED  BY <1>2, <2>4, <2>10, <2>11
<1>7. CASE ~In(q, t)
  <2>1. Seen(t, k) = Len(q)
    BY <1>5, <1>7 DEF Seen
  <2>2. k = L => task[t].array # Short
    BY <1>3, <1>7
  <2>3. \A u : u \in AheadOf(t) /\ Level(task[u]) = k
                  <=> u \in Tasks /\ u # t /\ task[u].array = Short /\ Level(task[u]) = k
    <3> SUFFICES ASSUME NEW u \in Tasks, u # t, task[u].array = Short, Level(task[u]) = k
                 PROVE  u \in AheadOf(t)
      BY DEF AheadOf, Queued
    <3>1. k < L \/ k = L
      BY <1>2
    <3> QED  BY <2>2, <3>1 DEF AheadOf, Queued
  <2> HIDE DEF q
  <2>4. AheadAt(t, k) = Before1(q, Len(q))
    <3>1. \A u \in Tasks : u # t /\ In(q, u) <=> In(q, u)
      BY <1>7
    <3>2. \A u : u \in AheadAt(t, k) <=> u \in Tasks /\ In(q, u)
      BY <1>3, <1>7, <2>3 DEF AheadAt
    <3>3. \A u : u \in Before1(q, Len(q)) <=> u \in Tasks /\ In(q, u)
      BY DEF Before1, In
    <3> QED  BY <3>2, <3>3
  <2>5. Cardinality(Before1(q, Len(q))) = Len(q)
    <3>1. Len(q) \in 0 .. Len(q)
      BY <1>4
    <3> QED  BY <1>3, <3>1, ListSize
  <2> QED  BY <1>2, <2>1, <2>4, <2>5
<1> QED  BY <1>6, <1>7

LEMMA PlaceInQueue ==
    ASSUME IInv, NEW t \in Tasks, is_short(t), t = curr => ~calling /\ ~need_resched
    PROVE  short_place_in_queue(t) = Cardinality(AheadOf(t))
<1>1. CASE t = curr
  <2>1. AheadOf(t) = {}
    BY <1>1, NoneAheadOfCurrent
  <2> QED  BY <1>1, <2>1, FS_EmptySet DEF short_place_in_queue
<1>2. CASE t # curr
  <2> DEFINE f == [k \in Walked(t) |-> AheadAt(t, k)]
  <2>1. \A k \in Walked(t) : k \in Levels /\ Seen(t, k) = Cardinality(AheadAt(t, k))
    BY SeenIs
  <2>2. task[t] \in TaskType /\ Level(task[t]) = task[t].short_prio
        /\ task[t].short_prio \in Levels
    <3>1. task[t] \in TaskType
      BY IInvUse
    <3> QED  BY <3>1 DEF TaskType, Level, is_short
  <2>3. IsFiniteSet(Walked(t)) /\ Walked(t) \subseteq Levels
    BY <2>1, <2>2, LevelsFinite DEF Walked
  <2>4. /\ f \in [Walked(t) -> SUBSET Tasks]
        /\ \A k \in Walked(t) : Seen(t, k) = Cardinality(f[k])
        /\ \A j, k \in Walked(t) : j # k => f[j] \cap f[k] = {}
    <3>1. AheadOf(t) \subseteq Tasks
      BY DEF AheadOf, Queued
    <3> QED  BY <2>1, <3>1 DEF AheadAt
  <2>5. All(f, Walked(t)) = AheadOf(t)
    <3>1. ASSUME NEW u \in AheadOf(t) PROVE Level(task[u]) \in Walked(t)
      <4>1. u \in Tasks /\ \/ Level(task[u]) < Level(task[t])
                           \/ Level(task[u]) = Level(task[t])
        BY DEF AheadOf, Queued
      <4>2. Level(task[u]) \in Levels
        BY <4>1, IInvUse, LevelIn
      <4> QED  BY <2>2, <4>1, <4>2, Numbers DEF Walked, Levels
    <3> QED  BY <3>1 DEF All, AheadAt
  <2> HIDE DEF f
  <2>6. short_place_in_queue(t) = Cardinality(All(f, Walked(t)))
    BY <1>2, <2>3, <2>4, WalkAdds
  <2> QED  BY <2>5, <2>6
<1> QED  BY <1>1, <1>2

(* short_place_in_queue() answers how many short processes are picked      *)
(* before the one that is asked for, if none comes or goes.                *)
THEOREM PlaceStaysExact == Spec => []PlaceIsExact
<1>1. IInv => PlaceIsExact
  BY PlaceInQueue DEF PlaceIsExact
<1> QED  BY <1>1, QueuesStaySane, PTL
==============================================================================
