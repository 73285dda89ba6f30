----------------------------- MODULE MallocProofs -----------------------------
(***************************************************************************)
(* Proofs about the two allocators of HW4, for a heap, a node and requests *)
(* of any size: the list of blocks tiles the memory, the statistics are    *)
(* those of a walk over the list, callers own disjoint blocks in use, and  *)
(* both allocators implement Allocator.                                    *)
(***************************************************************************)
EXTENDS Malloc3, FiniteSetTheorems, SequenceTheorems, WellFoundedInduction, TLAPS

------------------------------------------------------------------------------
(* The sum that MapThenSumSet computes: it takes one element, Pick, after  *)
(* the other.                                                              *)
Pick(S) == CHOOSE b \in S : TRUE
Body(g, S) == [T \in SUBSET S |->
                  IF T = {} THEN 0 ELSE Pick(T).size + g[T \ {Pick(T)}]]
Sums(g, S) == g = Body(g, S)

LEMMA BytesAreSums ==
    ASSUME NEW S
    PROVE  BytesOf(S) = (CHOOSE g : Sums(g, S))[S]
BY DEF BytesOf, MapThenSumSet, MapThenFoldSet, Sums, Body, Pick

LEMMA SmallestSet ==
    ASSUME NEW S, IsFiniteSet(S), NEW Bad \in SUBSET (SUBSET S), Bad # {}
    PROVE  \E T \in Bad : \A U \in SUBSET T : U # T => U \notin Bad
<1>1. Bad \subseteq FiniteSubsetsOf(S)
  BY FS_Subset DEF FiniteSubsetsOf
<1>2. PICK T \in Bad : \A U \in Bad : ~(<<U, T>> \in StrictSubsetOrdering(S))
  BY <1>1, FS_StrictSubsetOrderingWellFounded, WFMin
<1>3. \A U \in SUBSET T : U # T /\ U \in Bad => <<U, T>> \in StrictSubsetOrdering(S)
  BY DEF StrictSubsetOrdering
<1>4. \A U \in SUBSET T : U # T => U \notin Bad
  BY <1>2, <1>3
<1> QED  BY <1>4

LEMMA PickIn == \A T : T # {} => Pick(T) \in T
BY DEF Pick

LEMMA SumsAgree ==
    ASSUME NEW S, IsFiniteSet(S), NEW R \in SUBSET S, NEW g, NEW h, Sums(g, S), Sums(h, R)
    PROVE  \A T \in SUBSET R : g[T] = h[T]
<1> DEFINE Bad == {T \in SUBSET R : g[T] # h[T]}
<1>1. SUFFICES ASSUME Bad # {} PROVE FALSE
  OBVIOUS
<1>2. IsFiniteSet(R)
  BY FS_Subset
<1> HIDE DEF Bad
<1>3. PICK T \in Bad : \A U \in SUBSET T : U # T => U \notin Bad
  <2>1. Bad \in SUBSET (SUBSET R)
    BY DEF Bad
  <2> QED  BY <1>1, <1>2, <2>1, SmallestSet
<1> USE DEF Bad
<1>4. T # {}
  <2>1. g[{}] = 0 /\ h[{}] = 0
    BY DEF Sums, Body
  <2> QED  BY <2>1
<1>5. Pick(T) \in T
  BY <1>4, PickIn
<1>6. g[T \ {Pick(T)}] = h[T \ {Pick(T)}]
  BY <1>3, <1>5
<1>7. /\ g[T] = Pick(T).size + g[T \ {Pick(T)}]
      /\ h[T] = Pick(T).size + h[T \ {Pick(T)}]
  BY <1>4 DEF Sums, Body
<1> QED  BY <1>6, <1>7

LEMMA SumsExist ==
    ASSUME NEW S, IsFiniteSet(S), \A b \in S : b.size \in Int
    PROVE  \E g \in [SUBSET S -> Int] : Sums(g, S)
<1> DEFINE Good(T) == \E g \in [SUBSET T -> Int] : Sums(g, T)
           Bad == {T \in SUBSET S : ~Good(T)}
<1>1. SUFFICES ASSUME Bad # {} PROVE FALSE
  BY DEF Good
<1> HIDE DEF Bad
<1>2. PICK T \in Bad : \A U \in SUBSET T : U # T => U \notin Bad
  <2>1. Bad \in SUBSET (SUBSET S)
    BY DEF Bad
  <2> QED  BY <1>1, <2>1, SmallestSet
<1> USE DEF Bad
<1> DEFINE sum(U) == CHOOSE g \in [SUBSET U -> Int] : Sums(g, U)
           rest == T \ {Pick(T)}
           g == [U \in SUBSET T |-> IF U # T THEN sum(U)[U]
                                    ELSE IF T = {} THEN 0
                                    ELSE Pick(T).size + sum(rest)[rest]]
<1>3. \A U \in SUBSET T : U # T => sum(U) \in [SUBSET U -> Int] /\ Sums(sum(U), U)
  <2> SUFFICES ASSUME NEW U \in SUBSET T, U # T
               PROVE  sum(U) \in [SUBSET U -> Int] /\ Sums(sum(U), U)
    OBVIOUS
  <2>1. Good(U)
    BY <1>2
  <2> QED  BY <2>1 DEF Good
<1> HIDE DEF sum
<1>4. T # {} => Pick(T) \in T /\ rest \in SUBSET T /\ rest # T
  BY PickIn
<1>5. g \in [SUBSET T -> Int]
  <2>1. \A U \in SUBSET T : U # T => sum(U)[U] \in Int
    BY <1>3
  <2>2. T # {} => Pick(T).size + sum(rest)[rest] \in Int
    BY <1>4, <2>1
  <2> QED  BY <2>1, <2>2
<1>6. ASSUME NEW U \in SUBSET T
      PROVE  g[U] = IF U = {} THEN 0 ELSE Pick(U).size + g[U \ {Pick(U)}]
  <2>1. CASE U = T
    BY <1>4, <2>1
  <2>2. CASE U # T
    <3>1. g[U] = sum(U)[U] /\ Sums(sum(U), U)
      BY <1>3, <2>2
    <3>2. U = {} => g[U] = 0
      BY <3>1 DEF Sums, Body
    <3>3. ASSUME U # {} PROVE g[U] = Pick(U).size + g[U \ {Pick(U)}]
      <4> DEFINE V == U \ {Pick(U)}
      <4>1. V \in SUBSET U /\ V \in SUBSET T /\ V # T
        BY <2>2, <3>3, PickIn
      <4>2. IsFiniteSet(U)
        BY FS_Subset
      <4>3. sum(U)[V] = sum(V)[V]
        <5>1. Sums(sum(V), V) /\ V \in SUBSET V
          BY <1>3, <4>1
        <5> HIDE DEF V
        <5>2. \A W \in SUBSET V : sum(U)[W] = sum(V)[W]
          BY <3>1, <4>1, <4>2, <5>1, SumsAgree
        <5> QED  BY <5>1, <5>2
      <4>4. sum(U)[U] = Pick(U).size + sum(U)[V]
        BY <3>1, <3>3 DEF Sums, Body
      <4> QED  BY <3>1, <4>1, <4>3, <4>4
    <3> QED  BY <3>2, <3>3
  <2> QED  BY <2>1, <2>2
<1>7. Sums(g, T)
  <2>1. DOMAIN g = SUBSET T /\ g = [U \in DOMAIN g |-> g[U]]
    OBVIOUS
  <2> HIDE DEF g
  <2> QED  BY <1>6, <2>1 DEF Sums, Body
<1> QED  BY <1>2, <1>5, <1>7

(* What a sum is and how it changes. *)
LEMMA SumOf ==
    ASSUME NEW S, IsFiniteSet(S), NEW g, Sums(g, S)
    PROVE  BytesOf(S) = g[S]
<1> DEFINE h == CHOOSE f : Sums(f, S)
<1>1. Sums(h, S)
  OBVIOUS
<1> HIDE DEF h
<1>2. h[S] = g[S]
  BY <1>1, SumsAgree
<1> QED  BY <1>2, BytesAreSums DEF h

Splits(g, T) == \A b \in T : g[T] = b.size + g[T \ {b}]

LEMMA AnyOrder ==
    ASSUME NEW S, IsFiniteSet(S), \A b \in S : b.size \in Int,
           NEW g, g \in [SUBSET S -> Int], Sums(g, S)
    PROVE  \A T \in SUBSET S : Splits(g, T)
<1> DEFINE Bad == {T \in SUBSET S : ~Splits(g, T)}
<1>1. SUFFICES ASSUME Bad # {} PROVE FALSE
  OBVIOUS
<1> HIDE DEF Bad
<1>2. PICK T \in Bad : \A U \in SUBSET T : U # T => U \notin Bad
  <2>1. Bad \in SUBSET (SUBSET S)
    BY DEF Bad
  <2> QED  BY <1>1, <2>1, SmallestSet
<1> USE DEF Bad
<1>3. PICK b \in T : g[T] # b.size + g[T \ {b}]
  BY <1>2 DEF Splits
<1> DEFINE c == Pick(T)
<1>4. c \in T
  BY <1>3, PickIn
<1>5. g[T] = c.size + g[T \ {c}]
  BY <1>3 DEF Sums, Body
<1>6. b # c
  BY <1>3, <1>5
<1> HIDE DEF c
<1>7. g[T \ {c}] = b.size + g[(T \ {c}) \ {b}]
  BY <1>2, <1>4, <1>6 DEF Splits
<1>8. g[T \ {b}] = c.size + g[(T \ {b}) \ {c}]
  BY <1>2, <1>4, <1>6 DEF Splits
<1>9. (T \ {c}) \ {b} = (T \ {b}) \ {c}
  OBVIOUS
<1> DEFINE rest == g[(T \ {c}) \ {b}]
<1>10. /\ b.size \in Int /\ c.size \in Int /\ rest \in Int
  BY <1>4
<1>11. g[T \ {b}] = c.size + rest /\ g[T] = c.size + (b.size + rest)
  BY <1>5, <1>7, <1>8, <1>9
<1> HIDE DEF rest
<1>12. g[T] = b.size + g[T \ {b}]
  BY <1>10, <1>11
<1> QED  BY <1>3, <1>12

LEMMA BytesOfEmpty == BytesOf({}) = 0
<1>1. PICK g : Sums(g, {})
  BY FS_EmptySet, SumsExist
<1>2. g[{}] = 0
  BY <1>1 DEF Sums, Body
<1> QED  BY <1>1, <1>2, FS_EmptySet, SumOf

LEMMA BytesOfLess ==
    ASSUME NEW S, IsFiniteSet(S), \A b \in S : b.size \in Int, NEW x \in S
    PROVE  /\ BytesOf(S) \in Int /\ BytesOf(S \ {x}) \in Int
           /\ BytesOf(S) = x.size + BytesOf(S \ {x})
<1>1. PICK g \in [SUBSET S -> Int] : Sums(g, S)
  BY SumsExist
<1>2. g[S] = x.size + g[S \ {x}]
  <2>1. g \in [SUBSET S -> Int] /\ Sums(g, S)
    BY <1>1
  <2>2. Splits(g, S)
    BY <2>1, AnyOrder
  <2> QED  BY <2>2 DEF Splits
<1>3. IsFiniteSet(S \ {x})
  BY FS_Subset
<1>4. PICK h \in [SUBSET (S \ {x}) -> Int] : Sums(h, S \ {x})
  BY <1>3, SumsExist
<1>5. BytesOf(S) = g[S] /\ BytesOf(S \ {x}) = h[S \ {x}]
  BY <1>1, <1>3, <1>4, SumOf
<1>6. g[S \ {x}] = h[S \ {x}]
  BY <1>1, <1>4, SumsAgree
<1> QED  BY <1>2, <1>5, <1>6

LEMMA BytesOfMore ==
    ASSUME NEW S, IsFiniteSet(S), \A b \in S : b.size \in Int,
           NEW x, x \notin S, x.size \in Int
    PROVE  /\ BytesOf(S) \in Int
           /\ BytesOf(S \cup {x}) = BytesOf(S) + x.size
<1> DEFINE T == S \cup {x}
<1>1. IsFiniteSet(T) /\ \A b \in T : b.size \in Int
  BY FS_AddElement
<1>2. x \in T /\ T \ {x} = S
  OBVIOUS
<1> HIDE DEF T
<1>3. /\ BytesOf(T) \in Int /\ BytesOf(T \ {x}) \in Int
      /\ BytesOf(T) = x.size + BytesOf(T \ {x})
  BY <1>1, <1>2, BytesOfLess
<1>4. BytesOf(T \ {x}) = BytesOf(S)
  BY <1>2
<1>5. BytesOf(S) \in Int /\ BytesOf(T) = BytesOf(S) + x.size
  BY <1>3, <1>4
<1> QED  BY <1>5 DEF T

LEMMA BytesOfNat ==
    ASSUME NEW S, IsFiniteSet(S), \A b \in S : b.size \in Nat
    PROVE  BytesOf(S) \in Nat
<1> DEFINE Bad == {T \in SUBSET S : BytesOf(T) \notin Nat}
<1>1. SUFFICES ASSUME Bad # {} PROVE FALSE
  OBVIOUS
<1> HIDE DEF Bad
<1>2. PICK T \in Bad : \A U \in SUBSET T : U # T => U \notin Bad
  <2>1. Bad \in SUBSET (SUBSET S)
    BY DEF Bad
  <2> QED  BY <1>1, <2>1, SmallestSet
<1>3. T \in SUBSET S /\ BytesOf(T) \notin Nat
  BY DEF Bad
<1>4. T # {}
  BY <1>3, BytesOfEmpty
<1>5. PICK x \in T : TRUE
  BY <1>4
<1>6. IsFiniteSet(T) /\ \A b \in T : b.size \in Int
  BY <1>3, FS_Subset
<1>7. BytesOf(T) = x.size + BytesOf(T \ {x})
  BY <1>6, BytesOfLess
<1>8. BytesOf(T \ {x}) \in Nat
  BY <1>2, <1>3 DEF Bad
<1>9. x.size \in Nat
  BY <1>3
<1> QED  BY <1>3, <1>7, <1>8, <1>9

(* One block in the place of another. *)
LEMMA BytesOfSwap ==
    ASSUME NEW S, IsFiniteSet(S), \A b \in S : b.size \in Int,
           NEW x \in S, NEW y, y.size \in Int, y \notin S \ {x}
    PROVE  /\ BytesOf(S) \in Int
           /\ BytesOf((S \ {x}) \cup {y}) = BytesOf(S) - x.size + y.size
<1> DEFINE R == S \ {x}
<1>1. /\ IsFiniteSet(R) /\ \A b \in R : b.size \in Int
      /\ x.size \in Int /\ y \notin R
  BY FS_RemoveElement
<1>2. /\ BytesOf(S) \in Int /\ BytesOf(R) \in Int
      /\ BytesOf(S) = x.size + BytesOf(R)
  BY BytesOfLess
<1> HIDE DEF R
<1>3. BytesOf(R \cup {y}) = BytesOf(R) + y.size
  BY <1>1, BytesOfMore
<1>4. BytesOf(R \cup {y}) = BytesOf(S) - x.size + y.size
  BY <1>1, <1>2, <1>3
<1> QED  BY <1>2, <1>4 DEF R

------------------------------------------------------------------------------
(* The statistics of a set of blocks: how many are free, the bytes of the  *)
(* free ones, and the bytes of all.                                        *)
AnyBlock == [start : Int, size : Int, is_freed : BOOLEAN]
FreeIn(B) == {b \in B : b.is_freed}

Totals(B, count, free, all) ==
    /\ IsFiniteSet(B) /\ B \subseteq AnyBlock
    /\ count = Cardinality(FreeIn(B)) /\ free = BytesOf(FreeIn(B)) /\ all = BytesOf(B)
    /\ count \in Int /\ free \in Int /\ all \in Int

One(b) == IF b.is_freed THEN 1 ELSE 0
FreeSize(b) == IF b.is_freed THEN b.size ELSE 0

LEMMA NoTotals == Totals({}, 0, 0, 0)
<1>1. FreeIn({}) = {}
  BY DEF FreeIn
<1> QED  BY <1>1, FS_EmptySet, BytesOfEmpty DEF Totals

LEMMA TotalsLess ==
    ASSUME NEW B, NEW count, NEW free, NEW all, Totals(B, count, free, all), NEW x \in B
    PROVE  Totals(B \ {x}, count - One(x), free - FreeSize(x), all - x.size)
<1>1. /\ IsFiniteSet(B) /\ \A b \in B : b.size \in Int
      /\ count \in Int /\ free \in Int /\ all \in Int
  BY DEF Totals, AnyBlock
<1>2. IsFiniteSet(FreeIn(B)) /\ \A b \in FreeIn(B) : b.size \in Int
  BY <1>1, FS_Subset DEF FreeIn
<1>3. IsFiniteSet(B \ {x}) /\ BytesOf(B \ {x}) = all - x.size /\ x.size \in Int
  <2>1. BytesOf(B \ {x}) \in Int /\ BytesOf(B) = x.size + BytesOf(B \ {x})
    BY <1>1, BytesOfLess
  <2> QED  BY <1>1, <2>1, FS_RemoveElement DEF Totals
<1>4. CASE x.is_freed
  <2>1. x \in FreeIn(B) /\ FreeIn(B \ {x}) = FreeIn(B) \ {x}
    BY <1>4 DEF FreeIn
  <2>2. Cardinality(FreeIn(B) \ {x}) = Cardinality(FreeIn(B)) - 1
    BY <1>2, <2>1, FS_RemoveElement
  <2>3. /\ BytesOf(FreeIn(B) \ {x}) \in Int
        /\ BytesOf(FreeIn(B)) = x.size + BytesOf(FreeIn(B) \ {x})
    BY <1>2, <2>1, BytesOfLess
  <2>4. One(x) = 1 /\ FreeSize(x) = x.size
    BY <1>4 DEF One, FreeSize
  <2>5. /\ Cardinality(FreeIn(B \ {x})) = count - 1
        /\ BytesOf(FreeIn(B \ {x})) = BytesOf(FreeIn(B) \ {x})
    BY <2>1, <2>2 DEF Totals
  <2>6. BytesOf(FreeIn(B \ {x})) = free - x.size
    BY <1>3, <2>3, <2>5 DEF Totals
  <2> QED  BY <1>1, <1>3, <2>4, <2>5, <2>6 DEF Totals
<1>5. CASE ~x.is_freed
  <2>1. FreeIn(B \ {x}) = FreeIn(B) /\ One(x) = 0 /\ FreeSize(x) = 0
    BY <1>5 DEF FreeIn, One, FreeSize
  <2> QED  BY <1>1, <1>3, <2>1 DEF Totals
<1> QED  BY <1>4, <1>5

LEMMA TotalsMore ==
    ASSUME NEW B, NEW count, NEW free, NEW all, Totals(B, count, free, all),
           NEW x \in AnyBlock, x \notin B
    PROVE  Totals(B \cup {x}, count + One(x), free + FreeSize(x), all + x.size)
<1>1. /\ IsFiniteSet(B) /\ \A b \in B : b.size \in Int
      /\ count \in Int /\ free \in Int /\ all \in Int /\ x.size \in Int
  BY DEF Totals, AnyBlock
<1>2. IsFiniteSet(FreeIn(B)) /\ (\A b \in FreeIn(B) : b.size \in Int) /\ x \notin FreeIn(B)
  BY <1>1, FS_Subset DEF FreeIn
<1>3. IsFiniteSet(B \cup {x}) /\ BytesOf(B \cup {x}) = all + x.size
  BY <1>1, FS_AddElement, BytesOfMore DEF Totals
<1>4. CASE x.is_freed
  <2>1. FreeIn(B \cup {x}) = FreeIn(B) \cup {x}
    BY <1>4 DEF FreeIn
  <2>2. Cardinality(FreeIn(B) \cup {x}) = Cardinality(FreeIn(B)) + 1
    BY <1>2, FS_AddElement
  <2>3. BytesOf(FreeIn(B) \cup {x}) = BytesOf(FreeIn(B)) + x.size
    BY <1>1, <1>2, BytesOfMore
  <2>4. One(x) = 1 /\ FreeSize(x) = x.size
    BY <1>4 DEF One, FreeSize
  <2>5. /\ Cardinality(FreeIn(B \cup {x})) = count + 1
        /\ BytesOf(FreeIn(B \cup {x})) = free + x.size
    BY <2>1, <2>2, <2>3 DEF Totals
  <2> QED  BY <1>1, <1>3, <2>4, <2>5 DEF Totals
<1>5. CASE ~x.is_freed
  <2>1. FreeIn(B \cup {x}) = FreeIn(B) /\ One(x) = 0 /\ FreeSize(x) = 0
    BY <1>5 DEF FreeIn, One, FreeSize
  <2> QED  BY <1>1, <1>3, <2>1 DEF Totals
<1> QED  BY <1>4, <1>5

(* One block in the place of another, two, or one in the place of two. *)
LEMMA TotalsSwap ==
    ASSUME NEW B, NEW count, NEW free, NEW all, Totals(B, count, free, all),
           NEW x \in B, NEW y \in AnyBlock, y \notin B \ {x}
    PROVE  Totals((B \ {x}) \cup {y}, count - One(x) + One(y),
                  free - FreeSize(x) + FreeSize(y), all - x.size + y.size)
<1>1. Totals(B \ {x}, count - One(x), free - FreeSize(x), all - x.size)
  BY TotalsLess
<1> QED  BY <1>1, TotalsMore

LEMMA TotalsCut ==
    ASSUME NEW B, NEW count, NEW free, NEW all, Totals(B, count, free, all),
           NEW x \in B, NEW y \in AnyBlock, NEW z \in AnyBlock, y # z,
           y \notin B \ {x}, z \notin B \ {x}
    PROVE  Totals(((B \ {x}) \cup {y}) \cup {z}, count - One(x) + One(y) + One(z),
                  free - FreeSize(x) + FreeSize(y) + FreeSize(z),
                  all - x.size + y.size + z.size)
<1>1. Totals((B \ {x}) \cup {y}, count - One(x) + One(y),
             free - FreeSize(x) + FreeSize(y), all - x.size + y.size)
  BY TotalsSwap
<1>2. z \notin (B \ {x}) \cup {y}
  OBVIOUS
<1> QED  BY <1>1, <1>2, TotalsMore

LEMMA TotalsJoin ==
    ASSUME NEW B, NEW count, NEW free, NEW all, Totals(B, count, free, all),
           NEW x \in B, NEW y \in B, x # y, NEW z \in AnyBlock, z \notin B \ {x, y}
    PROVE  Totals(((B \ {x}) \ {y}) \cup {z}, count - One(x) - One(y) + One(z),
                  free - FreeSize(x) - FreeSize(y) + FreeSize(z),
                  all - x.size - y.size + z.size)
<1>1. Totals(B \ {x}, count - One(x), free - FreeSize(x), all - x.size)
  BY TotalsLess
<1>2. y \in B \ {x} /\ z \notin (B \ {x}) \ {y}
  OBVIOUS
<1> QED  BY <1>1, <1>2, TotalsSwap

------------------------------------------------------------------------------
(* What the operations on sequences do to each place. *)
LEMMA RemovePlaces ==
    ASSUME NEW X, NEW l \in Seq(X), NEW i \in 1 .. Len(l)
    PROVE  /\ RemoveAt(l, i) \in Seq(X)
           /\ Len(RemoveAt(l, i)) = Len(l) - 1
           /\ \A k \in 1 .. Len(l) - 1 :
                 RemoveAt(l, i)[k] = IF k < i THEN l[k] ELSE l[k + 1]
<1> DEFINE below == SubSeq(l, 1, i - 1)
           above == SubSeq(l, i + 1, Len(l))
<1>1. /\ below \in Seq(X) /\ Len(below) = i - 1
      /\ \A k \in 1 .. i - 1 : below[k] = l[k]
  OBVIOUS
<1>2. /\ above \in Seq(X) /\ Len(above) = Len(l) - i
      /\ \A k \in 1 .. Len(l) - i : above[k] = l[i + k]
  OBVIOUS
<1> HIDE DEF below, above
<1>3. /\ below \o above \in Seq(X) /\ Len(below \o above) = Len(l) - 1
      /\ \A k \in 1 .. Len(l) - 1 :
            (below \o above)[k] = IF k < i THEN below[k] ELSE above[k - (i - 1)]
  <2>1. /\ below \o above \in Seq(X)
        /\ Len(below \o above) = Len(below) + Len(above)
        /\ \A k \in 1 .. Len(below) + Len(above) :
              (below \o above)[k] = IF k <= Len(below) THEN below[k]
                                    ELSE above[k - Len(below)]
    BY <1>1, <1>2, ConcatProperties
  <2> QED  BY <1>1, <1>2, <2>1
<1>4. \A k \in 1 .. Len(l) - 1 : (below \o above)[k] = IF k < i THEN l[k] ELSE l[k + 1]
  BY <1>1, <1>2, <1>3
<1> QED  BY <1>3, <1>4 DEF RemoveAt, below, above

LEMMA RangeOf ==
    ASSUME NEW X, NEW l \in Seq(X)
    PROVE  /\ Range(l) = {l[k] : k \in 1 .. Len(l)}
           /\ Range(l) \subseteq X
           /\ IsFiniteSet(Range(l))
<1>1. DOMAIN l = 1 .. Len(l)
  OBVIOUS
<1>2. Range(l) = {l[k] : k \in 1 .. Len(l)} /\ Range(l) \subseteq X
  BY <1>1 DEF Range
<1>3. l \in Surjection(1 .. Len(l), Range(l))
  BY <1>1, <1>2 DEF Surjection
<1>4. IsFiniteSet(1 .. Len(l))
  BY FS_Interval
<1> QED  BY <1>2, <1>3, <1>4, FS_Surjection

------------------------------------------------------------------------------
(* A list of blocks that lie behind each other up to end. *)
Laid(l, end) ==
    /\ l \in Seq(Blocks) /\ end \in Nat
    /\ \A i, j \in 1 .. Len(l) : i < j => l[i].start + l[i].size + Meta <= l[j].start
    /\ \A i \in 1 .. Len(l) - 1 : l[i + 1].start = l[i].start + l[i].size + Meta
    /\ Len(l) > 0 => l[1].start = Meta /\ l[Len(l)].start + l[Len(l)].size = end
    /\ Len(l) = 0 => end = 0

Distinct(l) == \A i, j \in 1 .. Len(l) : l[i].start = l[j].start => i = j

LEMMA BlockParts ==
    \A b \in Blocks : /\ b.start \in Nat /\ b.size \in Nat /\ b.is_freed \in BOOLEAN
                      /\ b \in AnyBlock
BY DEF Blocks, AnyBlock

LEMMA LaidDistinct ==
    ASSUME NEW l, NEW end, Laid(l, end)
    PROVE  /\ Distinct(l)
           /\ \A i \in 1 .. Len(l) : l[i] \in Blocks /\ l[i].start + l[i].size <= end
<1> USE MetaAssumption, BlockParts
<1>1. /\ Len(l) \in Nat
      /\ \A i \in 1 .. Len(l) : l[i] \in Blocks /\ l[i].start \in Nat /\ l[i].size \in Nat
  BY DEF Laid
<1>2. \A i, j \in 1 .. Len(l) : i < j => l[i].start < l[j].start
  <2> SUFFICES ASSUME NEW i \in 1 .. Len(l), NEW j \in 1 .. Len(l), i < j
               PROVE  l[i].start < l[j].start
    OBVIOUS
  <2>1. l[i].start + l[i].size + Meta <= l[j].start
    BY DEF Laid
  <2>2. Meta > 0 /\ Meta \in Nat
    OBVIOUS
  <2> QED  BY <1>1, <2>1, <2>2
<1>3. Distinct(l)
  <2> SUFFICES ASSUME NEW i \in 1 .. Len(l), NEW j \in 1 .. Len(l),
                      l[i].start = l[j].start, i # j
               PROVE  FALSE
    BY DEF Distinct
  <2>1. i < j \/ j < i
    BY <1>1
  <2> QED  BY <1>1, <1>2, <2>1
<1>4. ASSUME NEW i \in 1 .. Len(l) PROVE l[i].start + l[i].size <= end
  <2>1. Len(l) \in 1 .. Len(l) /\ l[Len(l)].start + l[Len(l)].size = end
    BY DEF Laid
  <2>2. CASE i = Len(l)
    BY <1>1, <2>1, <2>2
  <2>3. CASE i # Len(l)
    <3>1. l[i].start + l[i].size + Meta <= l[Len(l)].start
      <4>1. i < Len(l)
        BY <1>1, <2>3
      <4> QED  BY <2>1, <4>1 DEF Laid
    <3> QED  BY <1>1, <2>1, <3>1, SMTT(60)
  <2> QED  BY <2>2, <2>3
<1> QED  BY <1>1, <1>3, <1>4

(* One block is changed, ... *)
Swapped(m, l, i, b) ==
    /\ m \in Seq(Blocks) /\ l \in Seq(Blocks) /\ Len(m) = Len(l)
    /\ i \in 1 .. Len(l) /\ b \in Blocks /\ b.start = l[i].start
    /\ \A k \in 1 .. Len(l) : m[k] = IF k = i THEN b ELSE l[k]

LEMMA RangeSwapped ==
    ASSUME NEW m, NEW l, NEW i, NEW b, Swapped(m, l, i, b), Distinct(l)
    PROVE  /\ Range(m) = (Range(l) \ {l[i]}) \cup {b}
           /\ l[i] \in Range(l) /\ b \notin Range(l) \ {l[i]}
<1>1. /\ m \in Seq(Blocks) /\ Len(m) = Len(l) /\ l \in Seq(Blocks)
      /\ i \in 1 .. Len(l) /\ b.start = l[i].start
      /\ \A k \in 1 .. Len(l) : m[k] = IF k = i THEN b ELSE l[k]
  BY DEF Swapped
<1>2. Range(m) = {m[k] : k \in 1 .. Len(l)} /\ Range(l) = {l[k] : k \in 1 .. Len(l)}
  BY <1>1, RangeOf
<1>3. \A k \in 1 .. Len(l) : l[k] = l[i] => k = i
  BY <1>1 DEF Distinct
<1>4. b \notin Range(l) \ {l[i]}
  BY <1>1, <1>2 DEF Distinct
<1>5. Range(m) = (Range(l) \ {l[i]}) \cup {b}
  BY <1>1, <1>2, <1>3
<1> QED  BY <1>1, <1>2, <1>4, <1>5

LEMMA LaidSwapped ==
    ASSUME NEW m, NEW l, NEW i, NEW b, Swapped(m, l, i, b), NEW end, Laid(l, end),
           b.size = l[i].size
    PROVE  Laid(m, end)
<1>1. /\ m \in Seq(Blocks) /\ Len(m) = Len(l)
      /\ \A k \in 1 .. Len(l) : m[k].start = l[k].start /\ m[k].size = l[k].size
  BY DEF Swapped
<1> QED  BY <1>1 DEF Laid

(* ... or put between others, ... *)
Opened(m, l, i, b) ==
    /\ m \in Seq(Blocks) /\ l \in Seq(Blocks) /\ Len(m) = Len(l) + 1
    /\ i \in 1 .. Len(l) + 1 /\ b \in Blocks
    /\ \A k \in 1 .. Len(l) + 1 :
          m[k] = IF k < i THEN l[k] ELSE IF k = i THEN b ELSE l[k - 1]

LEMMA OpenedAt ==
    ASSUME NEW l \in Seq(Blocks), NEW i \in 1 .. Len(l) + 1, NEW b \in Blocks
    PROVE  Opened(InsertAt(l, i, b), l, i, b)
<1> DEFINE below == SubSeq(l, 1, i - 1)
           above == SubSeq(l, i, Len(l))
           up == below \o <<b>>
<1>1. /\ below \in Seq(Blocks) /\ Len(below) = i - 1
      /\ \A k \in 1 .. i - 1 : below[k] = l[k]
  OBVIOUS
<1>2. /\ above \in Seq(Blocks) /\ Len(above) = Len(l) - i + 1
      /\ \A k \in 1 .. Len(l) - i + 1 : above[k] = l[i + k - 1]
  OBVIOUS
<1> HIDE DEF below, above
<1>3. /\ up \in Seq(Blocks) /\ Len(up) = i
      /\ \A k \in 1 .. i : up[k] = IF k < i THEN below[k] ELSE b
  BY <1>1
<1> HIDE DEF up
<1>4. /\ up \o above \in Seq(Blocks) /\ Len(up \o above) = Len(l) + 1
      /\ \A k \in 1 .. Len(l) + 1 :
            (up \o above)[k] = IF k <= i THEN up[k] ELSE above[k - i]
  <2>1. /\ up \o above \in Seq(Blocks)
        /\ Len(up \o above) = Len(up) + Len(above)
        /\ \A k \in 1 .. Len(up) + Len(above) :
              (up \o above)[k] = IF k <= Len(up) THEN up[k] ELSE above[k - Len(up)]
    BY <1>2, <1>3, ConcatProperties
  <2> QED  BY <1>2, <1>3, <2>1
<1>5. \A k \in 1 .. Len(l) + 1 :
          (up \o above)[k] = IF k < i THEN l[k] ELSE IF k = i THEN b ELSE l[k - 1]
  BY <1>1, <1>2, <1>3, <1>4, SMTT(60)
<1>6. Opened(up \o above, l, i, b)
  BY <1>4, <1>5 DEF Opened
<1> QED  BY <1>6 DEF InsertAt, below, above, up

LEMMA RangeOpened ==
    ASSUME NEW m, NEW l, NEW i, NEW b, Opened(m, l, i, b)
    PROVE  Range(m) = Range(l) \cup {b}
<1>1. /\ m \in Seq(Blocks) /\ Len(m) = Len(l) + 1 /\ l \in Seq(Blocks)
      /\ i \in 1 .. Len(l) + 1
      /\ \A k \in 1 .. Len(l) + 1 :
            m[k] = IF k < i THEN l[k] ELSE IF k = i THEN b ELSE l[k - 1]
  BY DEF Opened
<1>2. Range(m) = {m[k] : k \in 1 .. Len(l) + 1} /\ Range(l) = {l[k] : k \in 1 .. Len(l)}
  BY <1>1, RangeOf
<1>3. Range(m) \subseteq Range(l) \cup {b}
  BY <1>1, <1>2
<1>4. \A k \in 1 .. Len(l) : l[k] \in Range(m)
  <2> SUFFICES ASSUME NEW k \in 1 .. Len(l) PROVE l[k] \in Range(m)
    OBVIOUS
  <2>1. CASE k < i
    BY <1>1, <1>2, <2>1
  <2>2. CASE k >= i
    <3>1. k + 1 \in 1 .. Len(l) + 1 /\ m[k + 1] = l[k]
      BY <1>1, <2>2
    <3> QED  BY <1>2, <3>1
  <2> QED  BY <1>1, <2>1, <2>2
<1>5. b \in Range(m)
  BY <1>1, <1>2
<1> QED  BY <1>2, <1>3, <1>4, <1>5

(* ... or becomes one with its neighbour. *)
Joined(m, l, i, b) ==
    /\ m \in Seq(Blocks) /\ l \in Seq(Blocks) /\ Len(m) = Len(l) - 1
    /\ i \in 1 .. Len(l) - 1 /\ b \in Blocks
    /\ b.start = l[i].start /\ b.size = l[i].size + l[i + 1].size + Meta
    /\ \A k \in 1 .. Len(l) - 1 :
          m[k] = IF k < i THEN l[k] ELSE IF k = i THEN b ELSE l[k + 1]

LEMMA RangeJoined ==
    ASSUME NEW m, NEW l, NEW i, NEW b, Joined(m, l, i, b), Distinct(l)
    PROVE  /\ Range(m) = ((Range(l) \ {l[i]}) \ {l[i + 1]}) \cup {b}
           /\ {l[i], l[i + 1]} \subseteq Range(l) /\ l[i] # l[i + 1]
           /\ b \notin Range(l) \ {l[i], l[i + 1]}
<1> USE DEF Joined
<1>1. Range(m) = {m[k] : k \in 1 .. Len(l) - 1} /\ Range(l) = {l[k] : k \in 1 .. Len(l)}
  BY RangeOf
<1>2. /\ \A k \in 1 .. Len(l) : (l[k] = l[i] => k = i) /\ (l[k] = l[i + 1] => k = i + 1)
      /\ i + 1 \in 1 .. Len(l) /\ i \in 1 .. Len(l)
  BY DEF Distinct
<1>3. b \notin Range(l) \ {l[i], l[i + 1]}
  BY <1>1, <1>2 DEF Distinct
<1>4. Range(m) \subseteq ((Range(l) \ {l[i]}) \ {l[i + 1]}) \cup {b}
  <2> SUFFICES ASSUME NEW k \in 1 .. Len(l) - 1, k # i
               PROVE  m[k] \in (Range(l) \ {l[i]}) \ {l[i + 1]}
    BY <1>1
  <2>1. CASE k < i
    BY <1>1, <1>2, <2>1
  <2>2. CASE k > i
    <3>1. k + 1 \in 1 .. Len(l) /\ m[k] = l[k + 1] /\ k + 1 # i /\ k + 1 # i + 1
      BY <2>2
    <3> QED  BY <1>1, <1>2, <3>1
  <2> QED  BY <2>1, <2>2
<1>5. ASSUME NEW k \in 1 .. Len(l), k # i, k # i + 1
      PROVE  l[k] \in Range(m)
  <2>1. CASE k < i
    BY <1>1, <2>1
  <2>2. CASE k > i + 1
    <3>1. k - 1 \in 1 .. Len(l) - 1 /\ m[k - 1] = l[k]
      BY <2>2
    <3> QED  BY <1>1, <3>1
  <2> QED  BY <1>5, <2>1, <2>2
<1>6. b \in Range(m)
  BY <1>1
<1>7. Range(m) = ((Range(l) \ {l[i]}) \ {l[i + 1]}) \cup {b}
  BY <1>1, <1>4, <1>5, <1>6, ZenonT(60)
<1>8. l[i] # l[i + 1]
  BY <1>2
<1>9. l[i] \in Range(l) /\ l[i + 1] \in Range(l)
  BY <1>1, <1>2
<1> QED  BY <1>3, <1>7, <1>8, <1>9

LEMMA LaidJoined ==
    ASSUME NEW m, NEW l, NEW i, NEW b, Joined(m, l, i, b), NEW end, Laid(l, end)
    PROVE  Laid(m, end)
<1> USE MetaAssumption DEF Joined
<1>1. /\ Len(l) \in Nat /\ Meta \in Nat /\ end \in Nat
      /\ \A k \in 1 .. Len(l) : l[k].start \in Nat /\ l[k].size \in Nat
  BY BlockParts, SMTT(60) DEF Laid
<1>2. l[i + 1].start = l[i].start + l[i].size + Meta
  BY DEF Laid
<1>3. \A k \in 1 .. Len(m) : m[k].start = l[IF k <= i THEN k ELSE k + 1].start
  <2> SUFFICES ASSUME NEW k \in 1 .. Len(m)
               PROVE  m[k].start = l[IF k <= i THEN k ELSE k + 1].start
    OBVIOUS
  <2>1. CASE k = i
    BY <2>1
  <2>2. CASE k < i
    BY <2>2
  <2>3. CASE k > i
    BY <2>3
  <2> QED  BY <1>1, <2>1, <2>2, <2>3
<1>4. \A k \in 1 .. Len(m) :
          m[k].start + m[k].size = l[IF k < i THEN k ELSE k + 1].start
                                      + l[IF k < i THEN k ELSE k + 1].size
  <2> SUFFICES ASSUME NEW k \in 1 .. Len(m)
               PROVE  m[k].start + m[k].size = l[IF k < i THEN k ELSE k + 1].start
                                                  + l[IF k < i THEN k ELSE k + 1].size
    OBVIOUS
  <2>1. CASE k = i
    <3>1. /\ l[i].start \in Nat /\ l[i].size \in Nat
          /\ l[i + 1].start \in Nat /\ l[i + 1].size \in Nat
      BY <1>1, SMTT(60)
    <3>2. m[k].start = l[i].start /\ m[k].size = l[i].size + l[i + 1].size + Meta
      BY <2>1
    <3>3. m[k].start + m[k].size = l[i + 1].start + l[i + 1].size
      BY <1>1, <1>2, <3>1, <3>2, SMTT(60)
    <3> QED  BY <2>1, <3>3
  <2>2. CASE k # i
    BY <1>1, <2>2
  <2> QED  BY <2>1, <2>2
<1>5. ASSUME NEW j \in 1 .. Len(m), NEW k \in 1 .. Len(m), j < k
      PROVE  m[j].start + m[j].size + Meta <= m[k].start
  <2> DEFINE p == IF j < i THEN j ELSE j + 1
             q == IF k <= i THEN k ELSE k + 1
  <2>1. p \in 1 .. Len(l) /\ q \in 1 .. Len(l) /\ p < q
    BY <1>1, <1>5
  <2>2. m[j].start + m[j].size = l[p].start + l[p].size /\ m[k].start = l[q].start
    BY <1>3, <1>4
  <2> HIDE DEF p, q
  <2>3. l[p].start + l[p].size + Meta <= l[q].start
    BY <2>1 DEF Laid
  <2> QED  BY <2>2, <2>3
<1>6. ASSUME NEW j \in 1 .. Len(m) - 1
      PROVE  m[j + 1].start = m[j].start + m[j].size + Meta
  <2> DEFINE p == IF j < i THEN j ELSE j + 1
  <2>1. p \in 1 .. Len(l) - 1
    BY <1>1
  <2>2. m[j].start + m[j].size = l[p].start + l[p].size /\ m[j + 1].start = l[p + 1].start
    <3>1. j \in 1 .. Len(m) /\ j + 1 \in 1 .. Len(m)
      BY <1>1
    <3>2. (IF j + 1 <= i THEN j + 1 ELSE j + 1 + 1) = p + 1
      BY <1>1
    <3>3. m[j].start + m[j].size = l[p].start + l[p].size
      BY <1>4, <3>1
    <3>4. m[j + 1].start = l[p + 1].start
      BY <1>3, <3>1, <3>2
    <3> QED  BY <3>3, <3>4
  <2> HIDE DEF p
  <2>3. l[p + 1].start = l[p].start + l[p].size + Meta
    BY <2>1 DEF Laid
  <2> QED  BY <2>2, <2>3
<1>7. m[1].start = Meta /\ m[Len(m)].start + m[Len(m)].size = end /\ Len(m) > 0
  <2>1. l[1].start = Meta /\ l[Len(l)].start + l[Len(l)].size = end
    BY <1>1 DEF Laid
  <2>2. m[1].start = l[1].start
    BY <1>1, <1>3
  <2>3. Len(m) \in 1 .. Len(m) /\ Len(m) >= i
    BY <1>1
  <2>4. m[Len(m)].start + m[Len(m)].size = l[Len(l)].start + l[Len(l)].size
    <3>1. (IF Len(m) < i THEN Len(m) ELSE Len(m) + 1) = Len(l)
      BY <1>1, <2>3
    <3> QED  BY <1>4, <2>3, <3>1
  <2> QED  BY <1>1, <2>1, <2>2, <2>4
<1> QED
  <2>1. m \in Seq(Blocks) /\ end \in Nat /\ Len(m) # 0
    <3>1. Len(m) > 0
      BY <1>7
    <3> QED  BY <1>1, <3>1, SMTT(60)
  <2>2. \A p, q \in 1 .. Len(m) : p < q => m[p].start + m[p].size + Meta <= m[q].start
    BY <1>5
  <2>3. \A p \in 1 .. Len(m) - 1 : m[p + 1].start = m[p].start + m[p].size + Meta
    BY <1>6
  <2> QED  BY <1>7, <2>1, <2>2, <2>3 DEF Laid

LEMMA LaidCut ==
    ASSUME NEW l, NEW end, Laid(l, end), NEW i \in 1 .. Len(l),
           NEW b \in Blocks, NEW n, Swapped(n, l, i, b),
           NEW c \in Blocks, c.start = b.start + b.size + Meta,
           c.start + c.size = l[i].start + l[i].size,
           NEW m, Opened(m, n, i + 1, c)
    PROVE  Laid(m, end)
<1> USE MetaAssumption
<1>0. /\ m \in Seq(Blocks) /\ Len(m) = Len(l) + 1 /\ b.start = l[i].start
      /\ \A k \in 1 .. Len(l) + 1 :
            m[k] = IF k < i THEN l[k] ELSE IF k = i THEN b
                   ELSE IF k = i + 1 THEN c ELSE l[k - 1]
  <2>1. /\ m \in Seq(Blocks) /\ Len(m) = Len(l) + 1 /\ Len(l) \in Nat /\ Len(n) = Len(l)
        /\ b.start = l[i].start
    BY DEF Swapped, Opened
  <2> SUFFICES ASSUME NEW k \in 1 .. Len(l) + 1
               PROVE  m[k] = IF k < i THEN l[k] ELSE IF k = i THEN b
                             ELSE IF k = i + 1 THEN c ELSE l[k - 1]
    BY <2>1
  <2>2. CASE k < i + 1
    <3>1. m[k] = n[k] /\ k \in 1 .. Len(l)
      BY <2>1, <2>2 DEF Opened
    <3> QED  BY <2>2, <3>1 DEF Swapped
  <2>3. CASE k = i + 1
    BY <2>1, <2>3 DEF Opened
  <2>4. CASE k > i + 1
    <3>1. m[k] = n[k - 1] /\ k - 1 \in 1 .. Len(l) /\ k - 1 # i
      BY <2>1, <2>4 DEF Opened
    <3> QED  BY <2>4, <3>1 DEF Swapped
  <2> QED  BY <2>1, <2>2, <2>3, <2>4
<1> USE <1>0
<1>1. /\ Len(l) \in Nat /\ Meta \in Nat /\ end \in Nat
      /\ b.start \in Nat /\ b.size \in Nat /\ c.start \in Nat /\ c.size \in Nat
      /\ \A k \in 1 .. Len(l) : l[k].start \in Nat /\ l[k].size \in Nat
  BY BlockParts, SMTT(60) DEF Laid
<1> DEFINE p(k) == IF k <= i THEN k ELSE k - 1
<1>2. \A k \in 1 .. Len(m) : k # i + 1 => m[k].start = l[p(k)].start
  BY <1>1, SMTT(60)
<1>3. \A k \in 1 .. Len(m) : k # i => m[k].start + m[k].size = l[p(k)].start + l[p(k)].size
  <2> SUFFICES ASSUME NEW k \in 1 .. Len(m), k # i
               PROVE  m[k].start + m[k].size = l[p(k)].start + l[p(k)].size
    OBVIOUS
  <2>1. CASE k = i + 1
    <3>1. m[k] = c /\ p(k) = i
      BY <1>1, <2>1
    <3> QED  BY <3>1
  <2>2. CASE k < i
    BY <2>2
  <2>3. CASE k > i + 1
    BY <2>3
  <2> QED  BY <1>1, <2>1, <2>2, <2>3
<1>4. m[i] = b /\ m[i + 1] = c
  BY <1>1, SMTT(60)
<1>5. ASSUME NEW j \in 1 .. Len(m), NEW k \in 1 .. Len(m), j < k
      PROVE  m[j].start + m[j].size + Meta <= m[k].start
  <2>1. CASE j # i /\ k # i + 1
    <3>1. p(j) \in 1 .. Len(l) /\ p(k) \in 1 .. Len(l) /\ p(j) < p(k)
      <4>1. j \in 1 .. Len(l) + 1 /\ k \in 1 .. Len(l) + 1
        OBVIOUS
      <4>2. CASE j < i
        <5>1. /\ j \in Int /\ k \in Int /\ i \in Int /\ i <= Len(l) /\ 1 <= i
              /\ 1 <= j /\ k <= Len(l) + 1 /\ 1 <= k
          BY <1>1, <4>1
        <5>2. CASE k <= i
          BY <1>1, <1>5, <4>2, <5>1, <5>2, SMTT(60)
        <5>3. CASE k > i + 1
          BY <1>1, <1>5, <4>2, <5>1, <5>3, SMTT(60)
        <5> QED  BY <2>1, <5>1, <5>2, <5>3
      <4>3. CASE j > i
        BY <1>1, <1>5, <2>1, <4>1, <4>3
      <4> QED  BY <2>1, <4>1, <4>2, <4>3
    <3>2. m[j].start + m[j].size = l[p(j)].start + l[p(j)].size /\ m[k].start = l[p(k)].start
      BY <1>2, <1>3, <2>1
    <3> HIDE DEF p
    <3>3. l[p(j)].start + l[p(j)].size + Meta <= l[p(k)].start
      BY <3>1 DEF Laid
    <3> QED  BY <3>2, <3>3
  <2>2. CASE j = i /\ k = i + 1
    BY <1>1, <1>4, <2>2
  <2>3. CASE j = i /\ k > i + 1
    <3>1. k - 1 \in 1 .. Len(l) /\ i < k - 1 /\ m[k].start = l[k - 1].start
      BY <1>1, <1>2, <2>3, SMTT(60)
    <3>2. l[i].start + l[i].size + Meta <= l[k - 1].start /\ l[k - 1].start \in Nat
      BY <1>1, <3>1 DEF Laid
    <3>3. b.start + b.size <= l[i].start + l[i].size
      <4>1. l[i].start + l[i].size = b.start + b.size + Meta + c.size
        OBVIOUS
      <4>2. \A x, y, z, w \in Nat : x + y <= x + y + z + w
        OBVIOUS
      <4>3. b.start + b.size <= b.start + b.size + Meta + c.size
        BY <1>1, <4>2
      <4> QED  BY <4>1, <4>3
    <3>4. m[j] = b
      BY <1>4, <2>3
    <3> QED  BY <1>1, <3>1, <3>2, <3>3, <3>4, SMTT(60)
  <2>4. CASE j < i /\ k = i + 1
    <3>1. l[j].start + l[j].size + Meta <= l[i].start /\ m[j] = l[j] /\ m[k] = c
      <4>1. j \in 1 .. Len(l)
        BY <1>1, <2>4
      <4>2. m[j] = l[j] /\ m[k] = c
        BY <1>4, <2>4
      <4>3. l[j].start + l[j].size + Meta <= l[i].start
        BY <2>4, <4>1 DEF Laid
      <4> QED  BY <4>2, <4>3
    <3>2. l[i].start <= c.start
      BY <1>1, SMTT(60)
    <3>3. /\ l[j].start \in Nat /\ l[j].size \in Nat /\ l[i].start \in Nat
          /\ c.start \in Nat /\ Meta \in Nat
      <4>1. j \in 1 .. Len(l)
        BY <1>1, <2>4
      <4> QED  BY <1>1, <4>1
    <3>4. l[j].start + l[j].size + Meta <= c.start
      BY <3>1, <3>2, <3>3, SMTT(60)
    <3> QED  BY <3>1, <3>4
  <2>5. \/ j # i /\ k # i + 1
        \/ j = i /\ k = i + 1
        \/ j = i /\ k > i + 1
        \/ j < i /\ k = i + 1
    <3>1. j \in Int /\ k \in Int /\ i \in Int
      BY <1>1
    <3> QED  BY <1>5, <3>1
  <2> QED  BY <2>1, <2>2, <2>3, <2>4, <2>5
<1>6. ASSUME NEW j \in 1 .. Len(m) - 1
      PROVE  m[j + 1].start = m[j].start + m[j].size + Meta
  <2>1. CASE j = i
    <3>1. m[j] = b /\ m[j + 1] = c
      BY <1>4, <2>1
    <3> QED  BY <3>1
  <2>2. CASE j # i
    <3>1. p(j) \in 1 .. Len(l) - 1 /\ p(j) + 1 = p(j + 1) /\ j + 1 # i + 1
      BY <1>1, <2>2, SMTT(60)
    <3>2. m[j].start + m[j].size = l[p(j)].start + l[p(j)].size
      BY <1>3, <2>2
    <3>3. m[j + 1].start = l[p(j) + 1].start
      <4>1. j + 1 \in 1 .. Len(m)
        BY <1>1, SMTT(60)
      <4>2. m[j + 1].start = l[p(j + 1)].start
        BY <1>2, <3>1, <4>1
      <4> QED  BY <3>1, <4>2
    <3> HIDE DEF p
    <3>4. l[p(j) + 1].start = l[p(j)].start + l[p(j)].size + Meta
      BY <3>1 DEF Laid
    <3> QED  BY <3>2, <3>3, <3>4
  <2> QED  BY <2>1, <2>2
<1>7. m[1].start = Meta /\ m[Len(m)].start + m[Len(m)].size = end /\ Len(m) > 0
  <2>1. l[1].start = Meta /\ l[Len(l)].start + l[Len(l)].size = end
    BY <1>1 DEF Laid
  <2>2. m[1].start = l[1].start
    BY <1>1, <1>2, SMTT(60)
  <2>3. m[Len(m)].start + m[Len(m)].size = l[Len(l)].start + l[Len(l)].size
    <3>1. Len(m) \in 1 .. Len(m) /\ Len(m) # i /\ p(Len(m)) = Len(l)
      BY <1>1, SMTT(60)
    <3> HIDE DEF p
    <3> QED  BY <1>3, <3>1
  <2> QED  BY <1>1, <2>1, <2>2, <2>3
<1> QED
  <2>1. m \in Seq(Blocks) /\ end \in Nat /\ Len(m) # 0
    BY <1>1, <1>7
  <2>2. \A x, y \in 1 .. Len(m) : x < y => m[x].start + m[x].size + Meta <= m[y].start
    BY <1>5
  <2>3. \A x \in 1 .. Len(m) - 1 : m[x + 1].start = m[x].start + m[x].size + Meta
    BY <1>6
  <2> QED  BY <1>7, <2>1, <2>2, <2>3 DEF Laid

LEMMA LaidGrown ==
    ASSUME NEW l, NEW end, Laid(l, end), NEW offset \in Nat,
           NEW m, NEW b, Swapped(m, l, Len(l), b), b.size = l[Len(l)].size + offset
    PROVE  Laid(m, end + offset)
<1>1. /\ Len(l) \in Nat /\ Meta \in Nat /\ end \in Nat
      /\ \A k \in 1 .. Len(l) : l[k].start \in Nat /\ l[k].size \in Nat
  BY MetaAssumption, BlockParts DEF Laid
<1>2. /\ m \in Seq(Blocks) /\ Len(m) = Len(l)
      /\ \A k \in 1 .. Len(l) : m[k] = IF k = Len(l) THEN b ELSE l[k]
  BY DEF Swapped
<1>3. \A k \in 1 .. Len(l) : m[k].start = l[k].start
  BY <1>1, <1>2 DEF Swapped
<1> HIDE DEF Swapped
<1>4. \A j, k \in 1 .. Len(m) : j < k => m[j].start + m[j].size + Meta <= m[k].start
  <2> SUFFICES ASSUME NEW j \in 1 .. Len(l), NEW k \in 1 .. Len(l), j < k
               PROVE  m[j].start + m[j].size + Meta <= m[k].start
    BY <1>2
  <2>1. m[j] = l[j]
    BY <1>1, <1>2
  <2> QED  BY <1>3, <2>1 DEF Laid
<1>5. \A j \in 1 .. Len(m) - 1 : m[j + 1].start = m[j].start + m[j].size + Meta
  <2> SUFFICES ASSUME NEW j \in 1 .. Len(l) - 1
               PROVE  m[j + 1].start = m[j].start + m[j].size + Meta
    BY <1>2
  <2>1. m[j] = l[j] /\ m[j + 1].start = l[j + 1].start
    BY <1>1, <1>2, <1>3
  <2> QED  BY <2>1 DEF Laid
<1>6. m[1].start = Meta /\ m[Len(m)].start + m[Len(m)].size = end + offset
  <2>0. Len(l) \in 1 .. Len(l)
    BY DEF Swapped
  <2>1. l[1].start = Meta /\ l[Len(l)].start + l[Len(l)].size = end
    BY <2>0 DEF Laid
  <2>2. l[Len(l)].start \in Nat /\ l[Len(l)].size \in Nat
    BY <1>1, <2>0
  <2>3. m[1].start = Meta /\ m[Len(m)] = b
    BY <1>1, <1>2, <1>3, <2>1 DEF Swapped
  <2>4. l[Len(l)].start + (l[Len(l)].size + offset) = end + offset
    <3>1. \A x, y \in Nat : x + (y + offset) = (x + y) + offset
      OBVIOUS
    <3> QED  BY <2>1, <2>2, <3>1
  <2>5. m[Len(m)].start = l[Len(l)].start /\ m[Len(m)].size = l[Len(l)].size + offset
    BY <1>2, <2>3 DEF Swapped
  <2> QED  BY <2>3, <2>4, <2>5
<1>7. Len(m) > 0 /\ end + offset \in Nat
  BY <1>1, <1>2 DEF Swapped
<1> QED  BY <1>1, <1>2, <1>4, <1>5, <1>6, <1>7 DEF Laid

LEMMA LaidAppended ==
    ASSUME NEW l, NEW end, Laid(l, end), NEW m, NEW b,
           Opened(m, l, Len(l) + 1, b), b.start = end + Meta
    PROVE  Laid(m, end + Meta + b.size)
<1>1. /\ Len(l) \in Nat /\ Meta \in Nat /\ end \in Nat /\ b.size \in Nat /\ b \in Blocks
      /\ \A k \in 1 .. Len(l) : l[k].start \in Nat /\ l[k].size \in Nat
  BY MetaAssumption, BlockParts DEF Laid, Opened
<1>2. /\ m \in Seq(Blocks) /\ Len(m) = Len(l) + 1
      /\ \A k \in 1 .. Len(l) + 1 : m[k] = IF k = Len(l) + 1 THEN b ELSE l[k]
  BY <1>1 DEF Opened
<1>3. \A k \in 1 .. Len(l) : m[k] = l[k]
  BY <1>1, <1>2
<1>4. m[Len(l) + 1] = b
  BY <1>1, <1>2
<1>5. ASSUME NEW j \in 1 .. Len(m), NEW k \in 1 .. Len(m), j < k
      PROVE  m[j].start + m[j].size + Meta <= m[k].start
  <2>1. j \in 1 .. Len(l) /\ m[j] = l[j]
    BY <1>1, <1>2, <1>3, <1>5
  <2>2. CASE k = Len(l) + 1
    <3>1. l[j].start + l[j].size <= end
      BY <2>1, LaidDistinct
    <3>2. m[k].start = end + Meta
      BY <1>4, <2>2
    <3> QED  BY <1>1, <2>1, <3>1, <3>2
  <2>3. CASE k # Len(l) + 1
    <3>1. k \in 1 .. Len(l) /\ m[k] = l[k]
      BY <1>1, <1>2, <1>3, <2>3
    <3> QED  BY <1>5, <2>1, <3>1 DEF Laid
  <2> QED  BY <2>2, <2>3
<1>6. ASSUME NEW j \in 1 .. Len(m) - 1
      PROVE  m[j + 1].start = m[j].start + m[j].size + Meta
  <2>1. j \in 1 .. Len(l) /\ m[j] = l[j]
    BY <1>1, <1>2, <1>3
  <2>2. CASE j = Len(l)
    BY <1>1, <1>4, <2>1, <2>2 DEF Laid
  <2>3. CASE j # Len(l)
    <3>1. j + 1 \in 1 .. Len(l) /\ m[j + 1] = l[j + 1] /\ j \in 1 .. Len(l) - 1
      BY <1>1, <1>3, <2>1, <2>3
    <3> QED  BY <2>1, <3>1 DEF Laid
  <2> QED  BY <2>2, <2>3
<1>7. m[1].start = Meta /\ m[Len(m)].start + m[Len(m)].size = end + Meta + b.size
  <2>1. m[Len(m)] = b
    BY <1>2, <1>4
  <2>2. m[1].start = Meta
    <3>1. CASE Len(l) = 0
      BY <1>1, <1>4, <3>1 DEF Laid
    <3>2. CASE Len(l) > 0
      BY <1>1, <1>3, <3>2 DEF Laid
    <3> QED  BY <1>1, <3>1, <3>2
  <2> QED  BY <1>1, <2>1, <2>2
<1>8. end + Meta + b.size \in Nat /\ Len(m) # 0
  BY <1>1, <1>2
<1> QED  BY <1>1, <1>2, <1>5, <1>6, <1>7, <1>8 DEF Laid

------------------------------------------------------------------------------
(* A heap that is as the code means it to be, except that two neighbours   *)
(* may both be free.                                                       *)
Heaps == [list : Seq(Blocks), brk : Int, num_free_blocks : Int, num_free_bytes : Int,
          num_allocated_blocks : Int, num_allocated_bytes : Int,
          num_meta_data_blocks : Int, overrun : {"no", "search", "realloc"}]

Sound(h) ==
    /\ h \in Heaps /\ h.overrun = "no"
    /\ Laid(h.list, h.brk)
    /\ Totals(Range(h.list), h.num_free_blocks, h.num_free_bytes, h.num_allocated_bytes)
    /\ h.num_allocated_blocks = Len(h.list) /\ h.num_meta_data_blocks = Len(h.list)

(* Neighbours are not both free, ... *)
Merged(l) == \A k \in 1 .. Len(l) - 1 : ~(l[k].is_freed /\ l[k + 1].is_freed)

(* ... or one of the two is block i. *)
MergedBut(l, i) ==
    \A k \in 1 .. Len(l) - 1 : l[k].is_freed /\ l[k + 1].is_freed => k = i \/ k + 1 = i

(* The blocks in use. *)
Used(l) == {b \in Range(l) : ~b.is_freed}
InUse(b) == IF b.is_freed THEN {} ELSE {b}

LEMMA SoundParts ==
    ASSUME NEW h, Sound(h)
    PROVE  /\ h \in Heaps /\ h.list \in Seq(Blocks) /\ Len(h.list) \in Nat
           /\ Laid(h.list, h.brk) /\ Distinct(h.list) /\ h.brk \in Nat
           /\ h.num_free_blocks \in Int /\ h.num_free_bytes \in Int
           /\ h.num_allocated_blocks \in Int /\ h.num_allocated_bytes \in Int
           /\ h.num_meta_data_blocks \in Int
           /\ \A k \in 1 .. Len(h.list) :
                 /\ h.list[k] \in Blocks
                 /\ h.list[k].start \in Nat /\ h.list[k].size \in Nat
                 /\ h.list[k].is_freed \in BOOLEAN
<1>1. h \in Heaps /\ Laid(h.list, h.brk) /\ Distinct(h.list)
  BY LaidDistinct DEF Sound
<1>2. h.list \in Seq(Blocks) /\ Len(h.list) \in Nat /\ h.brk \in Nat
  BY <1>1 DEF Laid
<1>3. \A k \in 1 .. Len(h.list) : h.list[k] \in Blocks
  BY <1>2
<1> QED  BY <1>1, <1>2, <1>3, BlockParts DEF Heaps

SwapInto(g, h, i, b) ==
    /\ g \in Heaps /\ g.overrun = "no"
    /\ Swapped(g.list, h.list, i, b) /\ Laid(g.list, g.brk)
    /\ g.num_free_blocks = h.num_free_blocks - One(h.list[i]) + One(b)
    /\ g.num_free_bytes = h.num_free_bytes - FreeSize(h.list[i]) + FreeSize(b)
    /\ g.num_allocated_bytes = h.num_allocated_bytes - h.list[i].size + b.size
    /\ g.num_allocated_blocks = h.num_allocated_blocks
    /\ g.num_meta_data_blocks = h.num_meta_data_blocks

LEMMA SoundSwapped ==
    ASSUME NEW h, Sound(h), NEW g, NEW i, NEW b, SwapInto(g, h, i, b)
    PROVE  /\ Sound(g)
           /\ Used(g.list) = (Used(h.list) \ {h.list[i]})
                                \cup InUse(b)
<1> USE DEF SwapInto
<1>1. /\ Range(g.list) = (Range(h.list) \ {h.list[i]}) \cup {b}
      /\ h.list[i] \in Range(h.list) /\ b \notin Range(h.list) \ {h.list[i]}
  BY SoundParts, RangeSwapped
<1>2. b \in AnyBlock
  BY BlockParts DEF Swapped
<1>3. Totals(Range(g.list), g.num_free_blocks, g.num_free_bytes, g.num_allocated_bytes)
  <2>1. Totals(Range(h.list), h.num_free_blocks, h.num_free_bytes, h.num_allocated_bytes)
    BY DEF Sound
  <2>2. Totals((Range(h.list) \ {h.list[i]}) \cup {b},
               h.num_free_blocks - One(h.list[i]) + One(b),
               h.num_free_bytes - FreeSize(h.list[i]) + FreeSize(b),
               h.num_allocated_bytes - h.list[i].size + b.size)
    BY <1>1, <1>2, <2>1, TotalsSwap
  <2> QED  BY <1>1, <2>2
<1>4. Len(g.list) = Len(h.list)
  BY DEF Swapped
<1>5. Sound(g)
  BY <1>3, <1>4 DEF Sound
<1>6. Used(g.list) = (Used(h.list) \ {h.list[i]}) \cup InUse(b)
  BY <1>1 DEF Used, InUse
<1> QED  BY <1>5, <1>6

OpenInto(g, h, i, b) ==
    /\ g \in Heaps /\ g.overrun = "no"
    /\ Opened(g.list, h.list, i, b) /\ b \notin Range(h.list) /\ Laid(g.list, g.brk)
    /\ g.num_free_blocks = h.num_free_blocks + One(b)
    /\ g.num_free_bytes = h.num_free_bytes + FreeSize(b)
    /\ g.num_allocated_bytes = h.num_allocated_bytes + b.size
    /\ g.num_allocated_blocks = h.num_allocated_blocks + 1
    /\ g.num_meta_data_blocks = h.num_meta_data_blocks + 1

LEMMA SoundOpened ==
    ASSUME NEW h, Sound(h), NEW g, NEW i, NEW b, OpenInto(g, h, i, b)
    PROVE  /\ Sound(g)
           /\ Used(g.list) = Used(h.list) \cup InUse(b)
<1> USE DEF OpenInto
<1>1. Range(g.list) = Range(h.list) \cup {b}
  BY RangeOpened
<1>2. b \in AnyBlock
  BY BlockParts DEF Opened
<1>3. Totals(Range(g.list), g.num_free_blocks, g.num_free_bytes, g.num_allocated_bytes)
  <2>1. Totals(Range(h.list), h.num_free_blocks, h.num_free_bytes, h.num_allocated_bytes)
    BY DEF Sound
  <2>2. Totals(Range(h.list) \cup {b}, h.num_free_blocks + One(b),
               h.num_free_bytes + FreeSize(b), h.num_allocated_bytes + b.size)
    BY <1>2, <2>1, TotalsMore
  <2> QED  BY <1>1, <2>2
<1>4. Len(g.list) = Len(h.list) + 1
  BY DEF Opened
<1>5. Sound(g)
  BY <1>3, <1>4 DEF Sound
<1>6. Used(g.list) = Used(h.list) \cup InUse(b)
  BY <1>1 DEF Used, InUse
<1> QED  BY <1>5, <1>6

JoinInto(g, h, i, b) ==
    /\ g \in Heaps /\ g.overrun = "no" /\ g.brk = h.brk
    /\ Joined(g.list, h.list, i, b)
    /\ g.num_free_blocks = h.num_free_blocks - One(h.list[i])
                               - One(h.list[i + 1]) + One(b)
    /\ g.num_free_bytes = h.num_free_bytes - FreeSize(h.list[i])
                              - FreeSize(h.list[i + 1]) + FreeSize(b)
    /\ g.num_allocated_bytes = h.num_allocated_bytes + Meta
    /\ g.num_allocated_blocks = h.num_allocated_blocks - 1
    /\ g.num_meta_data_blocks = h.num_meta_data_blocks - 1

LEMMA SoundJoined ==
    ASSUME NEW h, Sound(h), NEW g, NEW i, NEW b, JoinInto(g, h, i, b)
    PROVE  /\ Sound(g)
           /\ Used(g.list) = (Used(h.list) \ {h.list[i], h.list[i + 1]})
                                \cup InUse(b)
<1> USE DEF JoinInto
<1> DEFINE x == h.list[i]
           y == h.list[i + 1]
<1>1. /\ Range(g.list) = ((Range(h.list) \ {x}) \ {y}) \cup {b}
      /\ {x, y} \subseteq Range(h.list) /\ x # y
      /\ b \notin Range(h.list) \ {x, y}
  BY SoundParts, RangeJoined
<1>2. b \in AnyBlock
  BY BlockParts DEF Joined
<1>3. Totals(Range(g.list), g.num_free_blocks, g.num_free_bytes, g.num_allocated_bytes)
  <2>1. Totals(Range(h.list), h.num_free_blocks, h.num_free_bytes, h.num_allocated_bytes)
    BY DEF Sound
  <2> DEFINE all == h.num_allocated_bytes - x.size - y.size + b.size
  <2>2. all = h.num_allocated_bytes + Meta
    <3>1. b.size = x.size + y.size + Meta
      BY DEF Joined
    <3>2. i \in 1 .. Len(h.list) /\ i + 1 \in 1 .. Len(h.list)
      BY SoundParts DEF Joined
    <3>3. x.size \in Nat /\ y.size \in Nat /\ h.num_allocated_bytes \in Int /\ Meta \in Nat
      BY <3>2, SoundParts, MetaAssumption
    <3> QED  BY <3>1, <3>3
  <2>3. Totals(((Range(h.list) \ {x}) \ {y}) \cup {b},
               h.num_free_blocks - One(x) - One(y) + One(b),
               h.num_free_bytes - FreeSize(x) - FreeSize(y) + FreeSize(b), all)
    <3> HIDE DEF x, y
    <3> QED  BY <1>1, <1>2, <2>1, TotalsJoin
  <2> QED  BY <1>1, <2>2, <2>3
<1>4. Len(g.list) = Len(h.list) - 1 /\ Laid(g.list, g.brk)
  BY SoundParts, LaidJoined, ZenonT(60) DEF Joined
<1>5. Sound(g)
  BY <1>3, <1>4 DEF Sound
<1>6. Used(g.list) = (Used(h.list) \ {x, y}) \cup InUse(b)
  <2> HIDE DEF x, y
  <2> QED  BY <1>1 DEF Used, InUse
<1> QED  BY <1>5, <1>6

CutInto(g, h, i, n, b, c) ==
    /\ g \in Heaps /\ g.overrun = "no" /\ g.brk = h.brk
    /\ Swapped(n, h.list, i, b) /\ Opened(g.list, n, i + 1, c)
    /\ c.start = b.start + b.size + Meta
    /\ c.start + c.size = h.list[i].start + h.list[i].size
    /\ g.num_free_blocks = h.num_free_blocks - One(h.list[i]) + One(b) + One(c)
    /\ g.num_free_bytes = h.num_free_bytes - FreeSize(h.list[i])
                              + FreeSize(b) + FreeSize(c)
    /\ g.num_allocated_bytes = h.num_allocated_bytes - Meta
    /\ g.num_allocated_blocks = h.num_allocated_blocks + 1
    /\ g.num_meta_data_blocks = h.num_meta_data_blocks + 1

LEMMA SoundCut ==
    ASSUME NEW h, Sound(h), NEW g, NEW i, NEW b, NEW n, NEW c,
           CutInto(g, h, i, n, b, c)
    PROVE  /\ Sound(g)
           /\ Used(g.list) = (Used(h.list) \ {h.list[i]})
                                \cup InUse(b)
                                \cup InUse(c)
<1> USE DEF CutInto
<1> DEFINE x == h.list[i]
<1>1. /\ i \in 1 .. Len(h.list) /\ b \in Blocks /\ b.start = x.start /\ c \in Blocks
      /\ h.list \in Seq(Blocks)
  BY DEF Swapped, Opened
<1>2. /\ Range(g.list) = ((Range(h.list) \ {x}) \cup {b}) \cup {c}
      /\ x \in Range(h.list) /\ b \notin Range(h.list) \ {x}
  BY SoundParts, RangeSwapped, RangeOpened
<1>3. b \in AnyBlock /\ c \in AnyBlock /\ b.start \in Nat /\ b.size \in Nat /\ x \in Blocks
      /\ c.start \in Nat /\ c.size \in Nat /\ x.start \in Nat /\ x.size \in Nat
  BY <1>1, SoundParts, BlockParts
<1>4. Laid(g.list, g.brk) /\ Len(g.list) = Len(h.list) + 1
  <2>1. Laid(h.list, h.brk)
    BY SoundParts
  <2>2. Laid(g.list, g.brk)
    BY <1>1, <2>1, LaidCut
  <2>3. Len(g.list) = Len(h.list) + 1
    BY DEF Swapped, Opened
  <2> QED  BY <2>2, <2>3
<1>5. Distinct(g.list)
  BY <1>4, LaidDistinct
<1>6. b # c /\ c \notin Range(h.list) \ {x}
  <2>1. b.start # c.start
    <3>1. \A p, q \in Nat : p + q + Meta # p
      BY MetaAssumption
    <3> QED  BY <1>3, <3>1
  <2>2. ASSUME NEW k \in 1 .. Len(h.list), h.list[k] # x PROVE h.list[k] # c
    <3>1. k # i
      BY <2>2
    <3>2. i + 1 \in 1 .. Len(g.list) /\ g.list[i + 1] = c
      BY <1>1, <1>4 DEF Opened, Swapped
    <3>3. \E j \in 1 .. Len(g.list) : j # i + 1 /\ g.list[j] = h.list[k]
      <4>1. CASE k < i
        <5>1. n[k] = h.list[k] /\ g.list[k] = n[k] /\ k \in 1 .. Len(g.list)
          BY <1>1, <1>4, <4>1 DEF Opened, Swapped
        <5> QED  BY <1>1, <4>1, <5>1
      <4>2. CASE k > i
        <5>1. n[k] = h.list[k]
          BY <1>1, <4>2 DEF Swapped
        <5>2. k + 1 \in 1 .. Len(g.list) /\ k + 1 > i + 1 /\ Len(n) = Len(h.list)
          BY <1>1, <1>4, <4>2 DEF Swapped
        <5>3. g.list[k + 1] = n[k]
          BY <1>1, <1>4, <5>2 DEF Opened
        <5> QED  BY <1>1, <5>1, <5>2, <5>3
      <4> QED  BY <1>1, <3>1, <4>1, <4>2
    <3> QED  BY <1>5, <3>2, <3>3 DEF Distinct
  <2>3. Range(h.list) = {h.list[k] : k \in 1 .. Len(h.list)}
    BY <1>1, RangeOf
  <2> QED  BY <2>1, <2>2, <2>3
<1>7. Totals(Range(g.list), g.num_free_blocks, g.num_free_bytes, g.num_allocated_bytes)
  <2>1. Totals(Range(h.list), h.num_free_blocks, h.num_free_bytes, h.num_allocated_bytes)
    BY DEF Sound
  <2> DEFINE all == h.num_allocated_bytes - x.size + b.size + c.size
  <2>2. all = h.num_allocated_bytes - Meta
    <3>1. (b.start + b.size + Meta) + c.size = b.start + x.size
      BY <1>1
    <3>2. h.num_allocated_bytes \in Int /\ Meta \in Nat
      BY SoundParts, MetaAssumption
    <3>3. x.size = b.size + Meta + c.size
      <4>1. \A p, q, r, s, t \in Nat : (p + q + r) + s = p + t => t = q + r + s
        OBVIOUS
      <4> QED  BY <1>3, <3>1, <3>2, <4>1
    <3> QED  BY <1>3, <3>2, <3>3
  <2>3. Totals(((Range(h.list) \ {x}) \cup {b}) \cup {c},
               h.num_free_blocks - One(x) + One(b) + One(c),
               h.num_free_bytes - FreeSize(x) + FreeSize(b) + FreeSize(c), all)
    <3> HIDE DEF x
    <3> QED  BY <1>2, <1>3, <1>6, <2>1, TotalsCut
  <2> QED  BY <1>2, <2>2, <2>3
<1>8. Sound(g)
  BY <1>4, <1>7 DEF Sound
<1>9. Used(g.list) = (Used(h.list) \ {x}) \cup InUse(b)
                        \cup InUse(c)
  <2> HIDE DEF x
  <2> QED  BY <1>2 DEF Used, InUse
<1> QED  BY <1>8, <1>9

------------------------------------------------------------------------------
(* The functions of the code.  Each lemma says what a function makes of a  *)
(* sound heap: of its blocks in use, and of its free neighbours.           *)
LEMMA BlockIs ==
    ASSUME NEW start \in Nat, NEW size \in Nat, NEW is_freed \in BOOLEAN
    PROVE  /\ Block(start, size, is_freed) \in Blocks
           /\ Block(start, size, is_freed).start = start
           /\ Block(start, size, is_freed).size = size
           /\ Block(start, size, is_freed).is_freed = is_freed
BY DEF Block, Blocks

LEMMA Marked ==
    ASSUME NEW b \in Blocks, NEW is_freed \in BOOLEAN
    PROVE  [b EXCEPT !.is_freed = is_freed] = Block(b.start, b.size, is_freed)
BY DEF Blocks, Block

Resized(b, size) == [b EXCEPT !.size = size]

LEMMA SizedBlock ==
    ASSUME NEW start, NEW size, NEW is_freed, NEW new
    PROVE  Resized(Block(start, size, is_freed), new) = Block(start, new, is_freed)
BY DEF Block, Resized

LEMMA SetFree ==
    ASSUME NEW h, Sound(h), NEW i \in 1 .. Len(h.list), ~h.list[i].is_freed
    PROVE  /\ Sound(setFree(h, i))
           /\ Used(setFree(h, i).list) = Used(h.list) \ {h.list[i]}
           /\ Swapped(setFree(h, i).list, h.list, i,
                      Block(h.list[i].start, h.list[i].size, TRUE))
<1> DEFINE x == h.list[i]
           b == Block(x.start, x.size, TRUE)
           l == [h.list EXCEPT ![i] = b]
           blocks == h.num_free_blocks + 1
           bytes == h.num_free_bytes + x.size
           g == [h EXCEPT !.list = l, !.num_free_blocks = blocks, !.num_free_bytes = bytes]
<1>1. /\ x \in Blocks /\ x.start \in Nat /\ x.size \in Nat
      /\ h \in Heaps /\ h.list \in Seq(Blocks) /\ h.overrun = "no"
      /\ h.num_free_blocks \in Int /\ h.num_free_bytes \in Int
      /\ h.num_allocated_bytes \in Int
  BY SoundParts DEF Sound
<1>2. b \in Blocks /\ b.start = x.start /\ b.size = x.size /\ b.is_freed
  BY <1>1, BlockIs, ZenonT(60)
<1>3. setFree(h, i) = g
  <2>1. [h.list[i] EXCEPT !.is_freed = TRUE] = b
    BY <1>1, Marked
  <2> QED  BY <1>1, <2>1 DEF setFree, Heaps
<1>4. l \in Seq(Blocks) /\ Swapped(l, h.list, i, b)
  <2> HIDE DEF b
  <2> QED  BY <1>1, <1>2 DEF Swapped
<1>5. blocks \in Int /\ bytes \in Int
  BY <1>1
<1> HIDE DEF l, blocks, bytes
<1>6. /\ g \in Heaps /\ g.list = l /\ g.brk = h.brk /\ g.overrun = "no"
      /\ g.num_free_blocks = blocks /\ g.num_free_bytes = bytes
      /\ g.num_allocated_blocks = h.num_allocated_blocks
      /\ g.num_allocated_bytes = h.num_allocated_bytes
      /\ g.num_meta_data_blocks = h.num_meta_data_blocks
  BY <1>1, <1>4, <1>5 DEF Heaps
<1> HIDE DEF g, b
<1>7. Laid(g.list, g.brk)
  BY <1>2, <1>4, <1>6, SoundParts, LaidSwapped
<1>8. Sound(g) /\ Used(g.list) = (Used(h.list) \ {x}) \cup InUse(b)
  <2>1. One(x) = 0 /\ One(b) = 1 /\ FreeSize(x) = 0 /\ FreeSize(b) = x.size
    BY <1>2 DEF One, FreeSize
  <2>2. /\ g.num_free_blocks = h.num_free_blocks - One(x) + One(b)
        /\ g.num_free_bytes = h.num_free_bytes - FreeSize(x) + FreeSize(b)
        /\ g.num_allocated_bytes = h.num_allocated_bytes - x.size + b.size
    BY <1>1, <1>2, <1>6, <2>1 DEF blocks, bytes
  <2>3. Swapped(g.list, h.list, i, b)
    BY <1>4, <1>6
  <2>4. SwapInto(g, h, i, b)
    BY <1>6, <1>7, <2>2, <2>3 DEF SwapInto
  <2> QED  BY <2>4, SoundSwapped
<1>9. InUse(b) = {}
  BY <1>2 DEF InUse
<1> QED  BY <1>3, <1>4, <1>6, <1>8, <1>9 DEF b

LEMMA SetUsedIs ==
    ASSUME NEW h, Sound(h), NEW i \in 1 .. Len(h.list)
    PROVE  LET x == h.list[i]
               g == setUsed(h, i) IN
           /\ g \in Heaps /\ g.brk = h.brk /\ g.overrun = "no"
           /\ Swapped(g.list, h.list, i, Block(x.start, x.size, FALSE))
           /\ g.num_free_blocks = h.num_free_blocks - One(x)
           /\ g.num_free_bytes = h.num_free_bytes - FreeSize(x)
           /\ g.num_allocated_blocks = h.num_allocated_blocks
           /\ g.num_allocated_bytes = h.num_allocated_bytes
           /\ g.num_meta_data_blocks = h.num_meta_data_blocks
<1> DEFINE x == h.list[i]
           b == Block(x.start, x.size, FALSE)
           l == [h.list EXCEPT ![i] = b]
           blocks == h.num_free_blocks - 1
           bytes == h.num_free_bytes - x.size
           g == [h EXCEPT !.list = l, !.num_free_blocks = blocks, !.num_free_bytes = bytes]
<1>1. /\ x \in Blocks /\ x.start \in Nat /\ x.size \in Nat /\ x.is_freed \in BOOLEAN
      /\ h \in Heaps /\ h.list \in Seq(Blocks) /\ h.overrun = "no"
      /\ h.num_free_blocks \in Int /\ h.num_free_bytes \in Int
  BY SoundParts DEF Sound
<1>2. b \in Blocks /\ b.start = x.start /\ b.size = x.size /\ ~b.is_freed
  BY <1>1, BlockIs, ZenonT(60)
<1>3. CASE x.is_freed
  <2>1. setUsed(h, i) = g
    <3>1. [h.list[i] EXCEPT !.is_freed = FALSE] = b
      BY <1>1, Marked
    <3> QED  BY <1>1, <1>3, <3>1 DEF setUsed, Heaps
  <2>2. l \in Seq(Blocks) /\ Swapped(l, h.list, i, b)
    <3> HIDE DEF b
    <3> QED  BY <1>1, <1>2 DEF Swapped
  <2>3. blocks \in Int /\ bytes \in Int
    BY <1>1
  <2>4. One(x) = 1 /\ FreeSize(x) = x.size
    BY <1>3 DEF One, FreeSize
  <2> HIDE DEF l, blocks, bytes
  <2>5. /\ g \in Heaps /\ g.list = l /\ g.brk = h.brk /\ g.overrun = "no"
        /\ g.num_free_blocks = blocks /\ g.num_free_bytes = bytes
        /\ g.num_allocated_blocks = h.num_allocated_blocks
        /\ g.num_allocated_bytes = h.num_allocated_bytes
        /\ g.num_meta_data_blocks = h.num_meta_data_blocks
    BY <1>1, <2>2, <2>3 DEF Heaps
  <2> HIDE DEF g, b
  <2> QED  BY <2>1, <2>2, <2>4, <2>5 DEF blocks, bytes, b
<1>4. CASE ~x.is_freed
  <2>1. setUsed(h, i) = h
    BY <1>4 DEF setUsed
  <2>2. b = x
    BY <1>1, <1>4 DEF Blocks, Block
  <2>3. Swapped(h.list, h.list, i, b)
    <3> HIDE DEF b
    <3> QED  BY <1>1, <1>2, <2>2 DEF Swapped
  <2>4. h.num_free_blocks = h.num_free_blocks - One(x)
    BY <1>1, <1>4 DEF One
  <2>5. h.num_free_bytes = h.num_free_bytes - FreeSize(x)
    BY <1>1, <1>4 DEF FreeSize
  <2> QED  BY <1>1, <2>1, <2>3, <2>4, <2>5
<1> QED  BY <1>1, <1>3, <1>4

LEMMA SetUsed ==
    ASSUME NEW h, Sound(h), NEW i \in 1 .. Len(h.list)
    PROVE  LET b == Block(h.list[i].start, h.list[i].size, FALSE) IN
           /\ Sound(setUsed(h, i))
           /\ Used(setUsed(h, i).list) = (Used(h.list) \ {h.list[i]}) \cup {b}
           /\ Swapped(setUsed(h, i).list, h.list, i, b)
<1> DEFINE x == h.list[i]
           b == Block(x.start, x.size, FALSE)
           g == setUsed(h, i)
<1>1. /\ g \in Heaps /\ g.brk = h.brk /\ g.overrun = "no"
      /\ Swapped(g.list, h.list, i, b)
      /\ g.num_free_blocks = h.num_free_blocks - One(x)
      /\ g.num_free_bytes = h.num_free_bytes - FreeSize(x)
      /\ g.num_allocated_blocks = h.num_allocated_blocks
      /\ g.num_allocated_bytes = h.num_allocated_bytes
      /\ g.num_meta_data_blocks = h.num_meta_data_blocks
  BY SetUsedIs
<1>2. x.start \in Nat /\ x.size \in Nat /\ h.num_allocated_bytes \in Int
  BY SoundParts
<1>3. b.start = x.start /\ b.size = x.size /\ ~b.is_freed
  BY <1>2, BlockIs, ZenonT(60)
<1>4. One(b) = 0 /\ FreeSize(b) = 0 /\ InUse(b) = {b}
  BY <1>3 DEF One, FreeSize, InUse
<1> HIDE DEF g, b
<1>5. Laid(g.list, g.brk)
  BY <1>1, <1>3, SoundParts, LaidSwapped
<1>6. Sound(g) /\ Used(g.list) = (Used(h.list) \ {x}) \cup InUse(b)
  <2>1. g.num_free_blocks \in Int /\ g.num_free_bytes \in Int
    BY <1>1 DEF Heaps
  <2>2. /\ g.num_free_blocks = h.num_free_blocks - One(x) + One(b)
        /\ g.num_free_bytes = h.num_free_bytes - FreeSize(x) + FreeSize(b)
        /\ g.num_allocated_bytes = h.num_allocated_bytes - x.size + b.size
    BY <1>1, <1>2, <1>3, <1>4, <2>1
  <2>3. SwapInto(g, h, i, b)
    BY <1>1, <1>5, <2>2 DEF SwapInto
  <2> QED  BY <2>3, SoundSwapped
<1> QED  BY <1>1, <1>4, <1>6 DEF g, b

LEMMA ConnectKeeps ==
    ASSUME NEW h, NEW i, "overrun" \in DOMAIN h
    PROVE  "overrun" \in DOMAIN connect(h, i) /\ connect(h, i).overrun = h.overrun
BY DEF connect

LEMMA ConnectSound ==
    ASSUME NEW h, Sound(h), NEW i \in 1 .. Len(h.list) - 1, h.list[i + 1].is_freed
    PROVE  LET x == h.list[i]
               b == Block(x.start, x.size + h.list[i + 1].size + Meta, x.is_freed) IN
           /\ Sound(connect(h, i))
           /\ Used(connect(h, i).list) = (Used(h.list) \ {x}) \cup InUse(b)
           /\ Joined(connect(h, i).list, h.list, i, b)
<1> DEFINE x == h.list[i]
           y == h.list[i + 1]
           b == Block(x.start, x.size + y.size + Meta, x.is_freed)
           l == ReplaceAt(RemoveAt(h.list, i + 1), i, b)
           more == FreeBytesOfConnect(x, y)
           free_blocks == h.num_free_blocks - 1
           blocks == h.num_allocated_blocks - 1
           bytes == h.num_allocated_bytes + 1 * Meta
           free_bytes == h.num_free_bytes + more
           nodes == h.num_meta_data_blocks - 1
           g == [h EXCEPT !.list = l,
                          !.num_free_blocks = free_blocks,
                          !.num_allocated_blocks = blocks,
                          !.num_allocated_bytes = bytes,
                          !.num_free_bytes = free_bytes,
                          !.num_meta_data_blocks = nodes]
<1>1. /\ i \in 1 .. Len(h.list) /\ i + 1 \in 1 .. Len(h.list)
      /\ h.list \in Seq(Blocks) /\ Len(h.list) \in Nat /\ Meta \in Nat
  BY SoundParts, MetaAssumption
<1>2. /\ x \in Blocks /\ x.start \in Nat /\ x.size \in Nat /\ x.is_freed \in BOOLEAN
      /\ y \in Blocks /\ y.start \in Nat /\ y.size \in Nat /\ y.is_freed
  BY <1>1, SoundParts
<1>3. /\ h \in Heaps /\ h.overrun = "no"
      /\ h.num_free_blocks \in Int /\ h.num_free_bytes \in Int
      /\ h.num_allocated_blocks \in Int /\ h.num_allocated_bytes \in Int
      /\ h.num_meta_data_blocks \in Int
  BY SoundParts DEF Sound
<1>4. /\ b \in Blocks /\ b.start = x.start /\ b.size = x.size + y.size + Meta
      /\ b.is_freed = x.is_freed
  <2>1. x.size + y.size + Meta \in Nat
    <3>1. \A p, q, r \in Nat : p + q + r \in Nat
      OBVIOUS
    <3> QED  BY <1>1, <1>2, <3>1
  <2> QED  BY <1>2, <2>1, BlockIs
<1>5. connect(h, i) = g
  <2>1. [h.list[i] EXCEPT !.size = @ + h.list[i + 1].size + Meta] = b
    BY <1>2 DEF Block, Blocks
  <2> QED  BY <1>2, <1>3, <2>1 DEF connect, Heaps
<1>6. /\ l \in Seq(Blocks) /\ Joined(l, h.list, i, b)
  <2> DEFINE r == RemoveAt(h.list, i + 1)
  <2>1. /\ r \in Seq(Blocks) /\ Len(r) = Len(h.list) - 1
        /\ \A k \in 1 .. Len(h.list) - 1 :
              r[k] = IF k < i + 1 THEN h.list[k] ELSE h.list[k + 1]
    BY <1>1, RemovePlaces
  <2> HIDE DEF r, b, x, y
  <2>2. l = [r EXCEPT ![i] = b]
    BY DEF ReplaceAt, r
  <2> HIDE DEF l
  <2>3. l \in Seq(Blocks) /\ Len(l) = Len(h.list) - 1
    BY <1>4, <2>1, <2>2
  <2>4. ASSUME NEW k \in 1 .. Len(h.list) - 1
        PROVE  l[k] = IF k < i THEN h.list[k] ELSE IF k = i THEN b ELSE h.list[k + 1]
    <3>1. l[k] = IF k = i THEN b ELSE r[k]
      BY <1>1, <2>1, <2>2
    <3>2. k \in Int /\ i \in Int
      BY <1>1
    <3> QED  BY <2>1, <3>1, <3>2
  <2> QED  BY <1>1, <1>4, <2>3, <2>4 DEF Joined, x, y
<1>7. more \in Int /\ more = FreeSize(b) - FreeSize(x) - FreeSize(y)
  BY <1>1, <1>2, <1>4, SMTT(60) DEF FreeBytesOfConnect, FreeSize
<1> HIDE DEF l, more
<1>8. /\ g \in Heaps /\ g.list = l /\ g.brk = h.brk /\ g.overrun = "no"
      /\ g.num_free_blocks = free_blocks /\ g.num_free_bytes = free_bytes
      /\ g.num_allocated_blocks = blocks /\ g.num_allocated_bytes = bytes
      /\ g.num_meta_data_blocks = nodes
  <2>1. /\ free_blocks \in Int /\ blocks \in Int /\ bytes \in Int
        /\ free_bytes \in Int /\ nodes \in Int
    BY <1>1, <1>3, <1>7, SMTT(60)
  <2> HIDE DEF free_blocks, blocks, bytes, free_bytes, nodes
  <2> QED  BY <1>3, <1>6, <2>1 DEF Heaps
<1> HIDE DEF g, b
<1>9. Sound(g) /\ Used(g.list) = (Used(h.list) \ {x, y}) \cup InUse(b)
  <2>1. One(x) = One(b) /\ One(y) = 1 /\ One(b) \in Int
    BY <1>2, <1>4 DEF One
  <2>2. FreeSize(x) \in Int /\ FreeSize(y) \in Int /\ FreeSize(b) \in Int
    BY <1>1, <1>2, <1>4 DEF FreeSize
  <2> HIDE DEF x, y
  <2>3. g.num_free_blocks = h.num_free_blocks - One(x) - One(y) + One(b)
    BY <1>3, <1>8, <2>1
  <2>4. g.num_free_bytes = h.num_free_bytes - FreeSize(x) - FreeSize(y) + FreeSize(b)
    BY <1>3, <1>7, <1>8, <2>2
  <2>5. /\ g \in Heaps /\ g.overrun = "no" /\ g.brk = h.brk
        /\ Joined(g.list, h.list, i, b)
        /\ g.num_allocated_bytes = h.num_allocated_bytes + Meta
        /\ g.num_allocated_blocks = h.num_allocated_blocks - 1
        /\ g.num_meta_data_blocks = h.num_meta_data_blocks - 1
    BY <1>1, <1>6, <1>8
  <2> USE DEF x, y
  <2>6. JoinInto(g, h, i, b)
    BY <2>3, <2>4, <2>5 DEF JoinInto
  <2> QED  BY <2>5, <2>6, SoundJoined
<1>10. Used(h.list) \ {x, y} = Used(h.list) \ {x}
  BY <1>2 DEF Used
<1> QED  BY <1>5, <1>6, <1>8, <1>9, <1>10 DEF b

LEMMA MergedAt ==
    ASSUME NEW l \in Seq(Blocks), NEW i \in 1 .. Len(l), MergedBut(l, i),
           i > 1 => ~l[i - 1].is_freed, i < Len(l) => ~l[i + 1].is_freed
    PROVE  Merged(l)
<1> SUFFICES ASSUME NEW k \in 1 .. Len(l) - 1, l[k].is_freed /\ l[k + 1].is_freed
             PROVE  FALSE
  BY DEF Merged
<1>1. k = i \/ k + 1 = i
  BY DEF MergedBut
<1>2. k \in Int /\ i \in Int /\ Len(l) \in Int /\ k >= 1 /\ k <= Len(l) - 1
  OBVIOUS
<1>3. CASE k = i
  BY <1>2, <1>3
<1>4. CASE k + 1 = i
  <2>1. i > 1 /\ i - 1 = k
    BY <1>2, <1>4
  <2> QED  BY <2>1
<1> QED  BY <1>1, <1>3, <1>4

LEMMA JoinedBut ==
    ASSUME NEW m, NEW l, NEW i, NEW b, Joined(m, l, i, b), NEW j \in {i, i + 1},
           MergedBut(l, j)
    PROVE  MergedBut(m, i)
<1>1. /\ i \in 1 .. Len(l) - 1 /\ Len(m) = Len(l) - 1 /\ Len(l) \in Nat
      /\ \A k \in 1 .. Len(l) - 1 :
            m[k] = IF k < i THEN l[k] ELSE IF k = i THEN b ELSE l[k + 1]
  BY DEF Joined
<1> SUFFICES ASSUME NEW k \in 1 .. Len(m) - 1, m[k].is_freed, m[k + 1].is_freed,
                    k # i, k + 1 # i
             PROVE  FALSE
  BY DEF MergedBut
<1>2. k \in Int /\ i \in Int /\ 1 <= k /\ k <= Len(l) - 2 /\ (j = i \/ j = i + 1)
  BY <1>1
<1>3. CASE k + 1 < i
  <2>1. m[k] = l[k] /\ m[k + 1] = l[k + 1] /\ k \in 1 .. Len(l) - 1
    BY <1>1, <1>2, <1>3
  <2>2. k = j \/ k + 1 = j
    BY <2>1 DEF MergedBut
  <2> QED  BY <1>2, <1>3, <2>2
<1>4. CASE k > i
  <2>1. m[k] = l[k + 1] /\ m[k + 1] = l[k + 1 + 1] /\ k + 1 \in 1 .. Len(l) - 1
    BY <1>1, <1>2, <1>4, SMTT(60)
  <2>2. k + 1 = j \/ k + 1 + 1 = j
    BY <2>1 DEF MergedBut
  <2> QED  BY <1>2, <1>4, <2>2
<1> QED  BY <1>2, <1>3, <1>4

LEMMA ConnectFree ==
    ASSUME NEW h, Sound(h), NEW i \in 1 .. Len(h.list) - 1,
           h.list[i].is_freed, h.list[i + 1].is_freed
    PROVE  /\ Sound(connect(h, i)) /\ Used(connect(h, i).list) = Used(h.list)
           /\ \E b \in Blocks : b.is_freed /\ Joined(connect(h, i).list, h.list, i, b)
<1> DEFINE x == h.list[i]
           b == Block(x.start, x.size + h.list[i + 1].size + Meta, x.is_freed)
<1>1. /\ Sound(connect(h, i))
      /\ Used(connect(h, i).list) = (Used(h.list) \ {x}) \cup InUse(b)
      /\ Joined(connect(h, i).list, h.list, i, b)
  BY ConnectSound
<1>2. b \in Blocks /\ b.is_freed
  BY <1>1 DEF Joined, Block
<1>3. InUse(b) = {} /\ Used(h.list) \ {x} = Used(h.list)
  BY <1>2 DEF InUse, Used
<1> QED  BY <1>1, <1>2, <1>3

LEMMA Connected ==
    ASSUME NEW h, Sound(h), NEW i \in 1 .. Len(h.list), h.list[i].is_freed,
           MergedBut(h.list, i)
    PROVE  LET g == checkIfFreeAndConnect(h, i) IN
           /\ Sound(g) /\ Merged(g.list) /\ Used(g.list) = Used(h.list)
           /\ i > 1 /\ ~h.list[i - 1].is_freed => g.list[i - 1] = h.list[i - 1]
<1> DEFINE l == h.list
           g == checkIfFreeAndConnect(h, i)
<1>1. l \in Seq(Blocks) /\ Len(l) \in Nat /\ IsFree(h, i) /\ i \in Int /\ 1 <= i /\ i <= Len(l)
  BY SoundParts DEF IsFree
<1>2. CASE i > 1 /\ l[i - 1].is_freed
  <2> DEFINE h1 == connect(h, i - 1)
  <2>1. i - 1 \in 1 .. Len(l) - 1 /\ i - 1 + 1 = i /\ IsFree(h, i - 1)
    BY <1>1, <1>2 DEF IsFree
  <2>2. /\ Sound(h1) /\ Used(h1.list) = Used(l)
        /\ \E b \in Blocks : b.is_freed /\ Joined(h1.list, l, i - 1, b)
    BY <1>2, <2>1, ConnectFree
  <2> HIDE DEF h1
  <2>3. PICK b \in Blocks : b.is_freed /\ Joined(h1.list, l, i - 1, b)
    BY <2>2
  <2>4. /\ h1.list \in Seq(Blocks) /\ Len(h1.list) = Len(l) - 1
        /\ h1.list[i - 1].is_freed
        /\ \A k \in 1 .. Len(l) - 1 : k < i - 1 => h1.list[k] = l[k]
        /\ \A k \in 1 .. Len(l) - 1 : k > i - 1 => h1.list[k] = l[k + 1]
    BY <2>1, <2>3 DEF Joined
  <2>5. MergedBut(h1.list, i - 1)
    BY <2>1, <2>3, JoinedBut
  <2>6. i > 2 => ~l[i - 2].is_freed
    <3> SUFFICES ASSUME i > 2, l[i - 2].is_freed PROVE FALSE
      OBVIOUS
    <3>1. i - 2 \in 1 .. Len(l) - 1 /\ (i - 2) + 1 = i - 1
      BY <1>1
    <3>2. i - 2 = i \/ (i - 2) + 1 = i
      BY <1>2, <3>1 DEF MergedBut
    <3> QED  BY <1>1, <3>2
  <2>7. CASE IsFree(h, i + 1)
    <3> DEFINE h2 == connect(h1, i - 1)
    <3>1. /\ i + 1 <= Len(l) /\ l[i + 1].is_freed
      BY <2>7 DEF IsFree
    <3>2. h1.list[i] = l[i + 1] /\ i - 1 \in 1 .. Len(h1.list) - 1
      BY <1>1, <2>1, <2>4, <3>1
    <3>3. /\ Sound(h2) /\ Used(h2.list) = Used(h1.list)
          /\ \E c \in Blocks : c.is_freed /\ Joined(h2.list, h1.list, i - 1, c)
      BY <2>1, <2>2, <2>4, <3>1, <3>2, ConnectFree
    <3>4. g = h2
      BY <1>1, <1>2, <2>1, <2>7 DEF checkIfFreeAndConnect, h1
    <3> HIDE DEF h2, g
    <3>5. PICK c \in Blocks : c.is_freed /\ Joined(h2.list, h1.list, i - 1, c)
      BY <3>3
    <3>6. /\ h2.list \in Seq(Blocks) /\ Len(h2.list) = Len(l) - 2
          /\ i - 1 \in 1 .. Len(h2.list)
          /\ \A k \in 1 .. Len(l) - 2 : k < i - 1 => h2.list[k] = h1.list[k]
          /\ \A k \in 1 .. Len(l) - 2 : k > i - 1 => h2.list[k] = h1.list[k + 1]
      BY <1>1, <2>1, <2>4, <3>1, <3>5 DEF Joined
    <3>7. MergedBut(h2.list, i - 1)
      BY <2>5, <3>5, JoinedBut
    <3>8. i - 1 > 1 => ~h2.list[i - 1 - 1].is_freed
      <4> SUFFICES ASSUME i - 1 > 1 PROVE ~h2.list[i - 1 - 1].is_freed
        OBVIOUS
      <4>1. i - 2 \in 1 .. Len(l) - 2 /\ i - 2 < i - 1 /\ i - 2 \in 1 .. Len(l) - 1
        BY <1>1, <3>1
      <4>2. h2.list[i - 2] = l[i - 2] /\ i > 2 /\ i - 1 - 1 = i - 2
        BY <1>1, <2>4, <3>6, <4>1
      <4> QED  BY <2>6, <4>2
    <3>9. i - 1 < Len(h2.list) => ~h2.list[i - 1 + 1].is_freed
      <4> SUFFICES ASSUME i - 1 < Len(h2.list), h2.list[i].is_freed PROVE FALSE
        BY <2>1
      <4>1. i \in 1 .. Len(l) - 2 /\ i > i - 1
        BY <1>1, <3>1, <3>6
      <4>2. h2.list[i] = h1.list[i + 1] /\ h1.list[i + 1] = l[i + 1 + 1]
        BY <1>1, <2>4, <3>6, <4>1
      <4>3. i + 1 = i \/ i + 1 + 1 = i
        <5>1. i + 1 \in 1 .. Len(l) - 1
          BY <1>1, <4>1
        <5> QED  BY <3>1, <4>2, <5>1 DEF MergedBut
      <4> QED  BY <1>1, <4>3
    <3>10. Merged(h2.list)
      BY <3>6, <3>7, <3>8, <3>9, MergedAt
    <3> QED  BY <1>2, <2>2, <3>3, <3>4, <3>10 DEF g
  <2>8. CASE ~IsFree(h, i + 1)
    <3>1. g = h1
      BY <1>1, <1>2, <2>1, <2>8 DEF checkIfFreeAndConnect, h1
    <3> HIDE DEF g
    <3>2. i - 1 > 1 => ~h1.list[i - 1 - 1].is_freed
      <4> SUFFICES ASSUME i - 1 > 1 PROVE ~h1.list[i - 1 - 1].is_freed
        OBVIOUS
      <4>1. i - 2 \in 1 .. Len(l) - 1 /\ i - 2 < i - 1 /\ i - 1 - 1 = i - 2 /\ i > 2
        BY <1>1
      <4> QED  BY <2>4, <2>6, <4>1
    <3>3. i - 1 < Len(h1.list) => ~h1.list[i - 1 + 1].is_freed
      <4> SUFFICES ASSUME i - 1 < Len(h1.list) PROVE ~h1.list[i].is_freed
        BY <2>1
      <4>1. i \in 1 .. Len(l) - 1 /\ i > i - 1 /\ i + 1 <= Len(l)
        BY <1>1, <2>4
      <4> QED  BY <2>4, <2>8, <4>1 DEF IsFree
    <3>4. i - 1 \in 1 .. Len(h1.list)
      BY <2>1, <2>4
    <3>5. Merged(h1.list)
      BY <2>4, <2>5, <3>2, <3>3, <3>4, MergedAt
    <3> QED  BY <1>2, <2>2, <3>1, <3>5 DEF g
  <2> QED  BY <2>7, <2>8
<1>3. CASE ~(i > 1 /\ l[i - 1].is_freed) /\ IsFree(h, i + 1)
  <2> DEFINE h1 == connect(h, i)
  <2>1. i \in 1 .. Len(l) - 1 /\ l[i + 1].is_freed
    BY <1>1, <1>3 DEF IsFree
  <2>2. /\ Sound(h1) /\ Used(h1.list) = Used(l)
        /\ \E b \in Blocks : b.is_freed /\ Joined(h1.list, l, i, b)
    BY <2>1, ConnectFree
  <2>3. g = h1
    <3>1. ~(i > 1 /\ IsFree(h, i - 1))
      BY <1>3 DEF IsFree
    <3> QED  BY <1>1, <1>3, <3>1 DEF checkIfFreeAndConnect
  <2> HIDE DEF h1, g
  <2>4. PICK b \in Blocks : b.is_freed /\ Joined(h1.list, l, i, b)
    BY <2>2
  <2>5. /\ h1.list \in Seq(Blocks) /\ Len(h1.list) = Len(l) - 1
        /\ \A k \in 1 .. Len(l) - 1 : k < i => h1.list[k] = l[k]
        /\ \A k \in 1 .. Len(l) - 1 : k > i => h1.list[k] = l[k + 1]
    BY <2>4 DEF Joined
  <2>6. MergedBut(h1.list, i)
    BY <2>4, JoinedBut
  <2>7. i > 1 => ~h1.list[i - 1].is_freed
    <3> SUFFICES ASSUME i > 1 PROVE ~h1.list[i - 1].is_freed
      OBVIOUS
    <3>1. i - 1 \in 1 .. Len(l) - 1 /\ i - 1 < i
      BY <1>1, <2>1
    <3> QED  BY <1>3, <2>5, <3>1
  <2>8. i < Len(h1.list) => ~h1.list[i + 1].is_freed
    <3> SUFFICES ASSUME i < Len(h1.list), h1.list[i + 1].is_freed PROVE FALSE
      OBVIOUS
    <3>1. i + 1 \in 1 .. Len(l) - 1 /\ i + 1 > i
      BY <1>1, <2>5
    <3>2. h1.list[i + 1] = l[i + 1 + 1]
      BY <2>5, <3>1
    <3>3. i + 1 = i \/ i + 1 + 1 = i
      BY <2>1, <3>1, <3>2 DEF MergedBut
    <3> QED  BY <1>1, <3>3
  <2>9. i \in 1 .. Len(h1.list)
    BY <2>1, <2>5
  <2>10. Merged(h1.list)
    BY <2>5, <2>6, <2>7, <2>8, <2>9, MergedAt
  <2>11. i > 1 => h1.list[i - 1] = l[i - 1]
    <3> SUFFICES ASSUME i > 1 PROVE h1.list[i - 1] = l[i - 1]
      OBVIOUS
    <3>1. i - 1 \in 1 .. Len(l) - 1 /\ i - 1 < i
      BY <1>1, <2>1
    <3> QED  BY <2>5, <3>1
  <2> QED  BY <2>2, <2>3, <2>10, <2>11 DEF g
<1>4. CASE ~(i > 1 /\ l[i - 1].is_freed) /\ ~IsFree(h, i + 1)
  <2>1. i > 1 => ~IsFree(h, i - 1) /\ ~l[i - 1].is_freed
    BY <1>4 DEF IsFree
  <2>2. i < Len(l) => ~l[i + 1].is_freed
    BY <1>1, <1>4 DEF IsFree
  <2>3. g = h
    BY <1>1, <1>4, <2>1 DEF checkIfFreeAndConnect
  <2>4. Merged(l)
    BY <1>1, <2>1, <2>2, MergedAt
  <2> QED  BY <2>3, <2>4
<1> QED  BY <1>2, <1>3, <1>4

LEMMA SwappedBut ==
    ASSUME NEW m, NEW l, NEW i, NEW b, Swapped(m, l, i, b), Merged(l)
    PROVE  MergedBut(m, i) /\ (~b.is_freed => Merged(m))
<1>1. /\ Len(m) = Len(l) /\ Len(l) \in Nat /\ i \in 1 .. Len(l)
      /\ \A k \in 1 .. Len(l) : m[k] = IF k = i THEN b ELSE l[k]
  BY DEF Swapped
<1>2. MergedBut(m, i)
  <2> SUFFICES ASSUME NEW k \in 1 .. Len(l) - 1, m[k].is_freed, m[k + 1].is_freed,
                      k # i, k + 1 # i
               PROVE  FALSE
    BY <1>1 DEF MergedBut
  <2>1. k \in 1 .. Len(l) /\ k + 1 \in 1 .. Len(l)
    BY <1>1
  <2>2. m[k] = l[k] /\ m[k + 1] = l[k + 1]
    BY <1>1, <2>1
  <2> QED  BY <2>2 DEF Merged
<1>3. ASSUME ~b.is_freed PROVE Merged(m)
  <2> SUFFICES ASSUME NEW k \in 1 .. Len(m) - 1, m[k].is_freed, m[k + 1].is_freed
               PROVE  FALSE
    BY DEF Merged
  <2>1. k = i \/ k + 1 = i
    BY <1>2 DEF MergedBut
  <2>2. m[i] = b
    BY <1>1
  <2> QED  BY <1>3, <2>1, <2>2
<1> QED  BY <1>2, <1>3

LEMMA OpenedBut ==
    ASSUME NEW m, NEW l, NEW i, NEW c, Opened(m, l, i + 1, c), Merged(l),
           i \in 1 .. Len(l), ~l[i].is_freed
    PROVE  MergedBut(m, i + 1)
<1>1. /\ Len(m) = Len(l) + 1 /\ Len(l) \in Nat
      /\ \A k \in 1 .. Len(l) + 1 :
            m[k] = IF k < i + 1 THEN l[k] ELSE IF k = i + 1 THEN c ELSE l[k - 1]
  BY DEF Opened
<1> SUFFICES ASSUME NEW k \in 1 .. Len(l), m[k].is_freed, m[k + 1].is_freed,
                    k # i + 1, k + 1 # i + 1
             PROVE  FALSE
  BY <1>1 DEF MergedBut
<1>2. k \in Int /\ i \in Int /\ 1 <= k /\ k <= Len(l) /\ 1 <= i /\ i <= Len(l)
  BY <1>1
<1>3. CASE k + 1 < i + 1
  <2>1. /\ k \in 1 .. Len(l) + 1 /\ k + 1 \in 1 .. Len(l) + 1 /\ k < i + 1
        /\ k \in 1 .. Len(l) - 1
    BY <1>1, <1>2, <1>3
  <2>2. m[k] = l[k] /\ m[k + 1] = l[k + 1]
    BY <1>1, <1>3, <2>1
  <2> QED  BY <2>1, <2>2 DEF Merged
<1>4. CASE k > i + 1
  <2>1. /\ k \in 1 .. Len(l) + 1 /\ k + 1 \in 1 .. Len(l) + 1 /\ k + 1 > i + 1
        /\ k - 1 \in 1 .. Len(l) - 1 /\ (k - 1) + 1 = k /\ (k + 1) - 1 = k
    BY <1>1, <1>2, <1>4
  <2>2. m[k] = l[k - 1] /\ m[k + 1] = l[k]
    BY <1>1, <1>2, <1>4, <2>1
  <2> QED  BY <2>1, <2>2 DEF Merged
<1> QED  BY <1>2, <1>3, <1>4

LEMMA SplitSound ==
    ASSUME NEW h, Sound(h), Merged(h.list), NEW i \in 1 .. Len(h.list), NEW req \in Nat,
           Left(h.list[i], req) >= 0
    PROVE  LET g == split(h, i, req)
               x == h.list[i] IN
           /\ Sound(g) /\ Merged(g.list)
           /\ Used(g.list) = (Used(h.list) \ {x}) \cup {Block(x.start, req, FALSE)}
           /\ g.list[i].start = x.start
<1> DEFINE x == h.list[i]
           b == Block(x.start, req, FALSE)
           c == Rest(x, req)
           u == setUsed(h, i)
           n == [u.list EXCEPT ![i].size = req]
           m == InsertAt(n, i + 1, c)
           cut == [u EXCEPT
                     !.list = InsertAt([@ EXCEPT ![i].size = req], i + 1, c),
                     !.num_meta_data_blocks = @ + 1,
                     !.num_allocated_blocks = @ + 1,
                     !.num_allocated_bytes = @ - Meta,
                     !.num_free_blocks = @ + 1,
                     !.num_free_bytes = @ + c.size,
                     !.overrun = IF Left(h.list[i], req) >= 0 THEN @
                                 ELSE IF h.list[i].is_freed THEN "search"
                                 ELSE "realloc"]
<1>1. /\ x \in Blocks /\ x.start \in Nat /\ x.size \in Nat
      /\ h.list \in Seq(Blocks) /\ Len(h.list) \in Nat /\ Meta \in Nat /\ i \in Int
  BY SoundParts, MetaAssumption
<1>2. /\ u \in Heaps /\ u.brk = h.brk /\ u.overrun = "no"
      /\ Swapped(u.list, h.list, i, Block(x.start, x.size, FALSE))
      /\ u.num_free_blocks = h.num_free_blocks - One(x)
      /\ u.num_free_bytes = h.num_free_bytes - FreeSize(x)
      /\ u.num_allocated_blocks = h.num_allocated_blocks
      /\ u.num_allocated_bytes = h.num_allocated_bytes
      /\ u.num_meta_data_blocks = h.num_meta_data_blocks
  BY SetUsedIs
<1>3. b \in Blocks /\ b.start = x.start /\ b.size = req /\ ~b.is_freed
  BY <1>1, BlockIs, ZenonT(60)
<1>4. /\ c \in Blocks /\ c.start = x.start + req + Meta /\ c.size = x.size - req - Meta
      /\ c.is_freed /\ c.size \in Nat
  <2>1. x.start + req + Meta \in Nat /\ x.size - req - Meta \in Nat
    BY <1>1, SMTT(60) DEF Left
  <2> QED  BY <2>1, BlockIs DEF Rest, Left
<1> HIDE DEF u
<1>5. n \in Seq(Blocks) /\ Len(n) = Len(h.list) /\ Swapped(n, h.list, i, b)
  <2>1. /\ u.list \in Seq(Blocks) /\ Len(u.list) = Len(h.list)
        /\ u.list[i] = Block(x.start, x.size, FALSE)
        /\ \A k \in 1 .. Len(h.list) : k # i => u.list[k] = h.list[k]
    BY <1>2 DEF Swapped
  <2>2. [u.list[i] EXCEPT !.size = req] = b
    <3>1. Resized(Block(x.start, x.size, FALSE), req) = b
      BY SizedBlock
    <3> QED  BY <2>1, <3>1 DEF Resized
  <2> HIDE DEF b
  <2>3. n = [u.list EXCEPT ![i] = b]
    BY <2>2
  <2> HIDE DEF n
  <2>4. n \in Seq(Blocks) /\ Len(n) = Len(h.list)
    BY <1>3, <2>1, <2>3
  <2>5. \A k \in 1 .. Len(h.list) : n[k] = IF k = i THEN b ELSE h.list[k]
    BY <2>1, <2>3
  <2> QED  BY <1>1, <1>3, <2>4, <2>5 DEF Swapped
<1> HIDE DEF n, b, c
<1>6. m \in Seq(Blocks) /\ Opened(m, n, i + 1, c)
  <2>1. i + 1 \in 1 .. Len(n) + 1
    BY <1>1, <1>5
  <2> QED  BY <1>4, <1>5, <2>1, OpenedAt DEF Opened
<1> HIDE DEF m
<1>7. CutInto(cut, h, i, n, b, c) /\ cut.list = m
  <2>1. /\ u.num_free_blocks \in Int /\ u.num_free_bytes \in Int
        /\ u.num_allocated_blocks \in Int /\ u.num_allocated_bytes \in Int
        /\ u.num_meta_data_blocks \in Int
    BY <1>2 DEF Heaps
  <2> DEFINE nodes == u.num_meta_data_blocks + 1
             blocks == u.num_allocated_blocks + 1
             bytes == u.num_allocated_bytes - Meta
             free_blocks == u.num_free_blocks + 1
             free_bytes == u.num_free_bytes + c.size
             cutNow == [u EXCEPT !.list = m, !.num_meta_data_blocks = nodes,
                                 !.num_allocated_blocks = blocks,
                                 !.num_allocated_bytes = bytes,
                                 !.num_free_blocks = free_blocks,
                                 !.num_free_bytes = free_bytes,
                                 !.overrun = "no"]
  <2>2. cut = cutNow
    BY <1>2 DEF Heaps, m, n
  <2>3. /\ nodes \in Int /\ blocks \in Int /\ bytes \in Int
        /\ free_blocks \in Int /\ free_bytes \in Int
    <3>1. c.size \in Int /\ Meta \in Int
      BY <1>1, <1>4
    <3> HIDE DEF x
    <3> QED  BY <2>1, <3>1, SMTT(60)
  <2> HIDE DEF nodes, blocks, bytes, free_blocks, free_bytes, cut
  <2>4. /\ cutNow \in Heaps /\ cutNow.list = m /\ cutNow.brk = u.brk
        /\ cutNow.overrun = "no"
        /\ cutNow.num_meta_data_blocks = nodes
        /\ cutNow.num_allocated_blocks = blocks
        /\ cutNow.num_allocated_bytes = bytes
        /\ cutNow.num_free_blocks = free_blocks
        /\ cutNow.num_free_bytes = free_bytes
    BY <1>2, <1>6, <2>3 DEF Heaps
  <2> HIDE DEF cutNow
  <2>5. One(b) = 0 /\ One(c) = 1 /\ FreeSize(b) = 0 /\ FreeSize(c) = c.size
    BY <1>3, <1>4 DEF One, FreeSize
  <2>6. /\ free_blocks = h.num_free_blocks - One(x) + One(b) + One(c)
        /\ free_bytes = h.num_free_bytes - FreeSize(x) + FreeSize(b) + FreeSize(c)
    BY <1>2, <1>4, <2>1, <2>5 DEF free_blocks, free_bytes
  <2>7. /\ c.start = b.start + b.size + Meta /\ c.start + c.size = x.start + x.size
    BY <1>1, <1>3, <1>4, SMTT(60)
  <2>8. Swapped(n, h.list, i, b) /\ Opened(cutNow.list, n, i + 1, c)
    BY <1>5, <1>6, <2>4
  <2> QED  BY <1>2, <2>2, <2>4, <2>6, <2>7, <2>8 DEF CutInto, nodes, blocks, bytes
<1> HIDE DEF cut
<1>8. /\ Sound(cut)
      /\ Used(cut.list) = (Used(h.list) \ {x}) \cup InUse(b) \cup InUse(c)
  BY <1>7, SoundCut
<1>9. InUse(b) = {b} /\ InUse(c) = {}
  BY <1>3, <1>4 DEF InUse
<1>10. MergedBut(cut.list, i + 1)
  <2>1. Merged(n)
    BY <1>3, <1>5, SwappedBut
  <2>2. ~n[i].is_freed
    BY <1>3, <1>5 DEF Swapped
  <2> QED  BY <1>5, <1>6, <1>7, <2>1, <2>2, OpenedBut
<1>11. i + 1 \in 1 .. Len(cut.list) /\ cut.list[i + 1].is_freed
  BY <1>1, <1>4, <1>5, <1>6, <1>7 DEF Opened
<1>12. split(h, i, req) = checkIfFreeAndConnect(cut, i + 1)
  BY DEF split, cut, u, c
<1> DEFINE g == checkIfFreeAndConnect(cut, i + 1)
<1>13. /\ Sound(g) /\ Merged(g.list) /\ Used(g.list) = Used(cut.list)
       /\ i + 1 > 1 /\ ~cut.list[i + 1 - 1].is_freed
             => g.list[i + 1 - 1] = cut.list[i + 1 - 1]
  <2> DEFINE j == i + 1
             r == checkIfFreeAndConnect(cut, j)
  <2>1. j \in 1 .. Len(cut.list) /\ cut.list[j].is_freed /\ MergedBut(cut.list, j)
    BY <1>10, <1>11
  <2> HIDE DEF j
  <2>2. /\ Sound(r) /\ Merged(r.list) /\ Used(r.list) = Used(cut.list)
        /\ j > 1 /\ ~cut.list[j - 1].is_freed => r.list[j - 1] = cut.list[j - 1]
    BY <1>8, <2>1, Connected
  <2> QED  BY <2>2 DEF j
<1> HIDE DEF g
<1>14. g.list[i].start = x.start
  <2>1. cut.list[i] = n[i] /\ n[i] = b
    BY <1>1, <1>5, <1>6, <1>7, SMTT(60) DEF Opened, Swapped
  <2>2. i + 1 > 1 /\ i + 1 - 1 = i
    BY <1>1
  <2>3. g.list[i] = b
    BY <1>3, <1>13, <2>1, <2>2
  <2> QED  BY <1>3, <2>3
<1> QED  BY <1>8, <1>9, <1>12, <1>13, <1>14 DEF b, g

LEMMA CheckKeeps ==
    ASSUME NEW h, NEW i, "overrun" \in DOMAIN h
    PROVE  /\ "overrun" \in DOMAIN checkIfFreeAndConnect(h, i)
           /\ checkIfFreeAndConnect(h, i).overrun = h.overrun
<1>1. \A k : /\ "overrun" \in DOMAIN connect(h, k)
             /\ connect(h, k).overrun = h.overrun
  BY ConnectKeeps
<1>2. \A k : /\ "overrun" \in DOMAIN connect(connect(h, i - 1), k)
             /\ connect(connect(h, i - 1), k).overrun = h.overrun
  BY <1>1, ConnectKeeps
<1> QED  BY <1>1, <1>2 DEF checkIfFreeAndConnect

(* Line 236: a block that has no room for the node. *)
LEMMA SplitOverruns ==
    ASSUME NEW h, Sound(h), NEW i \in 1 .. Len(h.list), NEW req \in Nat,
           ~(Left(h.list[i], req) >= 0)
    PROVE  "overrun" \in DOMAIN split(h, i, req) /\ split(h, i, req).overrun # "no"
<1> DEFINE u == setUsed(h, i)
           c == Rest(h.list[i], req)
           cut == [u EXCEPT
                     !.list = InsertAt([@ EXCEPT ![i].size = req], i + 1, c),
                     !.num_meta_data_blocks = @ + 1,
                     !.num_allocated_blocks = @ + 1,
                     !.num_allocated_bytes = @ - Meta,
                     !.num_free_blocks = @ + 1,
                     !.num_free_bytes = @ + c.size,
                     !.overrun = IF Left(h.list[i], req) >= 0 THEN @
                                 ELSE IF h.list[i].is_freed THEN "search"
                                 ELSE "realloc"]
<1>1. split(h, i, req) = checkIfFreeAndConnect(cut, i + 1)
  BY DEF split
<1>2. u \in Heaps
  BY SetUsedIs
<1> HIDE DEF u, c
<1>3. "overrun" \in DOMAIN cut /\ cut.overrun \in {"search", "realloc"}
  BY <1>2 DEF Heaps
<1> HIDE DEF cut
<1> QED  BY <1>1, <1>3, CheckKeeps

LEMMA WildernessSound ==
    ASSUME NEW h, Sound(h), Merged(h.list), Len(h.list) > 0, NEW req \in Nat,
           req >= h.list[Len(h.list)].size
    PROVE  LET g == wilderness(h, req)
               x == h.list[Len(h.list)] IN
           /\ Sound(g) /\ Merged(g.list)
           /\ Used(g.list) = (Used(h.list) \ {x}) \cup {Block(x.start, req, FALSE)}
           /\ g.list[Len(h.list)].start = x.start
<1> DEFINE last == Len(h.list)
           x == h.list[last]
           b == Block(x.start, req, FALSE)
           offset == req - x.size
           u == setUsed(h, last)
           l == [u.list EXCEPT ![last].size = @ + offset]
           brk == u.brk + offset
           bytes == u.num_allocated_bytes + offset
           g == [u EXCEPT !.list = l, !.brk = brk, !.num_allocated_bytes = bytes]
<1>1. last \in 1 .. Len(h.list) /\ h.list \in Seq(Blocks)
  BY SoundParts
<1>2. /\ x.start \in Nat /\ x.size \in Nat /\ offset \in Nat /\ x.size + offset = req
      /\ h.brk \in Nat /\ h.num_allocated_bytes \in Int
  <2>1. x.start \in Nat /\ x.size \in Nat /\ h.brk \in Nat /\ h.num_allocated_bytes \in Int
    BY <1>1, SoundParts
  <2> QED  BY <2>1
<1>3. b \in Blocks /\ b.start = x.start /\ b.size = req /\ ~b.is_freed
  BY <1>2, BlockIs, ZenonT(60)
<1>4. /\ u \in Heaps /\ u.brk = h.brk /\ u.overrun = "no"
      /\ Swapped(u.list, h.list, last, Block(x.start, x.size, FALSE))
      /\ u.num_free_blocks = h.num_free_blocks - One(x)
      /\ u.num_free_bytes = h.num_free_bytes - FreeSize(x)
      /\ u.num_allocated_blocks = h.num_allocated_blocks
      /\ u.num_allocated_bytes = h.num_allocated_bytes
      /\ u.num_meta_data_blocks = h.num_meta_data_blocks
  BY <1>1, SetUsedIs
<1> HIDE DEF u
<1>5. wilderness(h, req) = g
  <2>1. Len(u.list) = last
    BY <1>4 DEF Swapped
  <2> QED  BY <1>4, <2>1 DEF wilderness, Heaps, u
<1>6. l \in Seq(Blocks) /\ Swapped(l, h.list, last, b)
  <2>1. /\ u.list \in Seq(Blocks) /\ Len(u.list) = last
        /\ u.list[last] = Block(x.start, x.size, FALSE)
        /\ \A k \in 1 .. last : k # last => u.list[k] = h.list[k]
    BY <1>4 DEF Swapped
  <2>2. [u.list[last] EXCEPT !.size = @ + offset] = b
    <3>1. Block(x.start, x.size, FALSE).size = x.size
      BY DEF Block
    <3>2. u.list[last].size + offset = req
      BY <1>2, <2>1, <3>1
    <3>3. Resized(Block(x.start, x.size, FALSE), req) = b
      BY SizedBlock
    <3>4. Resized(u.list[last], req) = b
      BY <2>1, <3>3
    <3> QED  BY <3>2, <3>4 DEF Resized
  <2> HIDE DEF b
  <2>3. l = [u.list EXCEPT ![last] = b]
    BY <2>2
  <2> HIDE DEF l
  <2>4. l \in Seq(Blocks) /\ Len(l) = last
    BY <1>3, <2>1, <2>3
  <2>5. \A k \in 1 .. last : l[k] = IF k = last THEN b ELSE h.list[k]
    BY <1>1, <2>1, <2>3
  <2> QED  BY <1>1, <1>3, <2>4, <2>5 DEF Swapped
<1>7. brk \in Int /\ bytes \in Int /\ brk = h.brk + offset
  BY <1>2, <1>4, SMTT(60)
<1> HIDE DEF l, brk, bytes
<1>8. /\ g \in Heaps /\ g.list = l /\ g.brk = brk /\ g.overrun = "no"
      /\ g.num_free_blocks = u.num_free_blocks /\ g.num_free_bytes = u.num_free_bytes
      /\ g.num_allocated_blocks = u.num_allocated_blocks
      /\ g.num_allocated_bytes = bytes
      /\ g.num_meta_data_blocks = u.num_meta_data_blocks
  BY <1>4, <1>6, <1>7 DEF Heaps
<1> HIDE DEF g, b, offset
<1>9. Laid(g.list, g.brk)
  BY <1>2, <1>3, <1>6, <1>7, <1>8, SoundParts, LaidGrown
<1>10. Sound(g) /\ Used(g.list) = (Used(h.list) \ {x}) \cup InUse(b)
  <2>1. One(b) = 0 /\ FreeSize(b) = 0
    BY <1>3 DEF One, FreeSize
  <2>2. u.num_free_blocks \in Int /\ u.num_free_bytes \in Int
    BY <1>4 DEF Heaps
  <2>3. /\ g.num_free_blocks = h.num_free_blocks - One(x) + One(b)
        /\ g.num_free_bytes = h.num_free_bytes - FreeSize(x) + FreeSize(b)
    BY <1>4, <1>8, <2>1, <2>2
  <2>4. g.num_allocated_bytes = h.num_allocated_bytes - x.size + b.size
    BY <1>2, <1>3, <1>4, <1>8 DEF bytes
  <2>5. /\ Swapped(g.list, h.list, last, b) /\ g \in Heaps /\ g.overrun = "no"
        /\ g.num_allocated_blocks = h.num_allocated_blocks
        /\ g.num_meta_data_blocks = h.num_meta_data_blocks
    BY <1>4, <1>6, <1>8
  <2>6. SwapInto(g, h, last, b)
    BY <1>9, <2>3, <2>4, <2>5 DEF SwapInto
  <2> QED  BY <2>6, SoundSwapped
<1>11. Merged(g.list)
  BY <1>3, <1>6, <1>8, SwappedBut
<1>12. InUse(b) = {b} /\ g.list[last].start = x.start
  BY <1>1, <1>3, <1>6, <1>8 DEF InUse, Swapped
<1> QED  BY <1>5, <1>10, <1>11, <1>12 DEF b

LEMMA AppendOpens ==
    ASSUME NEW h, Sound(h), NEW req \in Nat
    PROVE  LET g == append(h, req)
               b == Block(h.brk + Meta, req, FALSE) IN
           /\ Sound(g) /\ Used(g.list) = Used(h.list) \cup {b}
           /\ Opened(g.list, h.list, Len(h.list) + 1, b)
<1> DEFINE b == Block(h.brk + Meta, req, FALSE)
           l == Append(h.list, b)
           brk == h.brk + Meta + req
           blocks == h.num_allocated_blocks + 1
           bytes == h.num_allocated_bytes + req
           nodes == h.num_meta_data_blocks + 1
           g == [h EXCEPT !.list = l, !.brk = brk, !.num_allocated_blocks = blocks,
                          !.num_allocated_bytes = bytes, !.num_meta_data_blocks = nodes]
<1>1. /\ h \in Heaps /\ h.overrun = "no" /\ h.list \in Seq(Blocks) /\ Len(h.list) \in Nat
      /\ h.brk \in Nat /\ Meta \in Nat /\ Laid(h.list, h.brk)
      /\ h.num_free_blocks \in Int /\ h.num_free_bytes \in Int
      /\ h.num_allocated_blocks \in Int /\ h.num_allocated_bytes \in Int
      /\ h.num_meta_data_blocks \in Int
  BY SoundParts, MetaAssumption DEF Sound
<1>2. b \in Blocks /\ b.start = h.brk + Meta /\ b.size = req /\ ~b.is_freed
  <2>1. h.brk + Meta \in Nat
    BY <1>1
  <2> QED  BY <2>1, BlockIs
<1>3. append(h, req) = g
  BY DEF append
<1> HIDE DEF b
<1>4. l \in Seq(Blocks) /\ Opened(l, h.list, Len(h.list) + 1, b)
  <2>1. /\ l \in Seq(Blocks) /\ Len(l) = Len(h.list) + 1
        /\ \A k \in 1 .. Len(h.list) + 1 : l[k] = IF k = Len(h.list) + 1 THEN b ELSE h.list[k]
    BY <1>1, <1>2
  <2> HIDE DEF l
  <2> QED  BY <1>1, <1>2, <2>1 DEF Opened
<1>5. brk \in Int /\ blocks \in Int /\ bytes \in Int /\ nodes \in Int
  BY <1>1
<1> HIDE DEF l, brk, blocks, bytes, nodes
<1>6. /\ g \in Heaps /\ g.list = l /\ g.brk = brk /\ g.overrun = "no"
      /\ g.num_free_blocks = h.num_free_blocks /\ g.num_free_bytes = h.num_free_bytes
      /\ g.num_allocated_blocks = blocks /\ g.num_allocated_bytes = bytes
      /\ g.num_meta_data_blocks = nodes
  BY <1>1, <1>4, <1>5 DEF Heaps
<1> HIDE DEF g
<1>7. Laid(g.list, g.brk)
  BY <1>1, <1>2, <1>4, <1>6, LaidAppended DEF brk
<1>8. b \notin Range(h.list)
  <2> SUFFICES ASSUME NEW k \in 1 .. Len(h.list) PROVE h.list[k].start # b.start
    BY <1>1, RangeOf
  <2>1. h.list[k].start + h.list[k].size <= h.brk
    BY <1>1, LaidDistinct
  <2>2. h.list[k].start \in Nat /\ h.list[k].size \in Nat /\ Meta > 0
    BY SoundParts, MetaAssumption
  <2> QED  BY <1>1, <1>2, <2>1, <2>2
<1>9. Sound(g) /\ Used(g.list) = Used(h.list) \cup InUse(b)
  <2>1. One(b) = 0 /\ FreeSize(b) = 0
    BY <1>2 DEF One, FreeSize
  <2>2. /\ g.num_free_blocks = h.num_free_blocks + One(b)
        /\ g.num_free_bytes = h.num_free_bytes + FreeSize(b)
    BY <1>1, <1>6, <2>1
  <2>3. /\ g.num_allocated_bytes = h.num_allocated_bytes + b.size
        /\ g.num_allocated_blocks = h.num_allocated_blocks + 1
        /\ g.num_meta_data_blocks = h.num_meta_data_blocks + 1
    BY <1>2, <1>6 DEF blocks, bytes, nodes
  <2>4. Opened(g.list, h.list, Len(h.list) + 1, b)
    BY <1>4, <1>6
  <2>5. OpenInto(g, h, Len(h.list) + 1, b)
    BY <1>6, <1>7, <1>8, <2>2, <2>3, <2>4 DEF OpenInto
  <2> QED  BY <2>5, SoundOpened
<1>10. InUse(b) = {b} /\ Opened(g.list, h.list, Len(h.list) + 1, b)
  BY <1>2, <1>4, <1>6 DEF InUse
<1> QED  BY <1>3, <1>9, <1>10 DEF b

LEMMA AppendSound ==
    ASSUME NEW h, Sound(h), Merged(h.list), NEW req \in Nat
    PROVE  LET g == append(h, req)
               b == Block(h.brk + Meta, req, FALSE) IN
           /\ Sound(g) /\ Merged(g.list)
           /\ Used(g.list) = Used(h.list) \cup {b}
           /\ g.list[Len(h.list) + 1].start = b.start
<1> DEFINE b == Block(h.brk + Meta, req, FALSE)
           g == append(h, req)
           l == g.list
<1>1. /\ Sound(g) /\ Used(g.list) = Used(h.list) \cup {b}
      /\ Opened(l, h.list, Len(h.list) + 1, b)
  BY AppendOpens
<1>2. ~b.is_freed /\ Len(h.list) \in Nat
  BY SoundParts DEF Block
<1> HIDE DEF b, g
<1>3. Len(l) = Len(h.list) + 1 /\ l[Len(h.list) + 1] = b
  BY <1>1, <1>2 DEF Opened
<1>4. Merged(l)
  <2> SUFFICES ASSUME NEW k \in 1 .. Len(h.list), l[k].is_freed, l[k + 1].is_freed
               PROVE  FALSE
    BY <1>2, <1>3 DEF Merged
  <2>1. CASE k = Len(h.list)
    BY <1>2, <1>3, <2>1
  <2>2. CASE k # Len(h.list)
    <3>1. /\ k \in 1 .. Len(h.list) - 1
          /\ k < Len(h.list) + 1 /\ k \in 1 .. Len(h.list) + 1
          /\ k + 1 < Len(h.list) + 1 /\ k + 1 \in 1 .. Len(h.list) + 1
      BY <1>2, <2>2
    <3>2. l[k] = h.list[k]
      BY <1>1, <3>1 DEF Opened
    <3>3. l[k + 1] = h.list[k + 1]
      BY <1>1, <3>1 DEF Opened
    <3> QED  BY <3>1, <3>2, <3>3 DEF Merged
  <2> QED  BY <2>1, <2>2
<1> QED  BY <1>1, <1>3, <1>4 DEF g, b

------------------------------------------------------------------------------
(* What malloc(), free() and the split of realloc() do to a heap. *)

(* The memory that a block gives lies between other blocks in use. *)
LEMMA UsedBlocks ==
    ASSUME NEW h, Sound(h)
    PROVE  /\ Used(h.list) = {h.list[i] : i \in {k \in 1 .. Len(h.list) : ~h.list[k].is_freed}}
           /\ \A b \in Used(h.list) : b \in Blocks /\ b.start + b.size <= h.brk
           /\ \A b, c \in Used(h.list) : b.start = c.start => b = c
           /\ \A b, c \in Used(h.list) : b.start < c.start => b.start + b.size <= c.start
<1>1. /\ h.list \in Seq(Blocks) /\ Laid(h.list, h.brk) /\ Distinct(h.list)
      /\ Len(h.list) \in Nat /\ Meta \in Nat
      /\ \A k \in 1 .. Len(h.list) : h.list[k].start \in Nat /\ h.list[k].size \in Nat
  BY SoundParts, MetaAssumption
<1>2. Range(h.list) = {h.list[k] : k \in 1 .. Len(h.list)}
  BY <1>1, RangeOf
<1>3. Used(h.list) = {h.list[i] : i \in {k \in 1 .. Len(h.list) : ~h.list[k].is_freed}}
  BY <1>2 DEF Used
<1>4. \A b \in Used(h.list) : b \in Blocks /\ b.start + b.size <= h.brk
  BY <1>1, <1>3, LaidDistinct
<1>5. \A b, c \in Used(h.list) : b.start = c.start => b = c
  BY <1>1, <1>3 DEF Distinct
<1>6. ASSUME NEW b \in Used(h.list), NEW c \in Used(h.list), b.start < c.start
      PROVE  b.start + b.size <= c.start
  <2>1. PICK i, j \in 1 .. Len(h.list) : b = h.list[i] /\ c = h.list[j]
    BY <1>3
  <2>2. ~(j < i) /\ j # i
    <3>1. j # i
      BY <1>1, <1>6, <2>1
    <3>2. ASSUME j < i PROVE FALSE
      <4>1. c.start + c.size + Meta <= b.start
        BY <1>1, <2>1, <3>2 DEF Laid
      <4>2. c.start \in Nat /\ c.size \in Nat /\ b.start \in Nat
        BY <1>1, <2>1
      <4> QED  BY <1>1, <1>6, <4>1, <4>2
    <3> QED  BY <3>1, <3>2
  <2>3. i < j
    BY <1>1, <2>2
  <2>4. b.start + b.size + Meta <= c.start
    BY <1>1, <2>1, <2>3 DEF Laid
  <2>5. c.start \in Nat /\ b.size \in Nat /\ b.start \in Nat
    BY <1>1, <2>1
  <2> QED  BY <1>1, <2>4, <2>5
<1> QED  BY <1>3, <1>4, <1>5, <1>6

(* From heap h to heap g the block in use x keeps its place, and has req   *)
(* bytes at least.                                                         *)
Sized(h, g, x, req) ==
    /\ Sound(g) /\ Merged(g.list)
    /\ \E b \in Blocks : /\ ~b.is_freed /\ b.start = x.start /\ b.size >= req
                         /\ Used(g.list) = (Used(h.list) \ {x}) \cup {b}

LEMMA SplitIfRoomSound ==
    ASSUME NEW h, Sound(h), Merged(h.list), NEW i \in 1 .. Len(h.list), NEW req \in Nat,
           ~h.list[i].is_freed, h.list[i].size >= req
    PROVE  LET g == SplitIfRoom(h, i, req)
               x == h.list[i] IN
           g.overrun = "no" => Sized(h, g, x, req)
<1> DEFINE g == SplitIfRoom(h, i, req)
           x == h.list[i]
<1>1. x \in Blocks /\ x.start \in Nat /\ x.size \in Nat /\ x \in Used(h.list)
  <2>1. x \in Blocks /\ x.start \in Nat /\ x.size \in Nat
    BY SoundParts
  <2>2. Used(h.list) = {h.list[k] : k \in {k \in 1 .. Len(h.list) : ~h.list[k].is_freed}}
    BY UsedBlocks
  <2>3. x \in Used(h.list)
    BY <2>2
  <2> QED  BY <2>1, <2>3
<1> SUFFICES ASSUME g.overrun = "no"
             PROVE  /\ Sound(g) /\ Merged(g.list)
                    /\ \E b \in Blocks :
                          /\ ~b.is_freed /\ b.start = x.start /\ b.size >= req
                          /\ Used(g.list) = (Used(h.list) \ {x}) \cup {b}
  BY DEF Sized
<1>2. CASE ~RoomToSplit(x, req)
  <2>1. g = h /\ Used(h.list) = (Used(h.list) \ {x}) \cup {x}
    BY <1>1, <1>2 DEF SplitIfRoom
  <2> QED  BY <1>1, <2>1
<1>3. CASE RoomToSplit(x, req)
  <2>1. g = split(h, i, req)
    BY <1>3 DEF SplitIfRoom
  <2>2. Left(x, req) >= 0
    BY <2>1, SplitOverruns
  <2> DEFINE b == Block(x.start, req, FALSE)
  <2>3. /\ Sound(g) /\ Merged(g.list)
        /\ Used(g.list) = (Used(h.list) \ {x}) \cup {b}
    BY <2>1, <2>2, SplitSound, ZenonT(60)
  <2>4. b \in Blocks /\ ~b.is_freed /\ b.start = x.start /\ b.size >= req
    <3>1. b \in Blocks /\ ~b.is_freed /\ b.start = x.start /\ b.size = req
      BY <1>1, BlockIs
    <3> HIDE DEF b
    <3> QED  BY <3>1
  <2> QED  BY <2>3, <2>4
<1> QED  BY <1>2, <1>3

LEMMA ReleasedSound ==
    ASSUME NEW h, Sound(h), Merged(h.list), NEW i \in 1 .. Len(h.list),
           ~h.list[i].is_freed
    PROVE  LET g == Released(h, i) IN
           Sound(g) /\ Merged(g.list) /\ Used(g.list) = Used(h.list) \ {h.list[i]}
<1> DEFINE u == setFree(h, i)
           x == h.list[i]
           b == Block(x.start, x.size, TRUE)
<1>1. /\ Sound(u) /\ Used(u.list) = Used(h.list) \ {x}
      /\ Swapped(u.list, h.list, i, b)
  BY SetFree
<1>2. b.is_freed
  BY DEF Block
<1>3. Released(h, i) = checkIfFreeAndConnect(u, i)
  BY DEF Released
<1> HIDE DEF u, b
<1>4. MergedBut(u.list, i) /\ i \in 1 .. Len(u.list) /\ u.list[i].is_freed
  BY <1>1, <1>2, SwappedBut DEF Swapped
<1> QED  BY <1>1, <1>3, <1>4, Connected

LEMMA MinIn ==
    ASSUME NEW S, S \subseteq Int, IsFiniteSet(S), S # {}
    PROVE  Min(S) \in S
<1> DEFINE Below(k) == {j \in S : j <= k}
           Bad == {Below(k) : k \in S}
<1>1. Bad \in SUBSET (SUBSET S) /\ Bad # {}
  OBVIOUS
<1> HIDE DEF Bad
<1>2. PICK T \in Bad : \A U \in SUBSET T : U # T => U \notin Bad
  BY <1>1, SmallestSet
<1>3. PICK k \in S : T = Below(k)
  BY <1>2 DEF Bad
<1>4. ASSUME NEW j \in S PROVE k <= j
  <2> SUFFICES ASSUME j < k PROVE FALSE
    BY <1>3
  <2>0. j \in Int /\ k \in Int
    OBVIOUS
  <2>1. Below(j) \in SUBSET T /\ k \in T /\ k \notin Below(j)
    <3>1. \A x \in S : x \in Int /\ (x <= j => x <= k)
      BY <2>0
    <3>2. k <= k /\ ~(k <= j)
      BY <2>0
    <3> QED  BY <1>3, <3>1, <3>2
  <2>2. Below(j) \in Bad
    BY DEF Bad
  <2> QED  BY <1>2, <2>1, <2>2
<1> QED  BY <1>4 DEF Min

(* malloc() finds memory that no block in use holds, and leaves the blocks *)
(* in use as they are.                                                     *)
Gives(h, found, req) ==
    LET g == found.heap IN
    /\ Sound(g) /\ Merged(g.list) /\ found.reused \in BOOLEAN
    /\ \E b \in Blocks :
          /\ ~b.is_freed /\ b.start = Pointer(found) /\ b.size >= req
          /\ \A c \in Used(h.list) : c.start # b.start
          /\ Used(g.list) = Used(h.list) \cup {b}

LEMMA FitsIn ==
    ASSUME NEW h, Sound(h), NEW req, Fits(h, req) # {}
    PROVE  LET i == Min(Fits(h, req)) IN
           i \in 1 .. Len(h.list) /\ h.list[i].is_freed /\ h.list[i].size >= req
<1>1. h.list \in Seq(Blocks) /\ Len(h.list) \in Nat
  BY SoundParts
<1>2. Fits(h, req) \subseteq 1 .. Len(h.list) /\ Fits(h, req) \subseteq Int
  BY <1>1 DEF Fits
<1>3. IsFiniteSet(Fits(h, req))
  <2>1. IsFiniteSet(1 .. Len(h.list))
    BY <1>1, FS_Interval
  <2> QED  BY <1>2, <2>1, FS_Subset
<1>4. Min(Fits(h, req)) \in Fits(h, req)
  BY <1>2, <1>3, MinIn
<1> QED  BY <1>2, <1>4 DEF Fits, IsFree

(* A block that takes the place of a free one. *)
LEMMA NotUsed ==
    ASSUME NEW h, Sound(h), NEW i \in 1 .. Len(h.list), h.list[i].is_freed
    PROVE  /\ \A c \in Used(h.list) : c.start # h.list[i].start
           /\ Used(h.list) \ {h.list[i]} = Used(h.list)
<1>1. Used(h.list) = {h.list[k] : k \in {k \in 1 .. Len(h.list) : ~h.list[k].is_freed}}
  BY UsedBlocks
<1>2. Distinct(h.list)
  BY SoundParts
<1> QED  BY <1>1, <1>2 DEF Distinct

LEMMA AllocateSound ==
    ASSUME NEW h, Sound(h), Merged(h.list), NEW req \in Nat,
           AllocateFrom(h, req).heap.overrun = "no"
    PROVE  Gives(h, AllocateFrom(h, req), req)
<1> DEFINE found == AllocateFrom(h, req)
           last == Len(h.list)
           i == Min(Fits(h, req))
<1>1. /\ h.list \in Seq(Blocks) /\ last \in Nat
      /\ \A k \in 1 .. last : /\ h.list[k] \in Blocks
                              /\ h.list[k].start \in Nat /\ h.list[k].size \in Nat
  BY SoundParts
<1>2. CASE Fits(h, req) # {}
  <2> DEFINE x == h.list[i]
             g == IF RoomToSplit(x, req) THEN split(h, i, req) ELSE setUsed(h, i)
  <2>1. i \in 1 .. last /\ x.is_freed /\ x.size >= req
    BY <1>2, FitsIn
  <2>2. x.start \in Nat /\ x.size \in Nat
    BY <1>1, <2>1
  <2>3. found = Found(g, i, TRUE)
    BY <1>2 DEF AllocateFrom
  <2>4. found.heap = g /\ found.block = i /\ found.reused = TRUE
    BY <2>3 DEF Found
  <2> HIDE DEF found, i
  <2>5. g.overrun = "no"
    BY <2>4 DEF found
  <2>6. \E b \in Blocks : /\ ~b.is_freed /\ b.start = x.start /\ b.size >= req
                          /\ Sound(g) /\ Merged(g.list)
                          /\ Used(g.list) = (Used(h.list) \ {x}) \cup {b}
                          /\ g.list[i].start = x.start
    <3>1. CASE RoomToSplit(x, req)
      <4>1. g = split(h, i, req)
        BY <3>1
      <4>2. Left(x, req) >= 0
        <5>1. split(h, i, req).overrun = "no"
          BY <2>5, <4>1
        <5> QED  BY <2>1, <5>1, SplitOverruns
      <4> DEFINE b == Block(x.start, req, FALSE)
      <4> DEFINE s == split(h, i, req)
      <4>a. /\ Sound(s) /\ Merged(s.list)
            /\ Used(s.list) = (Used(h.list) \ {x}) \cup {b}
            /\ s.list[i].start = x.start
        BY <2>1, <4>2, SplitSound
      <4>b. g = s
        BY <4>1
      <4>3. /\ Sound(g) /\ Merged(g.list)
            /\ Used(g.list) = (Used(h.list) \ {x}) \cup {b}
            /\ g.list[i].start = x.start
        <5> HIDE DEF g, s, b, x
        <5> QED  BY <4>a, <4>b
      <4>4. b \in Blocks /\ ~b.is_freed /\ b.start = x.start /\ b.size = req
        BY <2>2, BlockIs
      <4> HIDE DEF b, g
      <4> QED  BY <4>3, <4>4
    <3>2. CASE ~RoomToSplit(x, req)
      <4>1. g = setUsed(h, i)
        BY <3>2
      <4> DEFINE b == Block(x.start, x.size, FALSE)
      <4>2. /\ Sound(g) /\ Used(g.list) = (Used(h.list) \ {x}) \cup {b}
            /\ Swapped(g.list, h.list, i, b)
        BY <2>1, <4>1, SetUsed
      <4>3. b \in Blocks /\ ~b.is_freed /\ b.start = x.start /\ b.size = x.size
        <5> HIDE DEF x
        <5> QED  BY <2>2, BlockIs, ZenonT(60)
      <4> HIDE DEF b, g
      <4>4. Merged(g.list)
        BY <4>2, <4>3, SwappedBut
      <4>5. g.list[i] = b
        BY <4>2 DEF Swapped
      <4> QED  BY <2>1, <4>2, <4>3, <4>4, <4>5
    <3> QED  BY <3>1, <3>2
  <2> HIDE DEF g
  <2>7. PICK b \in Blocks : /\ ~b.is_freed /\ b.start = x.start /\ b.size >= req
                            /\ Sound(g) /\ Merged(g.list)
                            /\ Used(g.list) = (Used(h.list) \ {x}) \cup {b}
                            /\ g.list[i].start = x.start
    BY <2>6
  <2>8. /\ \A c \in Used(h.list) : c.start # x.start
        /\ Used(h.list) \ {x} = Used(h.list)
    BY <2>1, NotUsed
  <2>9. Pointer(found) = b.start
    BY <2>4, <2>7 DEF Pointer
  <2>10. Gives(h, found, req)
    BY <2>4, <2>7, <2>8, <2>9 DEF Gives
  <2> QED  BY <2>10 DEF found
<1>3. CASE Fits(h, req) = {} /\ last > 0 /\ IsFree(h, last)
  <2> DEFINE x == h.list[last]
             g == wilderness(h, req)
             b == Block(x.start, req, FALSE)
  <2>1. last \in 1 .. last /\ x.is_freed /\ ~(x.size >= req)
    BY <1>1, <1>3 DEF Fits, IsFree
  <2>2. x.start \in Nat /\ x.size \in Nat /\ req >= x.size
    BY <1>1, <2>1
  <2>3. found = Found(g, last, TRUE)
    BY <1>3 DEF AllocateFrom
  <2>4. found.heap = g /\ found.block = last /\ found.reused = TRUE
    BY <2>3 DEF Found
  <2>5. /\ Sound(g) /\ Merged(g.list) /\ Used(g.list) = (Used(h.list) \ {x}) \cup {b}
        /\ g.list[last].start = x.start
    BY <1>3, <2>2, WildernessSound
  <2>6. b \in Blocks /\ ~b.is_freed /\ b.start = x.start /\ b.size = req
    BY <2>2, BlockIs
  <2>7. /\ \A c \in Used(h.list) : c.start # x.start
        /\ Used(h.list) \ {x} = Used(h.list)
    BY <2>1, NotUsed
  <2> HIDE DEF found, g, b
  <2>8. Pointer(found) = b.start
    BY <2>4, <2>5, <2>6 DEF Pointer
  <2>a. b.size >= req
    BY <2>6
  <2>b. Used(g.list) = Used(h.list) \cup {b}
    BY <2>5, <2>7
  <2>c. \A c \in Used(h.list) : c.start # b.start
    BY <2>6, <2>7
  <2>d. Sound(found.heap) /\ Merged(found.heap.list) /\ found.reused \in BOOLEAN
    BY <2>4, <2>5
  <2>9. Gives(h, found, req)
    BY <2>4, <2>6, <2>8, <2>a, <2>b, <2>c, <2>d, Zenon DEF Gives
  <2> QED  BY <2>9 DEF found
<1>4. CASE Fits(h, req) = {} /\ ~(last > 0 /\ IsFree(h, last))
  <2> DEFINE g == append(h, req)
             b == Block(h.brk + Meta, req, FALSE)
  <2>1. found = Found(g, last + 1, FALSE)
    BY <1>4 DEF AllocateFrom
  <2>2. found.heap = g /\ found.block = last + 1 /\ found.reused = FALSE
    BY <2>1 DEF Found
  <2>3. /\ Sound(g) /\ Merged(g.list) /\ Used(g.list) = Used(h.list) \cup {b}
        /\ g.list[last + 1].start = b.start
    BY AppendSound
  <2>4. h.brk \in Nat /\ h.brk + Meta \in Nat /\ Meta > 0
    BY SoundParts, MetaAssumption
  <2>5. b \in Blocks /\ ~b.is_freed /\ b.start = h.brk + Meta /\ b.size = req
    BY <2>4, BlockIs
  <2>6. ASSUME NEW c \in Used(h.list) PROVE c.start # b.start
    <3>1. c \in Blocks /\ c.start + c.size <= h.brk
      BY UsedBlocks
    <3>2. c.start \in Nat /\ c.size \in Nat /\ Meta \in Nat
      BY <3>1, BlockParts, MetaAssumption
    <3>3. c.start # h.brk + Meta
      <4>1. \A v, w, p, q \in Nat : q > 0 /\ v + w <= p => v # p + q
        OBVIOUS
      <4> QED  BY <2>4, <3>1, <3>2, <4>1
    <3> HIDE DEF b
    <3> QED  BY <2>5, <3>3
  <2> HIDE DEF found, g, b
  <2>7. Pointer(found) = b.start
    BY <2>2, <2>3 DEF Pointer
  <2>a. b.size >= req
    BY <2>5
  <2>b. Used(g.list) = Used(h.list) \cup {b}
    BY <2>3
  <2>d. Sound(found.heap) /\ Merged(found.heap.list) /\ found.reused \in BOOLEAN
    BY <2>2, <2>3
  <2>8. Gives(h, found, req)
    BY <2>2, <2>5, <2>6, <2>7, <2>a, <2>b, <2>d, Zenon DEF Gives
  <2> QED  BY <2>8 DEF found
<1> QED  BY <1>2, <1>3, <1>4

------------------------------------------------------------------------------
(* What callers hold, o: B are the blocks in use.                          *)
Keeps(B, o) == \A p \in DOMAIN o : \E b \in B : b.start = p /\ b.size >= o[p]
Counted(o) == \A p \in DOMAIN o : o[p] \in Requests

LEMMA NothingHeld == \A B : Keeps(B, << >>) /\ Counted(<< >>)
BY DEF Keeps, Counted

LEMMA Gave ==
    ASSUME NEW o, NEW p, NEW n
    PROVE  /\ DOMAIN Give(o, p, n) = DOMAIN o \cup {p}
           /\ \A q \in DOMAIN o \cup {p} : Give(o, p, n)[q] = IF q = p THEN n ELSE o[q]
           /\ Counted(o) /\ n \in Requests => Counted(Give(o, p, n))
BY DEF Give, Counted

LEMMA Took ==
    ASSUME NEW o, NEW p
    PROVE  /\ DOMAIN Take(o, p) = DOMAIN o \ {p}
           /\ \A q \in DOMAIN o \ {p} : Take(o, p)[q] = o[q]
           /\ Counted(o) => Counted(Take(o, p))
BY DEF Take, Restrict, Counted

(* Block x, of which b is what became, changes its size or has no change,  *)
(* ...                                                                     *)
LEMMA KeepsResized ==
    ASSUME NEW B, NEW o, Keeps(B, o), NEW x, NEW b, b.start = x.start,
           NEW n, b.size >= n
    PROVE  Keeps((B \ {x}) \cup {b}, Give(o, x.start, n))
<1> DEFINE g == Give(o, x.start, n)
<1>1. SUFFICES ASSUME NEW p \in DOMAIN g
               PROVE  \E c \in (B \ {x}) \cup {b} : c.start = p /\ c.size >= g[p]
  BY DEF Keeps
<1>2. /\ DOMAIN g = DOMAIN o \cup {x.start}
      /\ \A q \in DOMAIN o \cup {x.start} : g[q] = IF q = x.start THEN n ELSE o[q]
  BY DEF Give
<1> HIDE DEF g
<1>3. CASE p = x.start
  BY <1>2, <1>3
<1>4. CASE p # x.start
  <2>1. p \in DOMAIN o /\ g[p] = o[p]
    BY <1>1, <1>2, <1>4
  <2>2. PICK c \in B : c.start = p /\ c.size >= o[p]
    BY <2>1 DEF Keeps
  <2>3. c # x
    BY <1>4, <2>2
  <2> QED  BY <2>1, <2>2, <2>3
<1> QED  BY <1>3, <1>4

(* ... is new, ...                                                         *)
LEMMA KeepsMore ==
    ASSUME NEW B, NEW o, Keeps(B, o), NEW b, NEW n, b.size >= n
    PROVE  Keeps(B \cup {b}, o) /\ Keeps(B \cup {b}, Give(o, b.start, n))
<1>1. Keeps(B \cup {b}, o)
  BY DEF Keeps
<1>2. ((B \cup {b}) \ {b}) \cup {b} = B \cup {b}
  OBVIOUS
<1>3. Keeps(((B \cup {b}) \ {b}) \cup {b}, Give(o, b.start, n))
  BY <1>1, KeepsResized
<1> QED  BY <1>1, <1>2, <1>3

(* ... or is given back.                                                   *)
LEMMA KeepsLess ==
    ASSUME NEW B, NEW o, Keeps(B, o), NEW x
    PROVE  Keeps(B \ {x}, Take(o, x.start))
<1> DEFINE g == Take(o, x.start)
<1>1. SUFFICES ASSUME NEW p \in DOMAIN g
               PROVE  \E c \in B \ {x} : c.start = p /\ c.size >= g[p]
  BY DEF Keeps
<1>2. /\ DOMAIN g = DOMAIN o \ {x.start}
      /\ \A q \in DOMAIN o \ {x.start} : g[q] = o[q]
  BY Took
<1> HIDE DEF g
<1>3. p \in DOMAIN o /\ g[p] = o[p] /\ p # x.start
  BY <1>1, <1>2
<1>4. PICK c \in B : c.start = p /\ c.size >= o[p]
  BY <1>3 DEF Keeps
<1> QED  BY <1>3, <1>4

(* Callers that hold blocks of a sound heap hold memory that is apart.     *)
LEMMA HeldApart ==
    ASSUME NEW h, Sound(h), NEW o, Keeps(Used(h.list), o), Counted(o)
    PROVE  Contract!Apart(o)
<1>1. SUFFICES ASSUME NEW p \in DOMAIN o, NEW q \in DOMAIN o, p < q
               PROVE  p + o[p] <= q
  BY DEF Contract!Apart
<1>2. PICK b \in Used(h.list) : b.start = p /\ b.size >= o[p]
  BY DEF Keeps
<1>3. PICK c \in Used(h.list) : c.start = q
  BY DEF Keeps
<1>4. b.start + b.size <= c.start
  BY <1>1, <1>2, <1>3, UsedBlocks
<1>5. b \in Blocks /\ c \in Blocks
  BY UsedBlocks
<1>6. b.size \in Nat /\ p \in Nat /\ q \in Nat
  BY <1>2, <1>3, <1>5, BlockParts
<1>7. o[p] \in Nat
  BY RequestsAssumption DEF Counted
<1>8. b.size >= o[p] /\ p + b.size <= q
  BY <1>2, <1>3, <1>4
<1> QED  BY <1>6, <1>7, <1>8

(* The place of the block that a caller holds at p.                        *)
Place(l, p) == CHOOSE i \in DOMAIN l : l[i].start = p

LEMMA Placed ==
    ASSUME NEW h, Sound(h), NEW b \in Used(h.list)
    PROVE  LET i == Place(h.list, b.start) IN
           i \in 1 .. Len(h.list) /\ h.list[i] = b /\ ~h.list[i].is_freed
<1> DEFINE i == Place(h.list, b.start)
<1>1. h.list \in Seq(Blocks) /\ Distinct(h.list) /\ DOMAIN h.list = 1 .. Len(h.list)
  BY SoundParts
<1>2. PICK k \in 1 .. Len(h.list) : h.list[k] = b /\ ~b.is_freed
  BY UsedBlocks
<1>3. i \in DOMAIN h.list /\ h.list[i].start = b.start
  <2>1. k \in DOMAIN h.list /\ h.list[k].start = b.start
    BY <1>1, <1>2
  <2> QED  BY <2>1 DEF Place
<1>4. i = k
  <2> HIDE DEF i
  <2> QED  BY <1>1, <1>2, <1>3 DEF Distinct
<1>5. i \in 1 .. Len(h.list) /\ h.list[i] = b /\ ~h.list[i].is_freed
  <2> HIDE DEF i
  <2> QED  BY <1>2, <1>4
<1> QED  BY <1>5

LEMMA SomeBlock ==
    ASSUME NEW h, Sound(h), NEW b \in Used(h.list)
    PROVE  Len(h.list) > 0
<1>1. Place(h.list, b.start) \in 1 .. Len(h.list)
  BY Placed
<1>2. Len(h.list) \in Nat
  BY SoundParts
<1> QED  BY <1>1, <1>2

LEMMA Held ==
    ASSUME NEW h, Sound(h), NEW o, Keeps(Used(h.list), o), NEW p \in DOMAIN o
    PROVE  LET i == Place(h.list, p) IN
           /\ i \in 1 .. Len(h.list) /\ h.list[i].start = p /\ h.list[i].size >= o[p]
           /\ ~h.list[i].is_freed /\ h.list[i] \in Used(h.list)
<1>1. PICK b \in Used(h.list) : b.start = p /\ b.size >= o[p]
  BY DEF Keeps
<1>2. LET i == Place(h.list, b.start) IN
      i \in 1 .. Len(h.list) /\ h.list[i] = b /\ ~h.list[i].is_freed
  BY Placed
<1> QED  BY <1>1, <1>2

------------------------------------------------------------------------------
LEMMA WildernessSized ==
    ASSUME NEW h, Sound(h), Merged(h.list), Len(h.list) > 0, NEW req \in Nat,
           req >= h.list[Len(h.list)].size
    PROVE  Sized(h, wilderness(h, req), h.list[Len(h.list)], req)
<1> DEFINE x == h.list[Len(h.list)]
           g == wilderness(h, req)
           b == Block(x.start, req, FALSE)
<1>1. /\ Sound(g) /\ Merged(g.list)
      /\ Used(g.list) = (Used(h.list) \ {x}) \cup {b}
  BY WildernessSound
<1>2. Len(h.list) \in 1 .. Len(h.list)
  BY SoundParts
<1>3. x.start \in Nat
  BY <1>2, SoundParts
<1>4. b \in Blocks /\ ~b.is_freed /\ b.start = x.start /\ b.size = req
  <2> HIDE DEF x
  <2> QED  BY <1>3, BlockIs
<1> HIDE DEF b, g, x
<1>5. b.size >= req
  BY <1>4
<1>6. Sized(h, g, x, req)
  BY <1>1, <1>4, <1>5 DEF Sized
<1> QED  BY <1>6 DEF g, x

LEMMA ConnectMerged ==
    ASSUME NEW m, NEW l, NEW i, NEW b, Joined(m, l, i, b), Merged(l), ~b.is_freed
    PROVE  Merged(m)
<1>1. MergedBut(l, i)
  BY DEF Merged, MergedBut
<1>2. /\ i \in 1 .. Len(l) - 1 /\ Len(m) = Len(l) - 1 /\ Len(l) \in Nat
      /\ m[i] = b
  BY DEF Joined
<1>3. MergedBut(m, i)
  <2>1. i \in {i, i + 1}
    OBVIOUS
  <2> QED  BY <1>1, <2>1, JoinedBut
<1> SUFFICES ASSUME NEW k \in 1 .. Len(m) - 1, m[k].is_freed, m[k + 1].is_freed
             PROVE  FALSE
  BY DEF Merged
<1>4. k = i \/ k + 1 = i
  BY <1>3 DEF MergedBut
<1> QED  BY <1>2, <1>4

LEMMA UpMerged ==
    ASSUME NEW h, Sound(h), Merged(h.list), NEW i \in 1 .. Len(h.list) - 1,
           ~h.list[i].is_freed, h.list[i + 1].is_freed
    PROVE  LET c == connect(h, i)
               x == h.list[i] IN
           /\ Sound(c) /\ Merged(c.list) /\ i \in 1 .. Len(c.list)
           /\ c.list[i].start = x.start /\ ~c.list[i].is_freed
           /\ c.list[i].size = x.size + h.list[i + 1].size + Meta
           /\ Used(c.list) = (Used(h.list) \ {x}) \cup {c.list[i]}
<1> DEFINE x == h.list[i]
           y == h.list[i + 1]
           c == connect(h, i)
           a == Block(x.start, x.size + y.size + Meta, x.is_freed)
<1>1. Len(h.list) \in Nat /\ i \in 1 .. Len(h.list)
  BY SoundParts
<1>2. x.is_freed = FALSE
  BY <1>1, SoundParts
<1>3. /\ Sound(c) /\ Used(c.list) = (Used(h.list) \ {x}) \cup InUse(a)
      /\ Joined(c.list, h.list, i, a)
  BY ConnectSound
<1>4. a.start = x.start /\ a.size = x.size + y.size + Meta /\ ~a.is_freed
  BY <1>2 DEF Block
<1> HIDE DEF a, c
<1>5. InUse(a) = {a}
  BY <1>4 DEF InUse
<1>6. Merged(c.list)
  BY <1>3, <1>4, ConnectMerged
<1>7. i \in 1 .. Len(c.list) /\ c.list[i] = a
  BY <1>1, <1>3 DEF Joined
<1>8. /\ Sound(c) /\ Merged(c.list) /\ i \in 1 .. Len(c.list)
      /\ c.list[i].start = x.start /\ ~c.list[i].is_freed
      /\ c.list[i].size = x.size + y.size + Meta
      /\ Used(c.list) = (Used(h.list) \ {x}) \cup {c.list[i]}
  BY <1>3, <1>4, <1>5, <1>6, <1>7
<1> QED  BY <1>8 DEF c

LEMMA UpSized ==
    ASSUME NEW h, Sound(h), Merged(h.list), NEW i \in 1 .. Len(h.list) - 1, NEW req \in Nat,
           ~h.list[i].is_freed, h.list[i + 1].is_freed,
           h.list[i].size + h.list[i + 1].size + Meta >= req,
           SplitIfRoom(connect(h, i), i, req).overrun = "no"
    PROVE  Sized(h, SplitIfRoom(connect(h, i), i, req), h.list[i], req)
<1> DEFINE x == h.list[i]
           c == connect(h, i)
           a == c.list[i]
           g == SplitIfRoom(c, i, req)
<1>1. Len(h.list) \in Nat /\ i \in 1 .. Len(h.list) /\ ~x.is_freed
  BY SoundParts
<1>2. /\ Sound(c) /\ Merged(c.list) /\ i \in 1 .. Len(c.list)
      /\ a.start = x.start /\ ~a.is_freed
      /\ a.size = x.size + h.list[i + 1].size + Meta
      /\ Used(c.list) = (Used(h.list) \ {x}) \cup {a}
  BY UpMerged
<1>3. a.size >= req
  BY <1>2
<1> HIDE DEF c, g
<1>4. Sized(c, g, a, req)
  <2>1. SplitIfRoom(c, i, req).overrun = "no"
    BY DEF c
  <2> QED  BY <1>2, <1>3, <2>1, SplitIfRoomSound DEF g
<1> HIDE DEF a
<1>5. PICK b \in Blocks : /\ ~b.is_freed /\ b.start = a.start /\ b.size >= req
                          /\ Used(g.list) = (Used(c.list) \ {a}) \cup {b}
  BY <1>4 DEF Sized
<1>6. x \in Used(h.list)
  <2>1. Used(h.list) = {h.list[k] : k \in {k \in 1 .. Len(h.list) : ~h.list[k].is_freed}}
    BY UsedBlocks
  <2> QED  BY <1>1, <2>1
<1>7. Used(c.list) \ {a} = Used(h.list) \ {x}
  <2>1. a \notin Used(h.list) \ {x}
    BY <1>2, <1>6, UsedBlocks
  <2> HIDE DEF x
  <2> QED  BY <1>2, <2>1
<1>8. Used(g.list) = (Used(h.list) \ {x}) \cup {b}
  BY <1>5, <1>7
<1>9. Sized(h, g, x, req)
  <2> HIDE DEF x
  <2> QED  BY <1>2, <1>4, <1>5, <1>8 DEF Sized
<1> QED  BY <1>9 DEF g, c

(* Who holds x holds it with its new size.                                 *)
LEMMA SizedKeeps ==
    ASSUME NEW h, NEW g, NEW x, NEW req, Sized(h, g, x, req),
           NEW o, Keeps(Used(h.list), o), NEW n \in Nat, req \in Nat, req >= n
    PROVE  Keeps(Used(g.list), Give(o, x.start, n)) /\ Len(g.list) > 0
<1>1. PICK b \in Blocks : /\ ~b.is_freed /\ b.start = x.start /\ b.size >= req
                          /\ Used(g.list) = (Used(h.list) \ {x}) \cup {b}
  BY DEF Sized
<1>2. b.size >= n
  BY <1>1, BlockParts
<1>3. Keeps((Used(h.list) \ {x}) \cup {b}, Give(o, x.start, n))
  BY <1>1, <1>2, KeepsResized
<1>4. Len(g.list) > 0
  <2>1. b \in Used(g.list) /\ Sound(g)
    BY <1>1 DEF Sized
  <2> QED  BY <2>1, SomeBlock
<1> QED  BY <1>1, <1>3, <1>4

------------------------------------------------------------------------------
(* free() keeps the memory that sbrk() gave, so it leaves a block.         *)
LEMMA BrkOfEmpty ==
    ASSUME NEW h, Sound(h)
    PROVE  Len(h.list) = 0 <=> h.brk = 0
<1>1. Len(h.list) \in Nat /\ Laid(h.list, h.brk)
  BY SoundParts
<1>2. CASE Len(h.list) > 0
  <2>1. /\ 1 \in 1 .. Len(h.list) /\ h.list[1].start = Meta
        /\ Len(h.list) \in 1 .. Len(h.list)
    BY <1>1, <1>2 DEF Laid
  <2>2. /\ h.list[1].size \in Nat /\ h.list[Len(h.list)].size \in Nat
        /\ h.list[Len(h.list)].start \in Nat /\ Meta \in Nat /\ Meta > 0
    BY <2>1, SoundParts, MetaAssumption
  <2>3. h.list[Len(h.list)].start >= Meta
    <3>1. CASE Len(h.list) = 1
      BY <2>1, <2>2, <3>1
    <3>2. CASE Len(h.list) > 1
      <4>1. h.list[1].start + h.list[1].size + Meta <= h.list[Len(h.list)].start
        BY <1>1, <2>1, <3>2 DEF Laid
      <4> QED  BY <2>1, <2>2, <4>1
    <3>3. Len(h.list) = 1 \/ Len(h.list) > 1
      BY <1>1, <1>2, SMTT(60)
    <3> QED  BY <3>1, <3>2, <3>3
  <2>4. h.brk = h.list[Len(h.list)].start + h.list[Len(h.list)].size
    BY <1>1, <1>2 DEF Laid
  <2>5. \A p, q, r \in Nat : r > 0 /\ p >= r => p + q # 0
    OBVIOUS
  <2>6. h.brk # 0
    BY <2>2, <2>3, <2>4, <2>5
  <2> QED  BY <1>2, <2>6
<1>3. CASE Len(h.list) = 0
  BY <1>1, <1>3 DEF Laid
<1> QED  BY <1>1, <1>2, <1>3

LEMMA ConnectBrk ==
    ASSUME NEW h, NEW i, "brk" \in DOMAIN h
    PROVE  "brk" \in DOMAIN connect(h, i) /\ connect(h, i).brk = h.brk
BY DEF connect

LEMMA ReleasedBrk ==
    ASSUME NEW h, Sound(h), NEW i
    PROVE  Released(h, i).brk = h.brk
<1> DEFINE u == setFree(h, i)
<1>1. "brk" \in DOMAIN h
  BY SoundParts DEF Heaps
<1>2. "brk" \in DOMAIN u /\ u.brk = h.brk
  BY <1>1 DEF setFree
<1> HIDE DEF u
<1>3. \A k : connect(u, k).brk = h.brk /\ connect(connect(u, i - 1), k).brk = h.brk
  BY <1>2, ConnectBrk
<1>4. checkIfFreeAndConnect(u, i).brk = h.brk
  BY <1>2, <1>3 DEF checkIfFreeAndConnect
<1> QED  BY <1>4 DEF Released, u

------------------------------------------------------------------------------
(* Only split() writes a node outside of a block: where the difference of  *)
(* line 236 is below zero and counts as room.                              *)
LEMMA AllocateOverruns ==
    ASSUME NEW h, Sound(h), Merged(h.list), NEW req \in Nat,
           AllocateFrom(h, req).heap.overrun # "no"
    PROVE  \E i \in 1 .. Len(h.list) :
              /\ AllocateFrom(h, req).heap = split(h, i, req)
              /\ RoomToSplit(h.list[i], req) /\ ~(Left(h.list[i], req) >= 0)
<1> DEFINE found == AllocateFrom(h, req)
           last == Len(h.list)
           i == Min(Fits(h, req))
<1>1. /\ h.list \in Seq(Blocks) /\ last \in Nat
      /\ \A k \in 1 .. last : /\ h.list[k] \in Blocks
                              /\ h.list[k].start \in Nat /\ h.list[k].size \in Nat
  BY SoundParts
<1>2. CASE Fits(h, req) # {}
  <2> DEFINE g == IF RoomToSplit(h.list[i], req) THEN split(h, i, req) ELSE setUsed(h, i)
  <2>1. i \in 1 .. last
    BY <1>2, FitsIn
  <2>2. found = Found(g, i, TRUE)
    BY <1>2 DEF AllocateFrom
  <2>3. found.heap = g
    BY <2>2 DEF Found
  <2> HIDE DEF i
  <2>4. CASE ~RoomToSplit(h.list[i], req)
    <3>1. Sound(setUsed(h, i))
      BY <2>1, SetUsed
    <3>2. g = setUsed(h, i)
      BY <2>4
    <3> QED  BY <2>3, <3>1, <3>2 DEF Sound
  <2>5. CASE RoomToSplit(h.list[i], req)
    <3>1. g = split(h, i, req)
      BY <2>5
    <3>2. CASE Left(h.list[i], req) >= 0
      <4>1. Sound(split(h, i, req))
        BY <2>1, <3>2, SplitSound
      <4> QED  BY <2>3, <3>1, <4>1 DEF Sound
    <3>3. CASE ~(Left(h.list[i], req) >= 0)
      BY <2>1, <2>3, <2>5, <3>1, <3>3
    <3> QED  BY <3>2, <3>3
  <2> QED  BY <2>4, <2>5
<1>3. CASE Fits(h, req) = {} /\ last > 0 /\ IsFree(h, last)
  <2>1. last \in 1 .. last /\ ~(h.list[last].size >= req)
    BY <1>1, <1>3 DEF Fits, IsFree
  <2>2. req >= h.list[last].size
    BY <1>1, <2>1
  <2>3. found = Found(wilderness(h, req), last, TRUE)
    BY <1>3 DEF AllocateFrom
  <2>4. found.heap = wilderness(h, req)
    BY <2>3 DEF Found
  <2>5. Sound(wilderness(h, req))
    BY <1>3, <2>2, WildernessSound
  <2> QED  BY <2>4, <2>5 DEF Sound
<1>4. CASE Fits(h, req) = {} /\ ~(last > 0 /\ IsFree(h, last))
  <2>1. found = Found(append(h, req), last + 1, FALSE)
    BY <1>4 DEF AllocateFrom
  <2>2. found.heap = append(h, req)
    BY <2>1 DEF Found
  <2>3. Sound(append(h, req))
    BY AppendSound
  <2> QED  BY <2>2, <2>3 DEF Sound
<1> QED  BY <1>2, <1>3, <1>4

(* That is once and for all: free() does not undo it, ...                  *)
LEMMA MoveOverruns ==
    ASSUME NEW h, Sound(h), Merged(h.list), NEW req \in Nat,
           AllocateFrom(h, req).heap.overrun # "no", NEW k
    PROVE  Released(AllocateFrom(h, req).heap, k).overrun # "no"
<1> DEFINE g == AllocateFrom(h, req).heap
           u == setFree(g, k)
<1>1. PICK i \in 1 .. Len(h.list) :
              g = split(h, i, req) /\ ~(Left(h.list[i], req) >= 0)
  BY AllocateOverruns
<1>2. "overrun" \in DOMAIN g /\ g.overrun # "no"
  BY <1>1, SplitOverruns
<1> HIDE DEF g
<1>3. "overrun" \in DOMAIN u /\ u.overrun # "no"
  BY <1>2 DEF setFree
<1> HIDE DEF u
<1>4. checkIfFreeAndConnect(u, k).overrun # "no"
  BY <1>3, CheckKeeps
<1>5. Released(g, k).overrun # "no"
  BY <1>2, <1>4 DEF Released, u
<1> QED  BY <1>5 DEF g

(* ... and with signed differences it does not happen.                     *)
LEMMA NoRoomBelow ==
    ASSUME ~Unsigned, NEW b, NEW req, RoomToSplit(b, req), Left(b, req) \in Int
    PROVE  Left(b, req) >= 0
BY RemainAssumption DEF RoomToSplit

LEMMA LeftInt ==
    ASSUME NEW h, Sound(h), NEW i \in 1 .. Len(h.list), NEW req \in Nat
    PROVE  Left(h.list[i], req) \in Int
<1>1. h.list[i].size \in Nat /\ Meta \in Nat
  BY SoundParts, MetaAssumption
<1> QED  BY <1>1 DEF Left

LEMMA AllocateSafe ==
    ASSUME ~Unsigned, NEW h, Sound(h), Merged(h.list), NEW req \in Nat
    PROVE  AllocateFrom(h, req).heap.overrun = "no"
<1>1. SUFFICES ASSUME AllocateFrom(h, req).heap.overrun # "no" PROVE FALSE
  OBVIOUS
<1>2. PICK i \in 1 .. Len(h.list) :
              RoomToSplit(h.list[i], req) /\ ~(Left(h.list[i], req) >= 0)
  BY <1>1, AllocateOverruns
<1>3. Left(h.list[i], req) \in Int
  BY LeftInt
<1> QED  BY <1>2, <1>3, NoRoomBelow

LEMMA SplitIfRoomSafe ==
    ASSUME ~Unsigned, NEW h, Sound(h), Merged(h.list), NEW i \in 1 .. Len(h.list),
           NEW req \in Nat
    PROVE  SplitIfRoom(h, i, req).overrun = "no"
<1>1. Left(h.list[i], req) \in Int
  BY LeftInt
<1>2. CASE RoomToSplit(h.list[i], req)
  <2>1. Left(h.list[i], req) >= 0
    BY <1>1, <1>2, NoRoomBelow
  <2>2. Sound(split(h, i, req))
    BY <2>1, SplitSound
  <2> QED  BY <1>2, <2>2 DEF SplitIfRoom, Sound
<1>3. CASE ~RoomToSplit(h.list[i], req)
  BY <1>3 DEF SplitIfRoom, Sound
<1> QED  BY <1>2, <1>3

LEMMA AlignedUp == \A n \in Nat : Aligned(n) \in Nat /\ Aligned(n) >= n
<1> SUFFICES ASSUME NEW n \in Nat PROVE Aligned(n) \in Nat /\ Aligned(n) >= n
  OBVIOUS
<1>1. n % 4 \in 0 .. 3
  OBVIOUS
<1> QED  BY <1>1 DEF Aligned

------------------------------------------------------------------------------
(* The invariant.  o is what callers hold.                                 *)
Intact(h, o) ==
    Sound(h) /\ Merged(h.list) /\ h.brk <= HeapLimit /\ Keeps(Used(h.list), o)

IInv ==
    /\ first_alloc \in BOOLEAN /\ Counted(owned)
    /\ heap.overrun = "no" => /\ Intact(heap, owned)
                              /\ first_alloc <=> Len(heap.list) = 0

(* What malloc() found goes to a caller.                                   *)
LEMMA NewHeld ==
    ASSUME NEW h, NEW o, Intact(h, o), Counted(o), NEW n \in Requests,
           NEW req \in Nat, req >= n,
           NEW found, Gives(h, found, req), found.heap.brk <= HeapLimit
    PROVE  LET g == found.heap
               p == Pointer(found) IN
           /\ Sound(g) /\ Merged(g.list) /\ Len(g.list) > 0
           /\ Used(h.list) \subseteq Used(g.list)
           /\ Keeps(Used(g.list), o) /\ Keeps(Used(g.list), Give(o, p, n))
           /\ p \in 0 .. HeapLimit /\ p \notin DOMAIN o
           /\ Contract!Apart(Give(o, p, n))
<1> DEFINE g == found.heap
           p == Pointer(found)
<1>1. Sound(g) /\ Merged(g.list)
  BY DEF Gives
<1>2. PICK b \in Blocks :
          /\ ~b.is_freed /\ b.start = p /\ b.size >= req
          /\ \A c \in Used(h.list) : c.start # b.start
          /\ Used(g.list) = Used(h.list) \cup {b}
  BY DEF Gives
<1> HIDE DEF g, p
<1>3. n \in Nat
  BY RequestsAssumption
<1>4. b.size >= n
  BY <1>2, <1>3, BlockParts
<1>5. Keeps(Used(g.list), o) /\ Keeps(Used(g.list), Give(o, p, n))
  <2>1. Keeps(Used(h.list), o)
    BY DEF Intact
  <2>2. /\ Keeps(Used(h.list) \cup {b}, o)
        /\ Keeps(Used(h.list) \cup {b}, Give(o, b.start, n))
    BY <1>4, <2>1, KeepsMore
  <2> QED  BY <1>2, <2>2
<1>6. b \in Used(g.list) /\ Used(h.list) \subseteq Used(g.list)
  BY <1>2
<1>7. Len(g.list) > 0
  BY <1>1, <1>6, SomeBlock
<1>8. p \in 0 .. HeapLimit
  <2>1. b.start + b.size <= g.brk
    BY <1>1, <1>6, UsedBlocks
  <2>2. g.brk \in Nat /\ HeapLimit \in Nat /\ b.start \in Nat /\ b.size \in Nat
    BY <1>1, SoundParts, HeapAssumption, BlockParts
  <2>3. g.brk <= HeapLimit
    BY DEF g
  <2>4. \A v, w, x, y \in Nat : v + w <= x /\ x <= y => v <= y
    OBVIOUS
  <2>5. b.start <= HeapLimit
    BY <2>1, <2>2, <2>3, <2>4
  <2> QED  BY <1>2, <2>2, <2>5
<1>9. p \notin DOMAIN o
  <2>1. Keeps(Used(h.list), o)
    BY DEF Intact
  <2> QED  BY <1>2, <2>1 DEF Keeps
<1>10. Contract!Apart(Give(o, p, n))
  <2>1. Counted(Give(o, p, n))
    BY Gave
  <2> QED  BY <1>1, <1>5, <2>1, HeldApart
<1>11. /\ Sound(g) /\ Merged(g.list) /\ Len(g.list) > 0
       /\ Used(h.list) \subseteq Used(g.list)
       /\ Keeps(Used(g.list), o) /\ Keeps(Used(g.list), Give(o, p, n))
       /\ p \in 0 .. HeapLimit /\ p \notin DOMAIN o
       /\ Contract!Apart(Give(o, p, n))
  BY <1>1, <1>5, <1>6, <1>7, <1>8, <1>9, <1>10
<1> QED  BY <1>11 DEF g, p

(* Steps from an intact heap to one without an overrun.                    *)
Clean == IInv /\ heap.overrun = "no" /\ heap'.overrun = "no"
Next1 == Intact(heap', owned') /\ Len(heap'.list) > 0 /\ [Contract!Next]_owned

LEMMA CleanParts ==
    ASSUME Clean
    PROVE  /\ Intact(heap, owned) /\ Counted(owned)
           /\ Sound(heap) /\ Merged(heap.list) /\ Keeps(Used(heap.list), owned)
           /\ heap.brk <= HeapLimit
BY DEF Clean, IInv, Intact

LEMMA RequestParts ==
    \A n \in Requests : n \in Nat /\ Aligned(n) \in Nat /\ Aligned(n) >= n
BY RequestsAssumption, AlignedUp

LEMMA MallocStep ==
    ASSUME Clean, NEW n \in Requests, Malloc(n)
    PROVE  Next1
<1> DEFINE req == Aligned(n)
           found == AllocateFrom(heap, req)
           g == found.heap
           p == Pointer(found)
<1>1. req \in Nat /\ req >= n
  BY RequestParts
<1>2. /\ heap' = g /\ g.brk <= HeapLimit
      /\ owned' = Give(owned, p, n) \/ owned' = owned
  BY DEF Malloc, Becomes
<1>3. Gives(heap, found, req)
  <2>1. AllocateFrom(heap, req).heap.overrun = "no"
    BY <1>2 DEF Clean
  <2> HIDE DEF req
  <2> QED  BY <1>1, <2>1, CleanParts, AllocateSound
<1> HIDE DEF req, found
<1>4. /\ Sound(g) /\ Merged(g.list) /\ Len(g.list) > 0
      /\ Keeps(Used(g.list), owned) /\ Keeps(Used(g.list), Give(owned, p, n))
      /\ p \in 0 .. HeapLimit /\ p \notin DOMAIN owned
      /\ Contract!Apart(Give(owned, p, n))
  BY <1>1, <1>2, <1>3, CleanParts, NewHeld
<1> HIDE DEF g, p
<1>5. Intact(heap', owned') /\ Len(heap'.list) > 0
  BY <1>2, <1>4 DEF Intact
<1>6. [Contract!Next]_owned
  <2>1. CASE owned' = owned
    BY <2>1
  <2>2. CASE owned' = Give(owned, p, n)
    <3>1. owned' = Contract!Given(owned, p, n)
      BY <2>2 DEF Give, Contract!Given
    <3>2. Contract!Allocate
      BY <1>4, <2>2, <3>1 DEF Contract!Allocate
    <3> QED  BY <3>2 DEF Contract!Next
  <2> QED  BY <1>2, <2>1, <2>2
<1> QED  BY <1>5, <1>6 DEF Next1

LEMMA FreeStep ==
    ASSUME Clean, NEW p \in DOMAIN owned, Free(p)
    PROVE  Next1
<1> DEFINE i == Place(heap.list, p)
           x == heap.list[i]
           g == Released(heap, i)
<1>1. i \in 1 .. Len(heap.list) /\ x.start = p /\ ~x.is_freed
  BY CleanParts, Held
<1>2. heap' = g /\ g.brk <= HeapLimit /\ owned' = Take(owned, p)
  BY DEF Free, Becomes, BlockOf, Place
<1> HIDE DEF i
<1>3. Sound(g) /\ Merged(g.list) /\ Used(g.list) = Used(heap.list) \ {x}
  BY <1>1, CleanParts, ReleasedSound
<1>4. Len(g.list) > 0
  <2>1. g.brk = heap.brk
    BY CleanParts, ReleasedBrk
  <2>2. heap.brk # 0
    <3>1. Len(heap.list) \in Nat
      BY CleanParts, SoundParts
    <3>2. Len(heap.list) # 0
      BY <1>1, <3>1
    <3> QED  BY <3>2, CleanParts, BrkOfEmpty
  <2>3. Len(g.list) \in Nat /\ Len(g.list) # 0
    <3> HIDE DEF g
    <3> QED  BY <1>3, <2>1, <2>2, BrkOfEmpty, SoundParts
  <2> QED  BY <2>3
<1>5. Keeps(Used(heap.list) \ {x}, Take(owned, x.start))
  BY CleanParts, KeepsLess
<1> HIDE DEF g, x
<1>6. Intact(heap', owned') /\ Len(heap'.list) > 0
  BY <1>1, <1>2, <1>3, <1>4, <1>5 DEF Intact
<1>7. Contract!Free
  <2>1. owned' = Contract!Taken(owned, p)
    BY <1>2 DEF Take, Restrict, Contract!Taken, Contract!Restrict
  <2> QED  BY <2>1 DEF Contract!Free
<1> QED  BY <1>6, <1>7 DEF Next1, Contract!Next

(* realloc() that leaves the block where it is.                            *)
LEMMA SizedStep ==
    ASSUME Clean, NEW p \in DOMAIN owned, NEW n \in Requests,
           NEW x, x.start = p, Sized(heap, heap', x, Aligned(n)),
           heap'.brk <= HeapLimit, owned' = Give(owned, p, n)
    PROVE  Next1
<1>1. n \in Nat /\ Aligned(n) \in Nat /\ Aligned(n) >= n
  BY RequestParts
<1> DEFINE req == Aligned(n)
<1> HIDE DEF req
<1>2. Keeps(Used(heap'.list), Give(owned, x.start, n)) /\ Len(heap'.list) > 0
  <2>1. Sized(heap, heap', x, req) /\ req \in Nat /\ req >= n
    BY <1>1 DEF req
  <2> QED  BY <1>1, <2>1, CleanParts, SizedKeeps
<1>3. Sound(heap') /\ Merged(heap'.list)
  BY DEF Sized
<1>4. Intact(heap', owned')
  BY <1>2, <1>3 DEF Intact
<1>5. Contract!Apart(owned')
  <2>1. Counted(Give(owned, p, n))
    BY CleanParts, Gave
  <2> QED  BY <1>2, <1>3, <2>1, HeldApart
<1>6. Contract!Resize
  <2>1. owned' = Contract!Given(owned, p, n)
    BY DEF Give, Contract!Given
  <2> QED  BY <1>5, <2>1 DEF Contract!Resize
<1> QED  BY <1>2, <1>4, <1>6 DEF Next1, Contract!Next

LEMMA InPlaceStep ==
    ASSUME Clean, NEW p \in DOMAIN owned, NEW n \in Requests, ReallocInPlace(p, n)
    PROVE  Next1
<1> DEFINE i == Place(heap.list, p)
           req == Aligned(n)
           g == SplitIfRoom(heap, i, req)
<1>1. i \in 1 .. Len(heap.list) /\ heap.list[i].start = p /\ ~heap.list[i].is_freed
  BY CleanParts, Held
<1>2. req \in Nat
  BY RequestParts
<1>3. /\ heap.list[i].size >= req
      /\ heap' = g /\ g.brk <= HeapLimit /\ owned' = Give(owned, p, n)
  BY DEF ReallocInPlace, Becomes, BlockOf, Place
<1> HIDE DEF i
<1>4. Sized(heap, heap', heap.list[i], req)
  <2>1. SplitIfRoom(heap, i, req).overrun = "no"
    BY <1>3 DEF Clean
  <2> HIDE DEF req
  <2>2. Sized(heap, SplitIfRoom(heap, i, req), heap.list[i], req)
    BY <1>1, <1>2, <1>3, <2>1, CleanParts, SplitIfRoomSound
  <2> QED  BY <1>3, <2>2
<1> HIDE DEF g
<1>5. heap'.brk <= HeapLimit /\ owned' = Give(owned, p, n)
  BY <1>3
<1> QED  BY <1>1, <1>4, <1>5, SizedStep

LEMMA UpwardsStep ==
    ASSUME Clean, NEW p \in DOMAIN owned, NEW n \in Requests, ReallocUpwards(p, n)
    PROVE  Next1
<1> DEFINE i == Place(heap.list, p)
           req == Aligned(n)
           g == SplitIfRoom(connect(heap, i), i, req)
<1>1. i \in 1 .. Len(heap.list) /\ heap.list[i].start = p /\ ~heap.list[i].is_freed
  BY CleanParts, Held
<1>2. req \in Nat
  BY RequestParts
<1>3. /\ UpSuffices(i, req)
      /\ heap' = g /\ g.brk <= HeapLimit /\ owned' = Give(owned, p, n)
  BY DEF ReallocUpwards, Becomes, BlockOf, Place
<1> HIDE DEF i
<1>4. /\ i \in 1 .. Len(heap.list) - 1 /\ heap.list[i + 1].is_freed
      /\ heap.list[i].size + heap.list[i + 1].size + Meta >= req
  <2>1. Len(heap.list) \in Nat
    BY CleanParts, SoundParts
  <2>2. /\ i + 1 <= Len(heap.list) /\ heap.list[i + 1].is_freed
        /\ heap.list[i].size + heap.list[i + 1].size + Meta >= req
    BY <1>3 DEF UpSuffices, IsFree
  <2> QED  BY <1>1, <2>1, <2>2
<1>5. Sized(heap, heap', heap.list[i], req)
  <2>1. SplitIfRoom(connect(heap, i), i, req).overrun = "no"
    BY <1>3 DEF Clean
  <2> HIDE DEF req
  <2>2. Sized(heap, SplitIfRoom(connect(heap, i), i, req), heap.list[i], req)
    BY <1>1, <1>2, <1>4, <2>1, CleanParts, UpSized
  <2> QED  BY <1>3, <2>2
<1> HIDE DEF g
<1>6. heap'.brk <= HeapLimit /\ owned' = Give(owned, p, n)
  BY <1>3
<1> QED  BY <1>1, <1>5, <1>6, SizedStep

LEMMA WildernessStep ==
    ASSUME Clean, NEW p \in DOMAIN owned, NEW n \in Requests, ReallocWilderness(p, n)
    PROVE  Next1
<1> DEFINE i == Place(heap.list, p)
           req == Aligned(n)
           g == wilderness(heap, req)
<1>1. i \in 1 .. Len(heap.list) /\ heap.list[i].start = p /\ ~heap.list[i].is_freed
  BY CleanParts, Held
<1>2. req \in Nat
  BY RequestParts
<1>3. /\ heap.list[i].size < req /\ i = Len(heap.list)
      /\ heap' = g /\ g.brk <= HeapLimit /\ owned' = Give(owned, p, n)
  BY DEF ReallocWilderness, TooSmall, Becomes, BlockOf, Place
<1> HIDE DEF i
<1>4. /\ Len(heap.list) > 0 /\ req >= heap.list[Len(heap.list)].size
  <2>1. Len(heap.list) \in Nat /\ heap.list[i].size \in Nat
    BY <1>1, CleanParts, SoundParts
  <2> QED  BY <1>1, <1>2, <1>3, <2>1
<1>5. Sized(heap, heap', heap.list[i], req)
  <2> HIDE DEF req
  <2>2. Sized(heap, wilderness(heap, req), heap.list[Len(heap.list)], req)
    BY <1>2, <1>4, CleanParts, WildernessSized
  <2> QED  BY <1>3, <2>2
<1> HIDE DEF g
<1>6. heap'.brk <= HeapLimit /\ owned' = Give(owned, p, n)
  BY <1>3
<1> QED  BY <1>1, <1>5, <1>6, SizedStep

(* realloc() that moves the block: memory that nobody owns first, then the *)
(* old block is free.                                                      *)
LEMMA MoveStep ==
    ASSUME Clean, NEW p \in DOMAIN owned, NEW n \in Requests, ReallocMove(p, n)
    PROVE  Next1
<1> DEFINE req == Aligned(n)
           found == AllocateFrom(heap, req)
           g == found.heap
           old == Place(g.list, p)
           q == Pointer(found)
           r == Released(g, old)
<1>1. req \in Nat /\ req >= n
  BY RequestParts
<1>2. \/ heap' = r /\ r.brk <= HeapLimit /\ owned' = Give(Take(owned, p), q, n)
      \/ heap' = g /\ g.brk <= HeapLimit /\ owned' = owned
  BY DEF ReallocMove, Becomes, Place
<1>3. AllocateFrom(heap, req).heap.overrun = "no"
  <2> SUFFICES ASSUME AllocateFrom(heap, req).heap.overrun # "no" PROVE FALSE
    OBVIOUS
  <2> HIDE DEF req
  <2>1. \A k : Released(AllocateFrom(heap, req).heap, k).overrun # "no"
    BY <1>1, CleanParts, MoveOverruns
  <2> QED  BY <1>2, <2>1 DEF Clean
<1>4. Gives(heap, found, req)
  <2> HIDE DEF req
  <2> QED  BY <1>1, <1>3, CleanParts, AllocateSound
<1>5. PICK x \in Used(heap.list) : x.start = p
  BY CleanParts DEF Keeps
<1> HIDE DEF req, found
<1>6. g.brk <= HeapLimit
  <2>1. CASE heap' = r /\ r.brk <= HeapLimit
    <3>1. Sound(g)
      BY <1>4 DEF Gives
    <3> HIDE DEF g, old
    <3>2. r.brk = g.brk
      BY <3>1, ReleasedBrk
    <3> HIDE DEF r
    <3> QED  BY <2>1, <3>2
  <2> QED  BY <1>2, <2>1
<1>7. /\ Sound(g) /\ Merged(g.list) /\ Len(g.list) > 0
      /\ Used(heap.list) \subseteq Used(g.list)
      /\ Keeps(Used(g.list), owned) /\ Keeps(Used(g.list), Give(owned, q, n))
      /\ q \in 0 .. HeapLimit /\ q \notin DOMAIN owned
      /\ Contract!Apart(Give(owned, q, n))
  BY <1>1, <1>4, <1>6, CleanParts, NewHeld
<1> HIDE DEF g, q
<1>8. old \in 1 .. Len(g.list) /\ g.list[old] = x /\ ~g.list[old].is_freed
  BY <1>5, <1>7, Placed
<1> HIDE DEF old
<1>9. Sound(r) /\ Merged(r.list) /\ Used(r.list) = Used(g.list) \ {x}
  BY <1>7, <1>8, ReleasedSound
<1>10. r.brk = g.brk
  BY <1>7, ReleasedBrk
<1> HIDE DEF r
<1>11. CASE heap' = g /\ owned' = owned
  <2>1. Intact(heap', owned') /\ Len(heap'.list) > 0
    BY <1>6, <1>7, <1>11 DEF Intact
  <2> QED  BY <1>11, <2>1 DEF Next1
<1>12. CASE heap' = r /\ owned' = Give(Take(owned, p), q, n)
  <2>1. Take(Give(owned, q, n), p) = Give(Take(owned, p), q, n)
    <3>1. p # q
      BY <1>7
    <3> QED  BY <3>1 DEF Take, Give, Restrict
  <2>2. Keeps(Used(g.list) \ {x}, Take(Give(owned, q, n), x.start))
    BY <1>7, KeepsLess
  <2>3. Keeps(Used(r.list), owned')
    BY <1>5, <1>9, <1>12, <2>1, <2>2
  <2>4. Len(r.list) > 0
    <3>1. g.brk # 0
      BY <1>7, BrkOfEmpty
    <3>2. Len(r.list) # 0
      BY <1>9, <1>10, <3>1, BrkOfEmpty
    <3>3. Len(r.list) \in Nat
      BY <1>9, SoundParts
    <3> QED  BY <3>2, <3>3
  <2>5. Intact(heap', owned') /\ Len(heap'.list) > 0
    BY <1>6, <1>9, <1>10, <1>12, <2>3, <2>4 DEF Intact
  <2>6. Contract!Move
    <3>1. owned' = Contract!Given(Contract!Taken(owned, p), q, n)
      BY <1>12 DEF Give, Take, Restrict, Contract!Given, Contract!Taken, Contract!Restrict
    <3>2. Contract!Apart(Contract!Given(owned, q, n))
      BY <1>7 DEF Give, Contract!Given
    <3> QED  BY <1>7, <3>1, <3>2 DEF Contract!Move
  <2> QED  BY <2>5, <2>6 DEF Next1, Contract!Next
<1> QED  BY <1>2, <1>11, <1>12

(* Every step.                                                             *)
LEMMA CleanStep ==
    ASSUME Clean, Next
    PROVE  \/ UNCHANGED vars
           \/ Next1 /\ first_alloc' = FALSE
           \/ Next1 /\ first_alloc' = first_alloc /\ Len(heap.list) > 0
<1>a. ASSUME NEW p \in DOMAIN owned PROVE Len(heap.list) > 0
  <2>1. PICK x \in Used(heap.list) : x.start = p
    BY CleanParts DEF Keeps
  <2> QED  BY <2>1, CleanParts, SomeBlock
<1>1. CASE \E n \in Requests : Malloc(n)
  <2>1. PICK n \in Requests : Malloc(n)
    BY <1>1
  <2>2. first_alloc' = FALSE
    BY <2>1 DEF Malloc
  <2>3. Next1
    BY <2>1, MallocStep
  <2> QED  BY <2>2, <2>3
<1>2. CASE \E n \in Requests : MallocRefused(n)
  BY <1>2 DEF MallocRefused
<1>3. CASE \E p \in DOMAIN owned : Free(p)
  <2>1. PICK p \in DOMAIN owned : Free(p)
    BY <1>3
  <2>2. first_alloc' = first_alloc
    BY <2>1 DEF Free
  <2>3. Next1
    BY <2>1, FreeStep
  <2> QED  BY <1>a, <2>2, <2>3
<1>4. CASE \E p \in DOMAIN owned, n \in Requests : Realloc(p, n)
  <2>1. PICK p \in DOMAIN owned, n \in Requests : Realloc(p, n)
    BY <1>4
  <2>2. first_alloc' = first_alloc
    BY <2>1 DEF Realloc
  <2>3. Next1
    BY <2>1, InPlaceStep, UpwardsStep, WildernessStep, MoveStep DEF Realloc
  <2> QED  BY <1>a, <2>2, <2>3
<1> QED  BY <1>1, <1>2, <1>3, <1>4 DEF Next

LEMMA CountedStep ==
    ASSUME Counted(owned), Next
    PROVE  Counted(owned')
<1>1. CASE \E n \in Requests : Malloc(n)
  <2>1. PICK n \in Requests : Malloc(n)
    BY <1>1
  <2>2. PICK q : owned' = Give(owned, q, n) \/ owned' = owned
    BY <2>1 DEF Malloc
  <2>3. Counted(Give(owned, q, n))
    BY Gave
  <2> QED  BY <2>2, <2>3
<1>2. CASE \E n \in Requests : MallocRefused(n)
  BY <1>2 DEF MallocRefused, vars
<1>3. CASE \E p \in DOMAIN owned : Free(p)
  BY <1>3, Took DEF Free
<1>4. CASE \E p \in DOMAIN owned, n \in Requests : Realloc(p, n)
  <2>1. PICK p \in DOMAIN owned, n \in Requests : Realloc(p, n)
    BY <1>4
  <2>2. CASE ReallocMove(p, n)
    <3>1. Counted(Take(owned, p))
      BY Took
    <3>2. PICK q : owned' = Give(Take(owned, p), q, n) \/ owned' = owned
      BY <2>2 DEF ReallocMove
    <3>3. Counted(Give(Take(owned, p), q, n))
      BY <3>1, Gave
    <3> QED  BY <3>2, <3>3
  <2>3. CASE ~ReallocMove(p, n)
    <3>1. owned' = Give(owned, p, n)
      BY <2>1, <2>3 DEF Realloc, ReallocInPlace, ReallocUpwards, ReallocWilderness
    <3>2. Counted(Give(owned, p, n))
      BY Gave
    <3> QED  BY <3>1, <3>2
  <2> QED  BY <2>2, <2>3
<1> QED  BY <1>1, <1>2, <1>3, <1>4 DEF Next

LEMMA StartsIntact ==
    ASSUME Init
    PROVE  IInv /\ heap.overrun = "no"
<1>1. /\ heap.list = << >> /\ heap.brk = 0 /\ heap.overrun = "no"
      /\ heap.num_free_blocks = 0 /\ heap.num_free_bytes = 0
      /\ heap.num_allocated_blocks = 0 /\ heap.num_allocated_bytes = 0
      /\ heap.num_meta_data_blocks = 0
  BY DEF Init
<1>2. Len(heap.list) = 0 /\ Range(heap.list) = {} /\ heap.list \in Seq(Blocks)
  BY <1>1 DEF Range
<1>3. heap \in Heaps
  BY DEF Init, Heaps
<1>4. Laid(heap.list, heap.brk)
  BY <1>1, <1>2 DEF Laid
<1>5. Sound(heap)
  BY <1>1, <1>2, <1>3, <1>4, NoTotals DEF Sound
<1>6. Merged(heap.list)
  BY <1>2 DEF Merged
<1>7. Intact(heap, owned) /\ Counted(owned)
  BY <1>1, <1>5, <1>6, NothingHeld, HeapAssumption DEF Intact, Init
<1>8. first_alloc = TRUE
  BY DEF Init
<1> QED  BY <1>1, <1>2, <1>7, <1>8 DEF IInv

LEMMA OverrunStays == Next => heap.overrun = "no"
BY DEF Next

LEMMA Inductive ==
    ASSUME IInv, [Next]_vars
    PROVE  IInv'
<1>1. CASE UNCHANGED vars
  <2>1. first_alloc' = first_alloc /\ heap' = heap /\ owned' = owned
    BY <1>1 DEF vars
  <2> QED  BY <2>1 DEF IInv
<1>2. CASE Next
  <2>1. Counted(owned')
    BY <1>2, CountedStep DEF IInv
  <2>2. first_alloc' \in BOOLEAN
    BY <1>2 DEF Next, IInv, Malloc, MallocRefused, vars, Free, Realloc
  <2>3. ASSUME heap'.overrun = "no", ~(UNCHANGED vars)
        PROVE  Intact(heap', owned') /\ (first_alloc' <=> Len(heap'.list) = 0)
    <3>1. Clean
      BY <1>2, <2>3, OverrunStays DEF Clean
    <3>2. \/ Next1 /\ first_alloc' = FALSE
          \/ Next1 /\ first_alloc' = first_alloc /\ Len(heap.list) > 0
      BY <1>2, <2>3, <3>1, CleanStep
    <3>3. Intact(heap', owned') /\ Len(heap'.list) > 0
      BY <3>2 DEF Next1
    <3>4. Len(heap'.list) # 0
      BY <3>3
    <3>5. ~first_alloc'
      <4>1. CASE first_alloc' = FALSE
        BY <4>1
      <4>2. CASE first_alloc' = first_alloc /\ Len(heap.list) > 0
        <5>1. first_alloc <=> Len(heap.list) = 0
          BY <3>1 DEF Clean, IInv
        <5>2. Len(heap.list) # 0
          BY <4>2
        <5>3. ~first_alloc
          BY <5>1, <5>2, Zenon
        <5> QED  BY <4>2, <5>3
      <4> QED  BY <3>2, <4>1, <4>2
    <3> QED  BY <3>3, <3>4, <3>5
  <2> QED  BY <1>1, <2>1, <2>2, <2>3 DEF IInv
<1> QED  BY <1>1, <1>2

------------------------------------------------------------------------------
(* What the invariant says of the heap is what the runs check.             *)
LEMMA TotalsNat ==
    ASSUME NEW B, NEW count, NEW free, NEW all, Totals(B, count, free, all),
           \A b \in B : b.size \in Nat
    PROVE  count \in Nat /\ free \in Nat /\ all \in Nat
<1>1. IsFiniteSet(B) /\ FreeIn(B) \subseteq B
  BY DEF Totals, FreeIn
<1>2. IsFiniteSet(FreeIn(B))
  BY <1>1, FS_Subset
<1>3. Cardinality(FreeIn(B)) \in Nat
  BY <1>2, FS_CardinalityType
<1>4. BytesOf(B) \in Nat /\ BytesOf(FreeIn(B)) \in Nat
  BY <1>1, <1>2, BytesOfNat
<1> QED  BY <1>3, <1>4 DEF Totals

LEMMA TypeFollows ==
    ASSUME IInv, heap.overrun = "no"
    PROVE  TypeOK
<1>1. Sound(heap) /\ heap.brk <= HeapLimit /\ Counted(owned) /\ first_alloc \in BOOLEAN
  BY DEF IInv, Intact
<1>2. /\ heap \in Heaps /\ heap.list \in Seq(Blocks) /\ heap.brk \in Nat
      /\ Len(heap.list) \in Nat
  BY <1>1, SoundParts
<1>3. heap.brk \in 0 .. HeapLimit
  BY <1>1, <1>2, HeapAssumption
<1>4. \A b \in Range(heap.list) : b.size \in Nat
  BY <1>2, RangeOf, BlockParts
<1>5. /\ heap.num_free_blocks \in Nat /\ heap.num_free_bytes \in Nat
      /\ heap.num_allocated_bytes \in Nat
  <2>1. Totals(Range(heap.list), heap.num_free_blocks, heap.num_free_bytes,
               heap.num_allocated_bytes)
    BY <1>1 DEF Sound
  <2> QED  BY <1>4, <2>1, TotalsNat
<1>6. heap.num_allocated_blocks \in Nat /\ heap.num_meta_data_blocks \in Nat
  BY <1>1, <1>2 DEF Sound
<1>7. heap \in [list : Seq(Blocks), brk : 0 .. HeapLimit,
                num_free_blocks : Nat, num_free_bytes : Nat,
                num_allocated_blocks : Nat, num_allocated_bytes : Nat,
                num_meta_data_blocks : Nat, overrun : {"no", "search", "realloc"}]
  BY <1>2, <1>3, <1>5, <1>6 DEF Heaps
<1> QED  BY <1>1, <1>7 DEF TypeOK, Counted

LEMMA TilingFollows ==
    ASSUME IInv, heap.overrun = "no"
    PROVE  Tiling
<1> DEFINE l == heap.list
<1>1. /\ Sound(heap) /\ Merged(l)
      /\ first_alloc <=> Len(l) = 0
  BY DEF IInv, Intact
<1>2. l \in Seq(Blocks) /\ Len(l) \in Nat /\ Laid(l, heap.brk)
  BY <1>1, SoundParts
<1>3. Len(l) = 0 <=> l = << >>
  BY <1>2
<1>4. first_alloc <=> l = << >>
  BY <1>1, <1>3, Zenon
<1>5. l # << >> => /\ l[1].start = Meta
                   /\ l[Len(l)].start + l[Len(l)].size = heap.brk
  <2>1. l # << >> => Len(l) > 0
    BY <1>2, <1>3
  <2> QED  BY <1>2, <2>1 DEF Laid
<1>6. ASSUME NEW i \in 1 .. Len(l) - 1
      PROVE  /\ l[i + 1].start = l[i].start + l[i].size + Meta
             /\ ~(IsFree(heap, i) /\ IsFree(heap, i + 1))
  <2>1. l[i + 1].start = l[i].start + l[i].size + Meta
    BY <1>2 DEF Laid
  <2>2. ~(l[i].is_freed /\ l[i + 1].is_freed)
    BY <1>1 DEF Merged
  <2> QED  BY <2>1, <2>2 DEF IsFree
<1>7. Tiled
  BY <1>4, <1>5, <1>6, TypeFollows, Zenon DEF Tiled
<1>8. CountersExact
  <2>1. FreeBlocks = FreeIn(Range(heap.list))
    BY DEF FreeBlocks, FreeIn
  <2>2. Totals(Range(heap.list), heap.num_free_blocks, heap.num_free_bytes,
               heap.num_allocated_bytes)
    BY <1>1 DEF Sound
  <2>3. heap.num_allocated_blocks = Len(heap.list) /\ heap.num_meta_data_blocks = Len(heap.list)
    BY <1>1 DEF Sound
  <2> QED  BY <2>1, <2>2, <2>3 DEF Totals, CountersExact
<1> QED  BY <1>7, <1>8 DEF Tiling

LEMMA OwnedFollows ==
    ASSUME IInv, heap.overrun = "no"
    PROVE  OwnedIntact
<1>1. Sound(heap) /\ Keeps(Used(heap.list), owned)
  BY DEF IInv, Intact
<1>2. DOMAIN heap.list = 1 .. Len(heap.list)
  BY <1>1, SoundParts
<1>3. ASSUME NEW p \in DOMAIN owned
      PROVE  \E i \in DOMAIN heap.list : /\ heap.list[i].start = p
                                         /\ ~heap.list[i].is_freed
                                         /\ heap.list[i].size >= owned[p]
  <2> DEFINE i == Place(heap.list, p)
  <2>1. /\ i \in 1 .. Len(heap.list) /\ heap.list[i].start = p
        /\ ~heap.list[i].is_freed /\ heap.list[i].size >= owned[p]
    BY <1>1, Held
  <2> HIDE DEF i
  <2> QED  BY <1>2, <2>1
<1> QED  BY <1>3 DEF OwnedIntact

(* With signed differences no step overruns a block.                       *)
LEMMA NoOverrun ==
    ASSUME ~Unsigned, IInv, heap.overrun = "no", [Next]_vars
    PROVE  heap'.overrun = "no"
<1>1. /\ Sound(heap) /\ Merged(heap.list) /\ Keeps(Used(heap.list), owned)
  BY DEF IInv, Intact
<1>2. CASE UNCHANGED vars
  BY <1>2 DEF vars
<1>3. ASSUME NEW n \in Requests PROVE AllocateFrom(heap, Aligned(n)).heap.overrun = "no"
  <2>1. Aligned(n) \in Nat
    BY RequestParts
  <2> QED  BY <1>1, <2>1, AllocateSafe
<1>4. ASSUME NEW n \in Requests, Malloc(n) PROVE heap'.overrun = "no"
  BY <1>3, <1>4 DEF Malloc, Becomes
<1>5. ASSUME NEW n \in Requests, MallocRefused(n) PROVE heap'.overrun = "no"
  BY <1>5 DEF MallocRefused, vars
<1>6. ASSUME NEW p \in DOMAIN owned
      PROVE  /\ BlockOf(p) \in 1 .. Len(heap.list) /\ ~heap.list[BlockOf(p)].is_freed
             /\ heap.list[BlockOf(p)].start = p
  <2>1. BlockOf(p) = Place(heap.list, p)
    BY DEF BlockOf, Place
  <2>2. LET i == Place(heap.list, p) IN
        i \in 1 .. Len(heap.list) /\ ~heap.list[i].is_freed /\ heap.list[i].start = p
    BY <1>1, Held
  <2> QED  BY <2>1, <2>2
<1>7. ASSUME NEW p \in DOMAIN owned, Free(p) PROVE heap'.overrun = "no"
  <2>1. Sound(Released(heap, BlockOf(p)))
    BY <1>1, <1>6, ReleasedSound
  <2> QED  BY <1>7, <2>1 DEF Free, Becomes, Sound
<1>8. ASSUME NEW p \in DOMAIN owned, NEW n \in Requests, Realloc(p, n)
      PROVE  heap'.overrun = "no"
  <2> DEFINE i == BlockOf(p)
             req == Aligned(n)
             g == AllocateFrom(heap, req).heap
  <2>1. req \in Nat /\ i \in 1 .. Len(heap.list) /\ ~heap.list[i].is_freed
    BY <1>6, RequestParts
  <2>2. CASE ReallocInPlace(p, n)
    <3>1. SplitIfRoom(heap, i, req).overrun = "no"
      <4> HIDE DEF i, req
      <4> QED  BY <1>1, <2>1, SplitIfRoomSafe
    <3> QED  BY <2>2, <3>1 DEF ReallocInPlace, Becomes
  <2>3. CASE ReallocUpwards(p, n)
    <3>1. UpSuffices(i, req) /\ heap' = SplitIfRoom(connect(heap, i), i, req)
      BY <2>3 DEF ReallocUpwards, Becomes
    <3> HIDE DEF i, req
    <3>2. i \in 1 .. Len(heap.list) - 1 /\ heap.list[i + 1].is_freed
      <4>1. Len(heap.list) \in Nat
        BY <1>1, SoundParts
      <4>2. i + 1 <= Len(heap.list) /\ heap.list[i + 1].is_freed
        BY <3>1 DEF UpSuffices, IsFree
      <4> QED  BY <2>1, <4>1, <4>2
    <3>3. /\ Sound(connect(heap, i)) /\ Merged(connect(heap, i).list)
          /\ i \in 1 .. Len(connect(heap, i).list)
      BY <1>1, <2>1, <3>2, UpMerged
    <3>4. SplitIfRoom(connect(heap, i), i, req).overrun = "no"
      BY <2>1, <3>3, SplitIfRoomSafe
    <3> QED  BY <3>1, <3>4
  <2>4. CASE ReallocWilderness(p, n)
    <3>1. heap.list[i].size < req /\ i = Len(heap.list) /\ heap' = wilderness(heap, req)
      BY <2>4 DEF ReallocWilderness, TooSmall, Becomes
    <3> HIDE DEF i, req
    <3>2. Len(heap.list) > 0 /\ req >= heap.list[Len(heap.list)].size
      <4>1. Len(heap.list) \in Nat /\ heap.list[i].size \in Nat
        BY <1>1, <2>1, SoundParts
      <4> QED  BY <2>1, <3>1, <4>1
    <3>3. Sound(wilderness(heap, req))
      BY <1>1, <2>1, <3>2, WildernessSound
    <3> QED  BY <3>1, <3>3 DEF Sound
  <2>5. CASE ReallocMove(p, n)
    <3>1. \/ heap' = g
          \/ heap' = Released(g, Place(g.list, p))
      BY <2>5 DEF ReallocMove, Becomes, Place
    <3>2. g.overrun = "no"
      BY <1>3
    <3>3. Released(g, Place(g.list, p)).overrun = "no"
      <4>1. Gives(heap, AllocateFrom(heap, req), req)
        <5> HIDE DEF req
        <5>1. AllocateFrom(heap, req).heap.overrun = "no"
          BY <3>2
        <5> QED  BY <1>1, <2>1, <5>1, AllocateSound
      <4>2. Sound(g) /\ Merged(g.list) /\ Used(heap.list) \subseteq Used(g.list)
        <5> HIDE DEF req
        <5> QED  BY <4>1 DEF Gives
      <4> HIDE DEF g
      <4>3. PICK x \in Used(g.list) : x.start = p
        BY <1>1, <4>2 DEF Keeps
      <4>4. /\ Place(g.list, p) \in 1 .. Len(g.list)
            /\ ~g.list[Place(g.list, p)].is_freed
        BY <4>2, <4>3, Placed
      <4>5. Sound(Released(g, Place(g.list, p)))
        BY <4>2, <4>4, ReleasedSound
      <4> QED  BY <4>5 DEF Sound
    <3> HIDE DEF g
    <3> QED  BY <3>1, <3>2, <3>3
  <2> QED  BY <1>8, <2>2, <2>3, <2>4, <2>5 DEF Realloc
<1> QED  BY <1>2, <1>4, <1>5, <1>7, <1>8 DEF Next

LEMMA Refines ==
    ASSUME IInv, heap.overrun = "no", heap'.overrun = "no", [Next]_vars
    PROVE  [Contract!Next]_owned
<1>1. CASE UNCHANGED vars
  BY <1>1 DEF vars
<1>2. CASE Next
  <2>1. Clean
    BY DEF Clean
  <2>2. UNCHANGED vars \/ Next1
    BY <1>2, <2>1, CleanStep
  <2> QED  BY <1>1, <2>2 DEF Next1
<1> QED  BY <1>1, <1>2

------------------------------------------------------------------------------
(* Whatever the callers do, on either target: as long as split() has not   *)
(* written outside of a block, the list of blocks tiles the memory, no two *)
(* free blocks are neighbours, the statistics are those of a walk over the *)
(* list, and a pointer that a caller holds is the start of a block in use  *)
(* that is large enough.                                                   *)
THEOREM SoundUntilOverrun ==
    Spec => [](heap.overrun = "no" => Tiling /\ OwnedIntact)
<1>1. Init => IInv
  BY StartsIntact
<1>2. IInv /\ [Next]_vars => IInv'
  BY Inductive
<1>3. IInv => (heap.overrun = "no" => Tiling /\ OwnedIntact)
  BY TilingFollows, OwnedFollows
<1> QED  BY <1>1, <1>2, <1>3, PTL DEF Spec

(* Where long long minus size_t is signed (i386), that is always: split()  *)
(* has room for the node that it writes.                                   *)
SafeInv == IInv /\ heap.overrun = "no"

LEMMA SafeForever == ASSUME ~Unsigned PROVE Spec => []SafeInv
<1>1. Init => SafeInv
  BY StartsIntact DEF SafeInv
<1>2. SafeInv /\ [Next]_vars => SafeInv'
  BY Inductive, NoOverrun DEF SafeInv
<1> QED  BY <1>1, <1>2, PTL DEF Spec

(* List, memory and statistics agree after every malloc(), free() and      *)
(* realloc().                                                              *)
THEOREM HeapTiles == ASSUME ~Unsigned PROVE Spec => []Tiling
<1>1. SafeInv => Tiling
  BY TilingFollows DEF SafeInv
<1> QED  BY <1>1, SafeForever, PTL

(* The memory of a caller stays in use and large enough until the caller   *)
(* gives it back.                                                          *)
THEOREM CallersKeepTheirs == ASSUME ~Unsigned PROVE Spec => []OwnedIntact
<1>1. SafeInv => OwnedIntact
  BY OwnedFollows DEF SafeInv
<1> QED  BY <1>1, SafeForever, PTL

(* malloc_3.cpp implements the allocator: what callers hold never          *)
(* overlaps, not even while realloc() copies, and changes hands only in a  *)
(* call that names it.                                                     *)
THEOREM Malloc3Allocates == ASSUME ~Unsigned PROVE Spec => ImplementsAllocator
<1>1. Init => Contract!Init
  BY DEF Init, Contract!Init
<1>2. SafeInv /\ SafeInv' /\ [Next]_vars => [Contract!Next]_owned
  BY Refines DEF SafeInv
<1> QED  BY <1>1, <1>2, SafeForever, PTL DEF Spec, ImplementsAllocator, Contract!Spec

------------------------------------------------------------------------------
(* The allocator of malloc_2.cpp.  Its heap is one of malloc_3.cpp without *)
(* overrun; it has the same blocks, and moves them the same way.           *)
second == INSTANCE Malloc2

Heaps2 == [list : Seq(Blocks), brk : Int, num_free_blocks : Int, num_free_bytes : Int,
           num_allocated_blocks : Int, num_allocated_bytes : Int,
           num_meta_data_blocks : Int]

As3(h) ==
    [list |-> h.list, brk |-> h.brk,
     num_free_blocks |-> h.num_free_blocks, num_free_bytes |-> h.num_free_bytes,
     num_allocated_blocks |-> h.num_allocated_blocks,
     num_allocated_bytes |-> h.num_allocated_bytes,
     num_meta_data_blocks |-> h.num_meta_data_blocks, overrun |-> "no"]

(* The memory of n nodes. *)
Nodes(n) == n * Meta

LEMMA OneNodeMore == Nodes(0) = 0 /\ \A n \in Int : Nodes(n) \in Int /\ Nodes(n + 1) = Nodes(n) + Meta
BY MetaAssumption DEF Nodes

Sound2(h) ==
    /\ h \in Heaps2 /\ Sound(As3(h))
    /\ Nodes(h.num_meta_data_blocks) = h.brk - h.num_allocated_bytes

LEMMA As3In == ASSUME NEW h \in Heaps2 PROVE As3(h) \in Heaps
BY DEF As3, Heaps2, Heaps

LEMMA SameHeap ==
    ASSUME NEW g \in Heaps, NEW h \in Heaps,
           g.list = h.list, g.brk = h.brk, g.overrun = h.overrun,
           g.num_free_blocks = h.num_free_blocks,
           g.num_free_bytes = h.num_free_bytes,
           g.num_allocated_blocks = h.num_allocated_blocks,
           g.num_allocated_bytes = h.num_allocated_bytes,
           g.num_meta_data_blocks = h.num_meta_data_blocks
    PROVE  g = h
BY DEF Heaps

LEMMA Sound2Parts ==
    ASSUME NEW h, Sound2(h)
    PROVE  /\ h \in Heaps2 /\ Sound(As3(h)) /\ As3(h).list = h.list /\ As3(h).brk = h.brk
           /\ h.list \in Seq(Blocks) /\ Len(h.list) \in Nat /\ h.brk \in Nat
           /\ Distinct(h.list)
           /\ h.num_free_blocks \in Int /\ h.num_free_bytes \in Int
           /\ h.num_allocated_blocks \in Int /\ h.num_allocated_bytes \in Int
           /\ h.num_meta_data_blocks \in Int
           /\ Nodes(h.num_meta_data_blocks) = h.brk - h.num_allocated_bytes
           /\ \A k \in 1 .. Len(h.list) :
                 /\ h.list[k] \in Blocks
                 /\ h.list[k].start \in Nat /\ h.list[k].size \in Nat
                 /\ h.list[k].is_freed \in BOOLEAN
<1>1. h \in Heaps2 /\ Sound(As3(h)) /\ As3(h).list = h.list /\ As3(h).brk = h.brk
  BY DEF Sound2, As3
<1>2. /\ As3(h).list \in Seq(Blocks) /\ Len(As3(h).list) \in Nat /\ As3(h).brk \in Nat
      /\ Distinct(As3(h).list)
      /\ \A k \in 1 .. Len(As3(h).list) :
            /\ As3(h).list[k] \in Blocks
            /\ As3(h).list[k].start \in Nat /\ As3(h).list[k].size \in Nat
            /\ As3(h).list[k].is_freed \in BOOLEAN
  BY <1>1, SoundParts
<1> QED  BY <1>1, <1>2 DEF Sound2, Heaps2

(* What setFree() and setUsed() change.                                    *)
Relisted(h, l, blocks, bytes) ==
    [h EXCEPT !.list = l, !.num_free_blocks = blocks, !.num_free_bytes = bytes]

LEMMA Swapped2 ==
    ASSUME NEW h, Sound2(h), NEW l \in Seq(Blocks), NEW blocks \in Int, NEW bytes \in Int
    PROVE  LET g == Relisted(h, l, blocks, bytes) IN
           /\ g \in Heaps2 /\ g.list = l /\ g.brk = h.brk
           /\ g.num_meta_data_blocks = h.num_meta_data_blocks
           /\ g.num_allocated_bytes = h.num_allocated_bytes
           /\ As3(g) = Relisted(As3(h), l, blocks, bytes)
           /\ As3(g).list = l
<1> DEFINE g == Relisted(h, l, blocks, bytes)
<1>1. h \in Heaps2
  BY Sound2Parts
<1>2. /\ g \in Heaps2 /\ g.list = l /\ g.brk = h.brk
      /\ g.num_free_blocks = blocks /\ g.num_free_bytes = bytes
      /\ g.num_allocated_blocks = h.num_allocated_blocks
      /\ g.num_allocated_bytes = h.num_allocated_bytes
      /\ g.num_meta_data_blocks = h.num_meta_data_blocks
  BY <1>1 DEF Heaps2, Relisted
<1> HIDE DEF g
<1>3. As3(g) = Relisted(As3(h), l, blocks, bytes)
  <2> DEFINE a == As3(h)
             r == Relisted(a, l, blocks, bytes)
  <2>1. As3(h) \in Heaps
    BY <1>1, As3In
  <2>2. As3(g) \in Heaps
    BY <1>2, As3In
  <2>3. /\ a.overrun = "no" /\ a.brk = h.brk
        /\ a.num_allocated_blocks = h.num_allocated_blocks
        /\ a.num_allocated_bytes = h.num_allocated_bytes
        /\ a.num_meta_data_blocks = h.num_meta_data_blocks
    BY DEF As3
  <2> HIDE DEF a
  <2>4. /\ r \in Heaps /\ r.list = l /\ r.brk = h.brk /\ r.overrun = "no"
        /\ r.num_free_blocks = blocks /\ r.num_free_bytes = bytes
        /\ r.num_allocated_blocks = h.num_allocated_blocks
        /\ r.num_allocated_bytes = h.num_allocated_bytes
        /\ r.num_meta_data_blocks = h.num_meta_data_blocks
    BY <2>1, <2>3 DEF Heaps, a, Relisted
  <2> HIDE DEF r
  <2>5. /\ As3(g).list = l /\ As3(g).brk = h.brk /\ As3(g).overrun = "no"
        /\ As3(g).num_free_blocks = blocks
        /\ As3(g).num_free_bytes = bytes
        /\ As3(g).num_allocated_blocks = h.num_allocated_blocks
        /\ As3(g).num_allocated_bytes = h.num_allocated_bytes
        /\ As3(g).num_meta_data_blocks = h.num_meta_data_blocks
    BY <1>2 DEF As3
  <2>6. As3(g) = r
    BY <2>2, <2>4, <2>5, SameHeap
  <2> QED  BY <2>6 DEF r, a
<1>4. As3(g).list = l
  BY <1>2 DEF As3
<1> QED  BY <1>2, <1>3, <1>4 DEF g

LEMMA SetFree2 ==
    ASSUME NEW h, Sound2(h), NEW i \in 1 .. Len(h.list), ~h.list[i].is_freed
    PROVE  LET g == second!setFree(h, i) IN
           /\ Sound2(g) /\ g.brk = h.brk /\ Used(g.list) = Used(h.list) \ {h.list[i]}
           /\ Swapped(g.list, h.list, i, Block(h.list[i].start, h.list[i].size, TRUE))
<1> DEFINE g == second!setFree(h, i)
           x == h.list[i]
           b == Block(x.start, x.size, TRUE)
           l == [h.list EXCEPT ![i] = b]
           blocks == h.num_free_blocks + 1
           bytes == h.num_free_bytes + x.size
<1>1. /\ h \in Heaps2 /\ h.list \in Seq(Blocks) /\ x \in Blocks /\ x.start \in Nat
      /\ x.size \in Nat /\ h.num_free_blocks \in Int /\ h.num_free_bytes \in Int
      /\ As3(h).list = h.list /\ As3(h) \in Heaps
      /\ As3(h).num_free_blocks = h.num_free_blocks
      /\ As3(h).num_free_bytes = h.num_free_bytes
  <2>1. Sound(As3(h))
    BY Sound2Parts
  <2> QED  BY <2>1, Sound2Parts, SoundParts DEF As3
<1>2. [h.list[i] EXCEPT !.is_freed = TRUE] = b
  BY <1>1, Marked
<1>3. g = Relisted(h, l, blocks, bytes)
  BY <1>1, <1>2 DEF second!setFree, Heaps2, Relisted
<1>4. setFree(As3(h), i) = Relisted(As3(h), l, blocks, bytes)
  BY <1>1, <1>2 DEF setFree, Heaps, Relisted
<1>5. l \in Seq(Blocks)
  <2>1. b \in Blocks
    BY <1>1, BlockIs, ZenonT(60)
  <2> HIDE DEF b
  <2> QED  BY <1>1, <2>1
<1>6. blocks \in Int /\ bytes \in Int
  BY <1>1
<1> HIDE DEF l, blocks, bytes, g
<1>7. /\ g \in Heaps2 /\ g.brk = h.brk
      /\ g.num_meta_data_blocks = h.num_meta_data_blocks
      /\ g.num_allocated_bytes = h.num_allocated_bytes
      /\ As3(g) = setFree(As3(h), i) /\ As3(g).list = g.list
  <2>1. LET r == Relisted(h, l, blocks, bytes) IN
        /\ r \in Heaps2 /\ r.list = l /\ r.brk = h.brk
        /\ r.num_meta_data_blocks = h.num_meta_data_blocks
        /\ r.num_allocated_bytes = h.num_allocated_bytes
        /\ As3(r) = Relisted(As3(h), l, blocks, bytes)
        /\ As3(r).list = l
    BY <1>5, <1>6, Swapped2
  <2> QED  BY <1>3, <1>4, <2>1
<1>8. /\ Sound(As3(g)) /\ Used(As3(g).list) = Used(As3(h).list) \ {x}
      /\ Swapped(As3(g).list, As3(h).list, i, b)
  <2>1. Sound(As3(h)) /\ i \in 1 .. Len(As3(h).list) /\ ~As3(h).list[i].is_freed
        /\ As3(h).list[i] = x
    BY <1>1, Sound2Parts
  <2> HIDE DEF b, x
  <2>2. LET r == setFree(As3(h), i)
            y == As3(h).list[i] IN
        /\ Sound(r) /\ Used(r.list) = Used(As3(h).list) \ {y}
        /\ Swapped(r.list, As3(h).list, i, Block(y.start, y.size, TRUE))
    BY <2>1, SetFree
  <2> QED  BY <1>7, <2>1, <2>2 DEF b
<1>9. Sound2(g)
  BY <1>7, <1>8, Sound2Parts DEF Sound2
<1> HIDE DEF b, x
<1>10. /\ Sound2(g) /\ g.brk = h.brk /\ Used(g.list) = Used(h.list) \ {x}
       /\ Swapped(g.list, h.list, i, b)
  BY <1>1, <1>7, <1>8, <1>9
<1> QED  BY <1>10 DEF g, b, x

LEMMA SetUsed2 ==
    ASSUME NEW h, Sound2(h), NEW i \in 1 .. Len(h.list), h.list[i].is_freed
    PROVE  LET g == second!setUsed(h, i)
               b == Block(h.list[i].start, h.list[i].size, FALSE) IN
           /\ Sound2(g) /\ g.brk = h.brk
           /\ Used(g.list) = (Used(h.list) \ {h.list[i]}) \cup {b}
           /\ Swapped(g.list, h.list, i, b)
<1> DEFINE g == second!setUsed(h, i)
           x == h.list[i]
           b == Block(x.start, x.size, FALSE)
           l == [h.list EXCEPT ![i] = b]
           blocks == h.num_free_blocks - 1
           bytes == h.num_free_bytes - x.size
<1>1. /\ h \in Heaps2 /\ h.list \in Seq(Blocks) /\ x \in Blocks /\ x.start \in Nat
      /\ x.size \in Nat /\ h.num_free_blocks \in Int /\ h.num_free_bytes \in Int
      /\ As3(h).list = h.list /\ As3(h) \in Heaps
      /\ As3(h).num_free_blocks = h.num_free_blocks
      /\ As3(h).num_free_bytes = h.num_free_bytes
  <2>1. Sound(As3(h))
    BY Sound2Parts
  <2> QED  BY <2>1, Sound2Parts, SoundParts DEF As3
<1>2. [h.list[i] EXCEPT !.is_freed = FALSE] = b
  BY <1>1, Marked
<1>3. g = Relisted(h, l, blocks, bytes)
  BY <1>1, <1>2 DEF second!setUsed, Heaps2, Relisted
<1>4. setUsed(As3(h), i) = Relisted(As3(h), l, blocks, bytes)
  BY <1>1, <1>2 DEF setUsed, Heaps, Relisted
<1>5. l \in Seq(Blocks)
  <2>1. b \in Blocks
    BY <1>1, BlockIs, ZenonT(60)
  <2> HIDE DEF b
  <2> QED  BY <1>1, <2>1
<1>6. blocks \in Int /\ bytes \in Int
  BY <1>1
<1> HIDE DEF l, blocks, bytes, g
<1>7. /\ g \in Heaps2 /\ g.brk = h.brk
      /\ g.num_meta_data_blocks = h.num_meta_data_blocks
      /\ g.num_allocated_bytes = h.num_allocated_bytes
      /\ As3(g) = setUsed(As3(h), i) /\ As3(g).list = g.list
  <2>1. LET r == Relisted(h, l, blocks, bytes) IN
        /\ r \in Heaps2 /\ r.list = l /\ r.brk = h.brk
        /\ r.num_meta_data_blocks = h.num_meta_data_blocks
        /\ r.num_allocated_bytes = h.num_allocated_bytes
        /\ As3(r) = Relisted(As3(h), l, blocks, bytes)
        /\ As3(r).list = l
    BY <1>5, <1>6, Swapped2
  <2> QED  BY <1>3, <1>4, <2>1
<1>8. /\ Sound(As3(g)) /\ Used(As3(g).list) = (Used(As3(h).list) \ {x}) \cup {b}
      /\ Swapped(As3(g).list, As3(h).list, i, b)
  <2>1. Sound(As3(h)) /\ i \in 1 .. Len(As3(h).list) /\ As3(h).list[i] = x
    BY <1>1, Sound2Parts
  <2> HIDE DEF b, x
  <2>2. LET r == setUsed(As3(h), i)
            y == As3(h).list[i]
            c == Block(y.start, y.size, FALSE) IN
        /\ Sound(r) /\ Used(r.list) = (Used(As3(h).list) \ {y}) \cup {c}
        /\ Swapped(r.list, As3(h).list, i, c)
    BY <2>1, SetUsed
  <2> QED  BY <1>7, <2>1, <2>2 DEF b
<1>9. Sound2(g)
  BY <1>7, <1>8, Sound2Parts DEF Sound2
<1> HIDE DEF b, x
<1>10. /\ Sound2(g) /\ g.brk = h.brk /\ Used(g.list) = (Used(h.list) \ {x}) \cup {b}
       /\ Swapped(g.list, h.list, i, b)
  BY <1>1, <1>7, <1>8, <1>9
<1> QED  BY <1>10 DEF g, b, x

LEMMA Append2 ==
    ASSUME NEW h, Sound2(h), NEW n \in Nat
    PROVE  LET g == second!append(h, n)
               b == Block(h.brk + Meta, n, FALSE) IN
           /\ Sound2(g) /\ Used(g.list) = Used(h.list) \cup {b}
           /\ Opened(g.list, h.list, Len(h.list) + 1, b)
<1> DEFINE b == Block(h.brk + Meta, n, FALSE)
           l == Append(h.list, b)
           brk == h.brk + Meta + n
           blocks == h.num_allocated_blocks + 1
           bytes == h.num_allocated_bytes + n
           nodes == h.num_meta_data_blocks + 1
           g == [h EXCEPT !.list = l, !.brk = brk, !.num_allocated_blocks = blocks,
                          !.num_allocated_bytes = bytes, !.num_meta_data_blocks = nodes]
           a == As3(h)
           r == append(a, n)
<1>1. /\ h \in Heaps2 /\ h.list \in Seq(Blocks) /\ h.brk \in Nat /\ Meta \in Nat
      /\ h.num_free_blocks \in Int /\ h.num_free_bytes \in Int
      /\ h.num_allocated_blocks \in Int /\ h.num_allocated_bytes \in Int
      /\ h.num_meta_data_blocks \in Int
      /\ Nodes(h.num_meta_data_blocks) = h.brk - h.num_allocated_bytes /\ Sound(a)
  BY Sound2Parts, MetaAssumption
<1>2. second!append(h, n) = g
  BY DEF second!append, Block
<1>3. b \in Blocks
  <2>1. h.brk + Meta \in Nat
    BY <1>1
  <2> QED  BY <2>1, BlockIs
<1>4. /\ l \in Seq(Blocks) /\ brk \in Int /\ blocks \in Int /\ bytes \in Int
      /\ nodes \in Int /\ Nodes(nodes) = brk - bytes
  <2> HIDE DEF b
  <2>1. l \in Seq(Blocks)
    BY <1>1, <1>3
  <2>2. brk \in Int /\ blocks \in Int /\ bytes \in Int /\ nodes \in Int
    BY <1>1, SMTT(60)
  <2>3. \A v, w, x, y \in Int : v = w - x => v + Meta = (w + Meta + y) - (x + y)
    BY <1>1
  <2>4. Nodes(nodes) = Nodes(h.num_meta_data_blocks) + Meta
        /\ Nodes(h.num_meta_data_blocks) \in Int
    BY <1>1, OneNodeMore
  <2>5. Nodes(nodes) = brk - bytes
    BY <1>1, <2>3, <2>4, SMTT(60)
  <2> HIDE DEF brk, bytes, nodes
  <2> QED  BY <2>1, <2>2, <2>5
<1>5. /\ a \in Heaps /\ a.overrun = "no" /\ a.list = h.list /\ a.brk = h.brk
      /\ a.num_free_blocks = h.num_free_blocks
      /\ a.num_free_bytes = h.num_free_bytes
      /\ a.num_allocated_blocks = h.num_allocated_blocks
      /\ a.num_allocated_bytes = h.num_allocated_bytes
      /\ a.num_meta_data_blocks = h.num_meta_data_blocks
  BY <1>1, As3In DEF As3
<1> HIDE DEF a
<1>6. r = [a EXCEPT !.list = l, !.brk = brk, !.num_allocated_blocks = blocks,
                    !.num_allocated_bytes = bytes, !.num_meta_data_blocks = nodes]
  BY <1>5 DEF append, Heaps
<1>7. /\ Sound(r) /\ Used(r.list) = Used(a.list) \cup {Block(a.brk + Meta, n, FALSE)}
      /\ Opened(r.list, a.list, Len(a.list) + 1, Block(a.brk + Meta, n, FALSE))
  BY <1>1, AppendOpens
<1>8. /\ Sound(r) /\ Used(r.list) = Used(h.list) \cup {b}
      /\ Opened(r.list, h.list, Len(h.list) + 1, b)
  BY <1>5, <1>7
<1> HIDE DEF l, brk, blocks, bytes, nodes, b, r
<1>9. /\ g \in Heaps2 /\ g.list = l /\ g.brk = brk
      /\ g.num_free_blocks = h.num_free_blocks /\ g.num_free_bytes = h.num_free_bytes
      /\ g.num_allocated_blocks = blocks /\ g.num_allocated_bytes = bytes
      /\ g.num_meta_data_blocks = nodes
  BY <1>1, <1>4 DEF Heaps2
<1>10. /\ r \in Heaps /\ r.list = l /\ r.brk = brk /\ r.overrun = "no"
       /\ r.num_free_blocks = h.num_free_blocks /\ r.num_free_bytes = h.num_free_bytes
       /\ r.num_allocated_blocks = blocks /\ r.num_allocated_bytes = bytes
       /\ r.num_meta_data_blocks = nodes
  BY <1>4, <1>5, <1>6 DEF Heaps
<1> HIDE DEF g
<1>11. As3(g) \in Heaps
  BY <1>9, As3In
<1>12. /\ As3(g).list = l /\ As3(g).brk = brk /\ As3(g).overrun = "no"
       /\ As3(g).num_free_blocks = h.num_free_blocks
       /\ As3(g).num_free_bytes = h.num_free_bytes
       /\ As3(g).num_allocated_blocks = blocks
       /\ As3(g).num_allocated_bytes = bytes
       /\ As3(g).num_meta_data_blocks = nodes
  BY <1>9 DEF As3
<1>13. As3(g) = r
  BY <1>10, <1>11, <1>12, SameHeap
<1>14. Sound2(g)
  <2>1. Nodes(g.num_meta_data_blocks) = g.brk - g.num_allocated_bytes
    BY <1>4, <1>9
  <2> QED  BY <1>8, <1>9, <1>13, <2>1 DEF Sound2
<1>15. g.list = r.list
  BY <1>9, <1>10
<1>16. /\ Sound2(g) /\ Used(g.list) = Used(h.list) \cup {b}
       /\ Opened(g.list, h.list, Len(h.list) + 1, b)
  BY <1>8, <1>14, <1>15
<1> QED  BY <1>2, <1>16 DEF b

(* malloc() gives block i of heap g: memory that no block in use holds.    *)
(* The blocks in use stay as they are, where they are.                     *)
Gives2(h, g, i, n) ==
    /\ Sound2(g) /\ i \in 1 .. Len(g.list)
    /\ ~g.list[i].is_freed /\ g.list[i].size >= n
    /\ \A c \in Used(h.list) : c.start # g.list[i].start
    /\ Used(g.list) = Used(h.list) \cup {g.list[i]}
    /\ \A k \in 1 .. Len(h.list) :
          ~h.list[k].is_freed => k \in 1 .. Len(g.list) /\ g.list[k] = h.list[k]

LEMMA SameFits ==
    ASSUME NEW h, Sound2(h), NEW n
    PROVE  second!Fits(h, n) = Fits(As3(h), n)
<1>1. As3(h).list = h.list /\ h.list \in Seq(Blocks) /\ Len(h.list) \in Nat
  BY Sound2Parts
<1> QED  BY <1>1 DEF second!Fits, Fits, IsFree

LEMMA SameMin == ASSUME NEW S PROVE second!Min(S) = Min(S)
BY DEF second!Min, Min

LEMMA Allocate2 ==
    ASSUME NEW h, Sound2(h), NEW n \in Nat
    PROVE  Gives2(h, second!AllocateFrom(h, n), second!Chosen(h, n), n)
<1> DEFINE F == second!Fits(h, n)
           g == second!AllocateFrom(h, n)
           i == second!Chosen(h, n)
<1>1. /\ As3(h).list = h.list /\ Sound(As3(h)) /\ Len(h.list) \in Nat
      /\ h.brk \in Nat /\ h.list \in Seq(Blocks) /\ Distinct(h.list)
  BY Sound2Parts
<1>2. CASE F # {}
  <2> DEFINE k == Min(F)
             b == Block(h.list[k].start, h.list[k].size, FALSE)
             u == second!setUsed(h, k)
  <2>1. g = u /\ i = k
    BY <1>2, SameMin DEF second!AllocateFrom, second!Chosen
  <2>2. k \in 1 .. Len(h.list) /\ h.list[k].is_freed /\ h.list[k].size >= n
    <3>1. Fits(As3(h), n) # {} /\ F = Fits(As3(h), n)
      BY <1>2, SameFits
    <3>2. LET j == Min(Fits(As3(h), n)) IN
          /\ j \in 1 .. Len(As3(h).list) /\ As3(h).list[j].is_freed
          /\ As3(h).list[j].size >= n
      BY <1>1, <3>1, FitsIn
    <3> QED  BY <1>1, <3>1, <3>2
  <2> HIDE DEF k, F
  <2>3. /\ Sound2(u) /\ Used(u.list) = (Used(h.list) \ {h.list[k]}) \cup {b}
        /\ Swapped(u.list, h.list, k, b)
    BY <2>2, SetUsed2
  <2>4. /\ \A c \in Used(h.list) : c.start # h.list[k].start
        /\ Used(h.list) \ {h.list[k]} = Used(h.list)
    <3>1. Sound(As3(h)) /\ k \in 1 .. Len(As3(h).list) /\ As3(h).list[k].is_freed
      BY <1>1, <2>2
    <3>2. /\ \A c \in Used(As3(h).list) : c.start # As3(h).list[k].start
          /\ Used(As3(h).list) \ {As3(h).list[k]} = Used(As3(h).list)
      BY <3>1, NotUsed
    <3> QED  BY <1>1, <3>2
  <2>5. b.start = h.list[k].start /\ b.size = h.list[k].size /\ ~b.is_freed
    BY DEF Block
  <2> HIDE DEF b, u
  <2>6. /\ k \in 1 .. Len(u.list) /\ u.list[k] = b /\ Len(u.list) = Len(h.list)
        /\ \A j \in 1 .. Len(h.list) : j # k => u.list[j] = h.list[j]
    BY <2>2, <2>3 DEF Swapped
  <2>7. Gives2(h, u, k, n)
    <3>1. Used(u.list) = Used(h.list) \cup {u.list[k]}
      BY <2>3, <2>4, <2>6
    <3>2. ASSUME NEW j \in 1 .. Len(h.list), ~h.list[j].is_freed
          PROVE  j \in 1 .. Len(u.list) /\ u.list[j] = h.list[j]
      BY <2>2, <2>6, <3>2
    <3> QED  BY <2>2, <2>3, <2>4, <2>5, <2>6, <3>1, <3>2 DEF Gives2
  <2> QED  BY <2>1, <2>7
<1>3. CASE F = {}
  <2> DEFINE b == Block(h.brk + Meta, n, FALSE)
             u == second!append(h, n)
             k == Len(h.list) + 1
  <2>1. g = u /\ i = k
    BY <1>3 DEF second!AllocateFrom, second!Chosen
  <2>2. /\ Sound2(u) /\ Used(u.list) = Used(h.list) \cup {b}
        /\ Opened(u.list, h.list, k, b)
    BY Append2
  <2>3. b.start = h.brk + Meta /\ b.size = n /\ ~b.is_freed
    BY DEF Block
  <2> HIDE DEF b, u
  <2>4. /\ k \in 1 .. Len(u.list) /\ u.list[k] = b
        /\ \A j \in 1 .. Len(h.list) : j \in 1 .. Len(u.list) /\ u.list[j] = h.list[j]
    BY <1>1, <2>2 DEF Opened
  <2>5. ASSUME NEW c \in Used(h.list) PROVE c.start # b.start
    <3>1. c \in Blocks /\ c.start + c.size <= h.brk
      <4>1. c \in Used(As3(h).list) /\ As3(h).brk = h.brk
        BY <1>1, Sound2Parts
      <4> QED  BY <1>1, <4>1, UsedBlocks
    <3>2. c.start \in Nat /\ c.size \in Nat /\ Meta \in Nat /\ Meta > 0
      BY <3>1, BlockParts, MetaAssumption
    <3> QED  BY <1>1, <2>3, <3>1, <3>2
  <2>6. Gives2(h, u, k, n)
    <3>1. u.list[k].size >= n
      BY <2>3, <2>4
    <3>2. Used(u.list) = Used(h.list) \cup {u.list[k]}
      BY <2>2, <2>4
    <3> QED  BY <2>2, <2>3, <2>4, <2>5, <3>1, <3>2 DEF Gives2
  <2> QED  BY <2>1, <2>6
<1> QED  BY <1>2, <1>3

------------------------------------------------------------------------------
(* What callers hold are the blocks in use, each by the pointer to it.     *)
Owns(B, o) ==
    /\ DOMAIN o = {b.start : b \in B}
    /\ \A b \in B : b.size >= o[b.start]

LEMMA OwnsKeeps == ASSUME NEW B, NEW o, Owns(B, o) PROVE Keeps(B, o)
BY DEF Owns, Keeps

LEMMA OwnsMore ==
    ASSUME NEW B, NEW o, Owns(B, o), NEW b, \A c \in B : c.start # b.start,
           NEW n, b.size >= n
    PROVE  Owns(B \cup {b}, Give(o, b.start, n))
<1> DEFINE g == Give(o, b.start, n)
<1>1. /\ DOMAIN g = DOMAIN o \cup {b.start}
      /\ \A q \in DOMAIN o \cup {b.start} : g[q] = IF q = b.start THEN n ELSE o[q]
  BY DEF Give
<1> HIDE DEF g
<1>2. DOMAIN g = {c.start : c \in B \cup {b}}
  BY <1>1 DEF Owns
<1>3. ASSUME NEW c \in B \cup {b} PROVE c.size >= g[c.start]
  <2>1. CASE c = b
    BY <1>1, <2>1
  <2>2. CASE c # b
    <3>1. c \in B /\ c.start # b.start /\ c.start \in DOMAIN o
      BY <2>2 DEF Owns
    <3>2. g[c.start] = o[c.start]
      BY <1>1, <3>1
    <3> QED  BY <3>1, <3>2 DEF Owns
  <2> QED  BY <2>1, <2>2
<1> QED  BY <1>2, <1>3 DEF Owns, g

LEMMA OwnsLess ==
    ASSUME NEW B, NEW o, Owns(B, o), NEW x \in B, \A c \in B : c.start = x.start => c = x
    PROVE  Owns(B \ {x}, Take(o, x.start))
<1> DEFINE g == Take(o, x.start)
<1>1. /\ DOMAIN g = DOMAIN o \ {x.start}
      /\ \A q \in DOMAIN o \ {x.start} : g[q] = o[q]
  BY Took
<1> HIDE DEF g
<1>2. \A c \in B \ {x} : c.start # x.start
  OBVIOUS
<1>3. DOMAIN g = {c.start : c \in B \ {x}}
  BY <1>1, <1>2 DEF Owns
<1>4. ASSUME NEW c \in B \ {x} PROVE c.size >= g[c.start]
  BY <1>1, <1>2 DEF Owns
<1> QED  BY <1>3, <1>4 DEF Owns, g

LEMMA OwnsResized ==
    ASSUME NEW B, NEW o, Owns(B, o), NEW x \in B, \A c \in B : c.start = x.start => c = x,
           NEW n, x.size >= n
    PROVE  Owns(B, Give(o, x.start, n))
<1> DEFINE g == Give(o, x.start, n)
<1>1. /\ DOMAIN g = DOMAIN o \cup {x.start}
      /\ \A q \in DOMAIN o \cup {x.start} : g[q] = IF q = x.start THEN n ELSE o[q]
  BY DEF Give
<1> HIDE DEF g
<1>2. DOMAIN g = {c.start : c \in B}
  BY <1>1 DEF Owns
<1>3. ASSUME NEW c \in B PROVE c.size >= g[c.start]
  <2>1. CASE c = x
    BY <1>1, <2>1
  <2>2. CASE c # x
    <3>1. c.start # x.start /\ c.start \in DOMAIN o
      BY <2>2 DEF Owns
    <3>2. g[c.start] = o[c.start]
      BY <1>1, <3>1
    <3> QED  BY <3>2 DEF Owns
  <2> QED  BY <2>1, <2>2
<1> QED  BY <1>2, <1>3 DEF Owns, g

Intact2(h, o) == Sound2(h) /\ h.brk <= HeapLimit /\ Owns(Used(h.list), o)
IInv2 == Intact2(heap, owned) /\ Counted(owned)

LEMMA Intact2Parts ==
    ASSUME NEW h, NEW o, Intact2(h, o)
    PROVE  /\ Sound2(h) /\ Sound(As3(h)) /\ As3(h).list = h.list /\ As3(h).brk = h.brk
           /\ Owns(Used(h.list), o) /\ Keeps(Used(h.list), o)
           /\ \A b \in Used(h.list) : b \in Blocks /\ b.start + b.size <= h.brk
           /\ \A b, c \in Used(h.list) : b.start = c.start => b = c
<1>1. /\ Sound2(h) /\ Sound(As3(h)) /\ As3(h).list = h.list /\ As3(h).brk = h.brk
      /\ Owns(Used(h.list), o)
  BY Sound2Parts DEF Intact2
<1>2. /\ \A b \in Used(As3(h).list) : b \in Blocks /\ b.start + b.size <= As3(h).brk
      /\ \A b, c \in Used(As3(h).list) : b.start = c.start => b = c
  BY <1>1, UsedBlocks
<1>3. Keeps(Used(h.list), o)
  BY <1>1, OwnsKeeps
<1> QED  BY <1>1, <1>2, <1>3

LEMMA Held2 ==
    ASSUME NEW h, NEW o, Intact2(h, o), NEW p \in DOMAIN o
    PROVE  LET i == Place(h.list, p) IN
           /\ i \in 1 .. Len(h.list) /\ h.list[i].start = p /\ h.list[i].size >= o[p]
           /\ ~h.list[i].is_freed /\ h.list[i] \in Used(h.list)
<1>1. Sound(As3(h)) /\ As3(h).list = h.list /\ Keeps(Used(As3(h).list), o)
  BY Intact2Parts
<1>2. LET i == Place(As3(h).list, p) IN
      /\ i \in 1 .. Len(As3(h).list) /\ As3(h).list[i].start = p /\ As3(h).list[i].size >= o[p]
      /\ ~As3(h).list[i].is_freed /\ As3(h).list[i] \in Used(As3(h).list)
  BY <1>1, Held
<1> QED  BY <1>1, <1>2

LEMMA Apart2 ==
    ASSUME NEW h, NEW o, Intact2(h, o), Counted(o)
    PROVE  Contract!Apart(o)
<1>1. Sound(As3(h)) /\ As3(h).list = h.list /\ Keeps(Used(As3(h).list), o)
  BY Intact2Parts
<1> QED  BY <1>1, HeldApart

LEMMA NewHeld2 ==
    ASSUME NEW h, NEW o, Intact2(h, o), Counted(o), NEW n \in Requests,
           NEW g, NEW i, Gives2(h, g, i, n), g.brk <= HeapLimit
    PROVE  LET p == g.list[i].start IN
           /\ Intact2(g, Give(o, p, n)) /\ Counted(Give(o, p, n))
           /\ p \in 0 .. HeapLimit /\ p \notin DOMAIN o
           /\ Contract!Apart(Give(o, p, n))
<1> DEFINE b == g.list[i]
           p == b.start
<1>1. /\ Sound2(g) /\ b.size >= n /\ \A c \in Used(h.list) : c.start # b.start
      /\ Used(g.list) = Used(h.list) \cup {b}
  BY DEF Gives2
<1> HIDE DEF b
<1>2. Owns(Used(h.list), o)
  BY Intact2Parts
<1>3. Owns(Used(h.list) \cup {b}, Give(o, p, n))
  BY <1>1, <1>2, OwnsMore
<1>4. Intact2(g, Give(o, p, n))
  BY <1>1, <1>3 DEF Intact2
<1>5. Counted(Give(o, p, n))
  BY Gave
<1>6. p \notin DOMAIN o
  BY <1>1, <1>2 DEF Owns
<1>7. p \in 0 .. HeapLimit
  <2>1. b \in Blocks /\ b.start + b.size <= g.brk
    BY <1>1, <1>4, Intact2Parts
  <2>2. g.brk \in Nat /\ HeapLimit \in Nat /\ b.start \in Nat /\ b.size \in Nat
    BY <1>1, <2>1, Sound2Parts, HeapAssumption, BlockParts
  <2>3. \A v, w, x, y \in Nat : v + w <= x /\ x <= y => v <= y
    OBVIOUS
  <2>4. b.start <= HeapLimit
    BY <2>1, <2>2, <2>3
  <2> QED  BY <2>2, <2>4
<1>8. Contract!Apart(Give(o, p, n))
  BY <1>4, <1>5, Apart2
<1>9. /\ Intact2(g, Give(o, p, n)) /\ Counted(Give(o, p, n))
      /\ p \in 0 .. HeapLimit /\ p \notin DOMAIN o
      /\ Contract!Apart(Give(o, p, n))
  BY <1>4, <1>5, <1>6, <1>7, <1>8
<1> QED  BY <1>9 DEF b

------------------------------------------------------------------------------
(* The steps of malloc_2.cpp.                                              *)
Next2 == IInv2' /\ [Contract!Next]_owned

LEMMA SameOwners ==
    ASSUME NEW o, NEW p, NEW n
    PROVE  second!Give(o, p, n) = Give(o, p, n) /\ second!Take(o, p) = Take(o, p)
BY DEF second!Give, Give, second!Take, Take, second!Restrict, Restrict

LEMMA MallocStep2 ==
    ASSUME IInv2, NEW n \in Requests, second!Malloc(n)
    PROVE  Next2
<1> DEFINE g == second!AllocateFrom(heap, n)
           i == second!Chosen(heap, n)
           p == g.list[i].start
<1>1. heap' = g /\ g.brk <= HeapLimit /\ owned' = Give(owned, p, n)
  BY SameOwners DEF second!Malloc, second!Becomes
<1>2. Intact2(heap, owned) /\ Counted(owned) /\ Sound2(heap)
  BY Intact2Parts DEF IInv2
<1>3. Gives2(heap, g, i, n)
  BY <1>2, RequestsAssumption, Allocate2
<1> HIDE DEF g, i
<1>4. /\ Intact2(g, Give(owned, p, n)) /\ Counted(Give(owned, p, n))
      /\ p \in 0 .. HeapLimit /\ p \notin DOMAIN owned
      /\ Contract!Apart(Give(owned, p, n))
  BY <1>1, <1>2, <1>3, NewHeld2
<1> HIDE DEF p
<1>5. IInv2'
  BY <1>1, <1>4 DEF IInv2
<1>6. Contract!Allocate
  <2>1. owned' = Contract!Given(owned, p, n)
    BY <1>1 DEF Give, Contract!Given
  <2> QED  BY <1>1, <1>4, <2>1 DEF Contract!Allocate
<1> QED  BY <1>5, <1>6 DEF Next2, Contract!Next

LEMMA FreeStep2 ==
    ASSUME IInv2, NEW p \in DOMAIN owned, second!Free(p)
    PROVE  Next2
<1> DEFINE i == Place(heap.list, p)
           x == heap.list[i]
           g == second!setFree(heap, i)
<1>1. Intact2(heap, owned) /\ Counted(owned) /\ Sound2(heap)
  BY Intact2Parts DEF IInv2
<1>2. i \in 1 .. Len(heap.list) /\ x.start = p /\ ~x.is_freed /\ x \in Used(heap.list)
  BY <1>1, Held2
<1>3. heap' = g /\ g.brk <= HeapLimit /\ owned' = Take(owned, p)
  BY SameOwners DEF second!Free, second!Becomes, second!BlockOf, Place
<1> HIDE DEF i
<1>4. Sound2(g) /\ Used(g.list) = Used(heap.list) \ {x}
  BY <1>1, <1>2, SetFree2
<1> HIDE DEF x, g
<1>5. Owns(Used(heap.list) \ {x}, Take(owned, x.start))
  BY <1>1, <1>2, Intact2Parts, OwnsLess
<1>6. Counted(Take(owned, p))
  BY <1>1, Took
<1>7. IInv2'
  BY <1>2, <1>3, <1>4, <1>5, <1>6 DEF IInv2, Intact2
<1>8. Contract!Free
  <2>1. owned' = Contract!Taken(owned, p)
    BY <1>3 DEF Take, Restrict, Contract!Taken, Contract!Restrict
  <2> QED  BY <2>1 DEF Contract!Free
<1> QED  BY <1>7, <1>8 DEF Next2, Contract!Next

LEMMA InPlaceStep2 ==
    ASSUME IInv2, NEW p \in DOMAIN owned, NEW n \in Requests, second!ReallocInPlace(p, n)
    PROVE  Next2
<1> DEFINE i == Place(heap.list, p)
           x == heap.list[i]
<1>1. Intact2(heap, owned) /\ Counted(owned)
  BY DEF IInv2
<1>2. x.start = p /\ x \in Used(heap.list)
  BY <1>1, Held2
<1>3. x.size >= n /\ owned' = Give(owned, p, n) /\ heap' = heap
  BY SameOwners DEF second!ReallocInPlace, second!BlockOf, Place
<1> HIDE DEF i, x
<1>4. Owns(Used(heap.list), Give(owned, x.start, n))
  BY <1>1, <1>2, <1>3, Intact2Parts, OwnsResized
<1>5. Counted(Give(owned, p, n))
  BY <1>1, Gave
<1>6. Intact2(heap, Give(owned, p, n))
  BY <1>1, <1>2, <1>4 DEF Intact2
<1>7. IInv2'
  BY <1>3, <1>5, <1>6 DEF IInv2
<1>8. Contract!Resize
  <2>1. owned' = Contract!Given(owned, p, n)
    BY <1>3 DEF Give, Contract!Given
  <2>2. Contract!Apart(owned')
    BY <1>3, <1>5, <1>6, Apart2
  <2> QED  BY <2>1, <2>2 DEF Contract!Resize
<1> QED  BY <1>7, <1>8 DEF Next2, Contract!Next

LEMMA MoveStep2 ==
    ASSUME IInv2, NEW p \in DOMAIN owned, NEW n \in Requests, second!ReallocMove(p, n)
    PROVE  Next2
<1> DEFINE i == Place(heap.list, p)
           x == heap.list[i]
           a == second!AllocateFrom(heap, n)
           j == second!Chosen(heap, n)
           q == a.list[j].start
           r == second!setFree(a, i)
<1>1. Intact2(heap, owned) /\ Counted(owned) /\ Sound2(heap)
  BY Intact2Parts DEF IInv2
<1>2. i \in 1 .. Len(heap.list) /\ x.start = p /\ ~x.is_freed /\ x \in Used(heap.list)
  BY <1>1, Held2
<1>3. /\ heap' = r /\ r.brk <= HeapLimit
      /\ owned' = Give(Take(owned, p), r.list[j].start, n)
  BY SameOwners DEF second!ReallocMove, second!MovedFrom, second!Becomes,
                    second!BlockOf, Place
<1>4. Gives2(heap, a, j, n)
  BY <1>1, RequestsAssumption, Allocate2
<1> HIDE DEF i, a, j
<1>5. Sound2(a) /\ i \in 1 .. Len(a.list) /\ a.list[i] = x /\ j \in 1 .. Len(a.list)
  BY <1>2, <1>4 DEF Gives2
<1>6. /\ Sound2(r) /\ r.brk = a.brk /\ Used(r.list) = Used(a.list) \ {x}
      /\ Swapped(r.list, a.list, i, Block(x.start, x.size, TRUE))
  BY <1>2, <1>5, SetFree2
<1> HIDE DEF x, r
<1>7. r.list[j].start = q
  BY <1>5, <1>6 DEF Swapped
<1>8. /\ Intact2(a, Give(owned, q, n)) /\ Counted(Give(owned, q, n))
      /\ q \in 0 .. HeapLimit /\ q \notin DOMAIN owned
      /\ Contract!Apart(Give(owned, q, n))
  BY <1>1, <1>3, <1>4, <1>6, NewHeld2
<1> HIDE DEF q
<1>9. x \in Used(a.list)
  BY <1>2, <1>4 DEF Gives2
<1>10. Owns(Used(a.list) \ {x}, Take(Give(owned, q, n), x.start))
  BY <1>8, <1>9, Intact2Parts, OwnsLess
<1>11. Take(Give(owned, q, n), p) = Give(Take(owned, p), q, n)
  <2>1. p # q
    BY <1>8
  <2> QED  BY <2>1 DEF Take, Give, Restrict
<1>12. Counted(Take(Give(owned, q, n), p))
  BY <1>8, Took
<1>13. owned' = Take(Give(owned, q, n), p)
  BY <1>3, <1>7, <1>11
<1>14. IInv2'
  BY <1>2, <1>3, <1>6, <1>10, <1>12, <1>13 DEF IInv2, Intact2
<1>15. Contract!Move
  <2>1. owned' = Contract!Given(Contract!Taken(owned, p), q, n)
    BY <1>11, <1>13 DEF Give, Take, Restrict, Contract!Given, Contract!Taken,
                        Contract!Restrict
  <2>2. Contract!Apart(Contract!Given(owned, q, n))
    BY <1>8 DEF Give, Contract!Given
  <2> QED  BY <1>8, <2>1, <2>2 DEF Contract!Move
<1> QED  BY <1>14, <1>15 DEF Next2, Contract!Next

LEMMA Step2 ==
    ASSUME IInv2, [second!Next]_(second!vars)
    PROVE  Next2
<1>1. CASE UNCHANGED second!vars
  <2>1. heap' = heap /\ owned' = owned
    BY <1>1 DEF second!vars
  <2>2. IInv2'
    BY <2>1 DEF IInv2
  <2> QED  BY <2>1, <2>2 DEF Next2
<1>2. CASE second!Next
  BY <1>1, <1>2, MallocStep2, FreeStep2, InPlaceStep2, MoveStep2
     DEF second!Next, second!MallocRefused, second!Realloc
<1> QED  BY <1>1, <1>2

LEMMA Starts2 ==
    ASSUME second!Init
    PROVE  IInv2 /\ owned = << >>
<1>1. /\ heap = [list |-> << >>, brk |-> 0,
                 num_free_blocks |-> 0, num_free_bytes |-> 0,
                 num_allocated_blocks |-> 0, num_allocated_bytes |-> 0,
                 num_meta_data_blocks |-> 0]
      /\ owned = << >>
  BY DEF second!Init
<1>2. << >> \in Seq(Blocks) /\ Len(<< >>) = 0 /\ Range(<< >>) = {}
  BY DEF Range
<1>3. /\ heap \in Heaps2 /\ heap.list = << >> /\ heap.brk = 0
      /\ heap.num_free_blocks = 0 /\ heap.num_free_bytes = 0
      /\ heap.num_allocated_blocks = 0 /\ heap.num_allocated_bytes = 0
      /\ heap.num_meta_data_blocks = 0
  BY <1>1, <1>2 DEF Heaps2
<1>4. As3(heap) \in Heaps
  BY <1>3, As3In
<1>5. /\ As3(heap).list = << >> /\ As3(heap).brk = 0 /\ As3(heap).overrun = "no"
      /\ As3(heap).num_free_blocks = 0 /\ As3(heap).num_free_bytes = 0
      /\ As3(heap).num_allocated_blocks = 0 /\ As3(heap).num_allocated_bytes = 0
      /\ As3(heap).num_meta_data_blocks = 0
  BY <1>3 DEF As3
<1>6. Laid(<< >>, 0)
  BY <1>2 DEF Laid
<1>7. Sound(As3(heap))
  BY <1>2, <1>4, <1>5, <1>6, NoTotals DEF Sound
<1>8. Sound2(heap)
  BY <1>3, <1>7, OneNodeMore DEF Sound2
<1>9. Owns(Used(heap.list), owned)
  <2>1. Used(heap.list) = {}
    BY <1>2, <1>3 DEF Used
  <2>2. DOMAIN owned = {}
    BY <1>1
  <2> QED  BY <2>1, <2>2 DEF Owns
<1>10. Counted(owned)
  BY <1>1, NothingHeld
<1>11. heap.brk <= HeapLimit
  BY <1>3, HeapAssumption
<1> QED  BY <1>1, <1>8, <1>9, <1>10, <1>11 DEF IInv2, Intact2

LEMMA InUseFollows == ASSUME IInv2 PROVE InUseIsOwned
<1>1. Sound2(heap) /\ heap.brk <= HeapLimit /\ Counted(owned) /\ Owns(Used(heap.list), owned)
  BY DEF IInv2, Intact2
<1>2. /\ heap.list \in Seq(Blocks) /\ heap.brk \in Nat /\ Distinct(heap.list)
      /\ Len(heap.list) \in Nat
      /\ Nodes(heap.num_meta_data_blocks) = heap.brk - heap.num_allocated_bytes
      /\ As3(heap).list = heap.list /\ Sound(As3(heap))
  BY <1>1, Sound2Parts
<1>3. heap.brk \in 0 .. HeapLimit
  BY <1>1, <1>2, HeapAssumption
<1>4. IsInjective(heap.list)
  <2>1. DOMAIN heap.list = 1 .. Len(heap.list)
    BY <1>2
  <2>2. \A i, j \in DOMAIN heap.list : heap.list[i] = heap.list[j] => i = j
    BY <1>2, <2>1 DEF Distinct
  <2> QED  BY <2>2 DEF IsInjective
<1>5. ListOK
  BY <1>1, <1>2, <1>3, <1>4 DEF ListOK, Counted
<1>6. FreeBlocks = FreeIn(Range(heap.list))
  BY DEF FreeBlocks, FreeIn
<1>7. /\ Totals(Range(heap.list), heap.num_free_blocks, heap.num_free_bytes,
                heap.num_allocated_bytes)
      /\ heap.num_allocated_blocks = Len(heap.list)
      /\ heap.num_meta_data_blocks = Len(heap.list)
  BY <1>2 DEF Sound, As3
<1>8. CountersExact
  BY <1>6, <1>7 DEF CountersExact, Totals
<1>9. Range(heap.list) \ FreeBlocks = Used(heap.list)
  BY <1>6 DEF FreeIn, Used
<1>10. /\ DOMAIN owned = {b.start : b \in Range(heap.list) \ FreeBlocks}
       /\ \A b \in Range(heap.list) \ FreeBlocks : b.size >= owned[b.start]
  BY <1>1, <1>9 DEF Owns
<1> QED  BY <1>2, <1>5, <1>8, <1>10 DEF InUseIsOwned, MetaDataBytes, Nodes

(* malloc_2.cpp: blocks in use and pointers that callers hold correspond,  *)
(* for every size and limit, and the statistics are exact, whatever        *)
(* malloc(), free() and realloc() did.                                     *)
THEOREM InUseIsHeld == second!Spec => []InUseIsOwned
<1>1. second!Init => IInv2
  BY Starts2
<1>2. IInv2 /\ [second!Next]_(second!vars) => IInv2'
  BY Step2 DEF Next2
<1>3. IInv2 => InUseIsOwned
  BY InUseFollows
<1> QED  BY <1>1, <1>2, <1>3, PTL DEF second!Spec

(* malloc_2.cpp implements the allocator that its callers see.             *)
THEOREM Malloc2Allocates == second!Spec => ImplementsAllocator
<1>1. second!Init => IInv2 /\ Contract!Init
  BY Starts2 DEF Contract!Init
<1>2. IInv2 /\ [second!Next]_(second!vars) => IInv2' /\ [Contract!Next]_owned
  BY Step2 DEF Next2
<1> QED  BY <1>1, <1>2, PTL DEF second!Spec, ImplementsAllocator, Contract!Spec
==============================================================================
