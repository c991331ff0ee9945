----------------------------- MODULE SetLemmas -----------------------------
(* Facts about finite sets and numbers that the proofs share.                *)
EXTENDS Integers, FiniteSets, FiniteSetsExt, FiniteSetTheorems, WellFoundedInduction, TLAPS

(* A finite set of numbers has a greatest element: by the least cardinality  *)
(* of a set without one.                                                     *)
LEMMA MaxOfFinite ==
  ASSUME NEW S \in SUBSET Nat, IsFiniteSet(S), S # {}
  PROVE  /\ Max(S) \in S
         /\ \A x \in S : x <= Max(S)
<1> DEFINE HasMax(T) == \E x \in T : \A y \in T : x >= y
           Bad == {n \in Nat : \E T \in SUBSET Nat : /\ IsFiniteSet(T) /\ T # {}
                                                     /\ Cardinality(T) = n
                                                     /\ ~HasMax(T)}
<1>1. Bad = {}
  <2> SUFFICES ASSUME Bad # {} PROVE FALSE
    OBVIOUS
  <2>1. PICK n \in Bad : \A k \in Bad : ~(<<k, n>> \in OpToRel(<, Nat))
    <3>1. Bad \subseteq Nat
      OBVIOUS
    <3> HIDE DEF Bad
    <3> QED BY <3>1, WFMin, NatLessThanWellFounded
  <2>2. \A k \in Bad : ~(k < n)
    BY <2>1 DEF OpToRel
  <2>3. PICK T \in SUBSET Nat : /\ IsFiniteSet(T) /\ T # {}
                                /\ Cardinality(T) = n /\ ~HasMax(T)
    OBVIOUS
  <2>4. PICK x \in T : TRUE
    BY <2>3
  <2>5. /\ IsFiniteSet(T \ {x})
        /\ Cardinality(T \ {x}) = n - 1
        /\ n - 1 \in Nat
    <3>1. IsFiniteSet(T \ {x}) /\ Cardinality(T \ {x}) = Cardinality(T) - 1
      BY <2>3, <2>4, FS_RemoveElement
    <3>2. Cardinality(T \ {x}) \in Nat
      BY <3>1, FS_CardinalityType
    <3> QED BY <2>3, <3>1, <3>2
  <2>6. T \ {x} # {}
    <3> SUFFICES ASSUME T = {x} PROVE FALSE
      BY <2>4
    <3> QED BY <2>3, <2>4
  <2>7. HasMax(T \ {x})
    <3> SUFFICES ASSUME ~HasMax(T \ {x}) PROVE FALSE
      OBVIOUS
    <3>1. n - 1 \in Bad
      BY <2>5, <2>6
    <3> QED BY <2>2, <2>5, <3>1
  <2>8. PICK m \in T \ {x} : \A y \in T \ {x} : m >= y
    BY <2>7
  <2>9. HasMax(T)
    <3>1. CASE x >= m
      BY <2>4, <2>8, <3>1
    <3>2. CASE ~(x >= m)
      BY <2>4, <2>8, <3>2
    <3> QED BY <3>1, <3>2
  <2> QED BY <2>3, <2>9
<1>2. HasMax(S)
  <2>1. Cardinality(S) \in Nat
    BY FS_CardinalityType
  <2>2. ~(Cardinality(S) \in Bad)
    BY <1>1
  <2> QED BY <2>1, <2>2
<1> QED BY <1>2 DEF Max

(* A set of natural numbers has a least element.                             *)
LEMMA LeastOf ==
  ASSUME NEW S \in SUBSET Nat, S # {}
  PROVE  \E x \in S : \A y \in S : x <= y
<1>1. PICK x \in S : \A y \in S : ~(<<y, x>> \in OpToRel(<, Nat))
  BY WFMin, NatLessThanWellFounded
<1>2. \A y \in S : ~(y < x)
  BY <1>1 DEF OpToRel
<1> QED BY <1>2

(* A finite set misses one of the numbers from 1 up to one more than it has   *)
(* elements.                                                                 *)
LEMMA FirstGap ==
  ASSUME NEW S \in SUBSET Nat, IsFiniteSet(S)
  PROVE  \E k \in 1 .. Cardinality(S) + 1 : k \notin S /\ \A j \in 1 .. k - 1 : j \in S
<1> DEFINE n == Cardinality(S) + 1
           Gaps == {k \in 1 .. n : k \notin S}
<1>1. n \in Nat \ {0}
  BY FS_CardinalityType
<1>2. Gaps # {}
  <2> SUFFICES ASSUME 1 .. n \in SUBSET S PROVE FALSE
    OBVIOUS
  <2>1. Cardinality(1 .. n) <= Cardinality(S)
    BY FS_Subset
  <2>2. Cardinality(1 .. n) = n
    <3> HIDE DEF n
    <3> QED BY <1>1, FS_Interval
  <2> QED BY <1>1, <2>1, <2>2, FS_CardinalityType
<1>3. Gaps \in SUBSET Nat
  BY <1>1
<1>4. PICK k \in Gaps : \A j \in Gaps : k <= j
  <2> HIDE DEF Gaps
  <2> QED BY <1>2, <1>3, LeastOf
<1>5. \A j \in 1 .. k - 1 : j \in 1 .. n /\ ~(k <= j)
  <2> HIDE DEF n
  <2> QED BY <1>1, <1>4
<1> QED BY <1>4, <1>5

(* The ranks of the elements of a finite set of numbers are 1 .. n.          *)
LEMMA RanksFill ==
  ASSUME NEW S \in SUBSET Nat, IsFiniteSet(S)
  PROVE  /\ Cardinality(S) \in Nat
         /\ \A i \in S : Cardinality({k \in S : k <= i}) \in 1 .. Cardinality(S)
         /\ \A i, j \in S : Cardinality({k \in S : k <= i}) = Cardinality({k \in S : k <= j}) => i = j
         /\ \A r \in 1 .. Cardinality(S) : \E i \in S : Cardinality({k \in S : k <= i}) = r
<1> DEFINE n == Cardinality(S)
           upto(i) == {k \in S : k <= i}
           rank == [i \in S |-> Cardinality(upto(i))]
           image == {rank[i] : i \in S}
<1>1. n \in Nat
  BY FS_CardinalityType
<1>2. ASSUME NEW i \in S
      PROVE  IsFiniteSet(upto(i)) /\ rank[i] \in 1 .. n
  <2>1. IsFiniteSet(upto(i)) /\ Cardinality(upto(i)) <= n
    BY FS_Subset
  <2>2. upto(i) # {}
    <3>1. i \in upto(i)
      OBVIOUS
    <3> QED
      BY <3>1
  <2>3. Cardinality(upto(i)) \in Nat /\ Cardinality(upto(i)) # 0
    <3> HIDE DEF upto
    <3> QED
      BY <2>1, <2>2, FS_CardinalityType, FS_EmptySet
  <2> QED
    BY <1>1, <2>1, <2>3
<1>3. ASSUME NEW i \in S, NEW j \in S, i < j
      PROVE  rank[i] # rank[j]
  <2>1. upto(i) \subseteq upto(j) /\ j \in upto(j) /\ j \notin upto(i)
    <3>1. i \in Nat /\ j \in Nat /\ ~(j <= i) /\ j <= j
      BY <1>3
    <3>2. \A k \in S : k \in Nat /\ (k <= i => k <= j)
      BY <1>3, <3>1
    <3> QED
      BY <3>1, <3>2
  <2>2. IsFiniteSet(upto(j))
    BY <1>2
  <2> HIDE DEF upto
  <2>3. Cardinality(upto(j)) # Cardinality(upto(i))
    BY <2>1, <2>2, FS_Subset
  <2> QED
    BY <2>3
<1>4. \A i, j \in S : rank[i] = rank[j] => i = j
  <2>1. \A i, j \in S : i = j \/ i < j \/ j < i
    OBVIOUS
  <2> HIDE DEF rank
  <2> QED
    BY <1>3, <2>1
<1>5. image = 1 .. n
  <2>1. image \subseteq 1 .. n /\ rank \in [S -> image]
    BY <1>2
  <2>2. rank \in Bijection(S, image)
    <3>1. \A r \in image : \E i \in S : rank[i] = r
      OBVIOUS
    <3> HIDE DEF rank, image
    <3> QED
      BY <1>4, <2>1, <3>1 DEF Bijection, Injection, Surjection, IsInjective
  <2> HIDE DEF rank, image
  <2>3. Cardinality(image) = n
    BY <2>2, FS_Bijection DEF ExistsBijection
  <2>4. IsFiniteSet(1 .. n) /\ Cardinality(1 .. n) = n
    BY <1>1, FS_Interval
  <2> HIDE DEF n
  <2> QED
    BY <2>1, <2>3, <2>4, FS_Subset
<1>6. \A i \in S : rank[i] = Cardinality({k \in S : k <= i})
  OBVIOUS
<1>7. \A r \in 1 .. n : \E i \in S : rank[i] = r
  BY <1>5
<1> HIDE DEF rank, n
<1> QED
  BY <1>1, <1>2, <1>4, <1>6, <1>7 DEF n
=============================================================================
