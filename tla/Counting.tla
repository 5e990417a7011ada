------------------------------ MODULE Counting ------------------------------
(***************************************************************************)
(* Facts about numbers that the proofs of several modules stand on.  The   *)
(* library's induction theorems take an operator as a parameter, which no  *)
(* backend of the prover instantiates; here the predicate is a set of      *)
(* numbers, and the least element of a set stands in for the induction.    *)
(***************************************************************************)
EXTENDS Integers, FiniteSets, FiniteSetTheorems, TLAPS

(* A set of natural numbers has a least element.                            *)
LEMMA LeastExists ==
  ASSUME NEW A \in SUBSET Nat, A # {}
  PROVE  \E m \in A : \A n \in A : m <= n
<1> DEFINE T == {1 .. n : n \in A}
           R == StrictSubsetOrdering(Nat)
<1>1. IsWellFoundedOn(R, FiniteSubsetsOf(Nat))
  BY FS_StrictSubsetOrderingWellFounded
<1>2. T \subseteq FiniteSubsetsOf(Nat) /\ T # {}
  <2>1. ASSUME NEW n \in A PROVE 1 .. n \in SUBSET Nat /\ IsFiniteSet(1 .. n)
    BY FS_Interval
  <2> QED
    BY <2>1 DEF FiniteSubsetsOf
<1>3. PICK x \in T : \A y \in T : <<y, x>> \notin R
  <2> HIDE DEF T, R
  <2> QED
    BY <1>1, <1>2, WFMin
<1>4. PICK m \in A : x = 1 .. m
  BY <1>3
<1>5. ASSUME NEW n \in A, n < m PROVE FALSE
  <2>1. 1 .. n \in T /\ m \in Nat /\ n \in Nat
    BY <1>5
  <2>2. 1 .. n \subseteq 1 .. m /\ 1 .. n # 1 .. m
    <3>1. m \in 1 .. m /\ m \notin 1 .. n
      BY <2>1, <1>5
    <3> QED
      BY <2>1, <1>5, <3>1
  <2>3. <<1 .. n, 1 .. m>> \in R
    BY <2>1, <2>2 DEF StrictSubsetOrdering
  <2> QED
    BY <1>3, <1>4, <2>1, <2>3
<1> QED
  BY <1>5

(* A set of numbers that has 0 and, with each number, the next one, has    *)
(* them all.                                                               *)
LEMMA NatSetInduction ==
  ASSUME NEW P \in SUBSET Nat, 0 \in P, \A n \in P : n + 1 \in P
  PROVE  P = Nat
<1>1. SUFFICES ASSUME Nat \ P # {} PROVE FALSE
  OBVIOUS
<1>2. PICK m \in Nat \ P : \A k \in Nat \ P : m <= k
  BY <1>1, LeastExists
<1>3. m - 1 \in Nat /\ m - 1 < m
  BY <1>2
<1>4. m - 1 \in P
  BY <1>2, <1>3
<1> QED
  BY <1>2, <1>4

(* A set of n numbers has, for every k less than n, an element with k        *)
(* others in front of it.                                                   *)
LEMMA RankExists ==
  ASSUME NEW N \in Nat, NEW S \in SUBSET (1 .. N),
         NEW n \in Nat, n < Cardinality(S)
  PROVE  \E i \in S : Cardinality({j \in S : j < i}) = n
<1>1. IsFiniteSet(S) /\ Cardinality(S) \in Nat
  <2>1. IsFiniteSet(1 .. N)
    BY FS_Interval
  <2> QED
    BY <2>1, FS_Subset, FS_CardinalityType
<1>2. n < Cardinality(S)
  OBVIOUS
<1> DEFINE upTo(i) == {j \in S : j <= i}
           A == {i \in 0 .. N : Cardinality(upTo(i)) > n}
<1>3. IsFiniteSet(S) /\ \A j \in S : j \in Int /\ 1 <= j /\ j <= N
  <2>1. S \in SUBSET (1 .. N) /\ N \in Int
    BY <1>1
  <2>2. IsFiniteSet(1 .. N)
    BY <2>1, FS_Interval
  <2>3. IsFiniteSet(S)
    BY <2>1, <2>2, FS_Subset
  <2> QED
    BY <1>1, <2>3
<1>4. \A i \in 0 .. N : IsFiniteSet(upTo(i)) /\ Cardinality(upTo(i)) \in Nat
  <2> TAKE i \in 0 .. N
  <2>1. upTo(i) \in SUBSET S
    OBVIOUS
  <2> QED
    BY <1>3, <2>1, FS_Subset, FS_CardinalityType
<1>5. A \in SUBSET Nat /\ A # {}
  <2>1. upTo(N) = S
    BY <1>3
  <2>2. Cardinality(S) > n
    BY <1>1, <1>2
  <2>3. N \in 0 .. N /\ Cardinality(upTo(N)) > n
    <3> HIDE DEF upTo
    <3>1. Cardinality(upTo(N)) = Cardinality(S)
      BY <2>1
    <3> QED
      BY <1>1, <2>2, <3>1
  <2>4. N \in A
    BY <2>3
  <2>5. A \subseteq Nat
    OBVIOUS
  <2> HIDE DEF A
  <2> QED
    BY <2>4, <2>5
<1>6. PICK m \in A : \A k \in A : m <= k
  <2> HIDE DEF A
  <2> QED
    BY <1>5, LeastExists
<1>7. m \in 0 .. N /\ Cardinality(upTo(m)) > n
  BY <1>6
<1>8. m # 0
  <2>1. \A j \in S : ~(j <= 0)
    BY <1>3
  <2>2. upTo(0) = {}
    BY <2>1
  <2>3. Cardinality(upTo(0)) = 0
    BY <2>2, FS_EmptySet
  <2> HIDE DEF upTo
  <2> QED
    BY <1>7, <2>3
<1>9. m - 1 \in 0 .. N /\ Cardinality(upTo(m - 1)) <= n
  <2>1. m - 1 \in 0 .. N /\ m - 1 < m
    BY <1>7, <1>8, <1>1
  <2>2. m - 1 \notin A
    <3> HIDE DEF A
    <3> QED
      BY <1>5, <1>6, <1>7, <2>1
  <2>3. Cardinality(upTo(m - 1)) \in Nat
    BY <1>4, <2>1
  <2> HIDE DEF upTo
  <2> QED
    BY <2>1, <2>2, <2>3
<1>10. \A j \in S : (j <= m <=> j <= m - 1 \/ j = m) /\ (j <= m - 1 <=> j < m)
  BY <1>3, <1>7
<1>11. m \in S
  <2> SUFFICES ASSUME m \notin S PROVE FALSE
    OBVIOUS
  <2>1. upTo(m) = upTo(m - 1)
    BY <1>10
  <2>2. Cardinality(upTo(m)) \in Nat
    BY <1>4, <1>7
  <2> HIDE DEF upTo
  <2> QED
    BY <1>7, <1>9, <2>1, <2>2
<1>12. upTo(m) = upTo(m - 1) \cup {m} /\ m \notin upTo(m - 1)
  <2>1. m <= m /\ ~(m <= m - 1)
    BY <1>7
  <2>2. upTo(m) = upTo(m - 1) \cup {m}
    BY <1>11, <1>10
  <2> QED
    BY <2>1, <2>2
<1>13. Cardinality(upTo(m)) = Cardinality(upTo(m - 1)) + 1
  <2> HIDE DEF upTo
  <2> QED
    BY <1>4, <1>9, <1>12, FS_AddElement
<1>14. upTo(m - 1) = {j \in S : j < m}
  BY <1>10
<1>15. Cardinality(upTo(m - 1)) \in Nat
  BY <1>4, <1>9
<1>16. Cardinality(upTo(m - 1)) = n
  <2> HIDE DEF upTo
  <2> QED
    BY <1>7, <1>9, <1>13, <1>15
<1> QED
  BY <1>11, <1>14, <1>16

(* The rank of an element of a set of numbers: how many elements there are  *)
(* up to it.                                                                *)
Rank(i, S) == Cardinality({j \in S : j <= i})

LEMMA RankIsPosition ==
  ASSUME NEW N \in Nat, NEW S \in SUBSET (1 .. N)
  PROVE  /\ Cardinality(S) \in Nat
         /\ \A i \in S : Rank(i, S) \in 1 .. Cardinality(S)
         /\ \A i, j \in S : i < j => Rank(i, S) < Rank(j, S)
<1> DEFINE upTo(i) == {j \in S : j <= i}
<1>1. IsFiniteSet(S) /\ Cardinality(S) \in Nat
  <2>1. IsFiniteSet(1 .. N)
    BY FS_Interval
  <2> QED
    BY <2>1, FS_Subset, FS_CardinalityType
<1>2. S \in SUBSET Int
  OBVIOUS
<1>3. ASSUME NEW i \in S
      PROVE  /\ IsFiniteSet(upTo(i)) /\ Cardinality(upTo(i)) \in Nat
             /\ Cardinality(upTo(i)) <= Cardinality(S)
  <2>1. upTo(i) \in SUBSET S
    OBVIOUS
  <2> HIDE DEF upTo
  <2> QED
    BY <1>1, <2>1, FS_Subset, FS_CardinalityType
<1>4. ASSUME NEW i \in S PROVE Cardinality(upTo(i)) \in 1 .. Cardinality(S)
  <2>1. i <= i
    BY <1>2
  <2>2. i \in upTo(i)
    BY <2>1
  <2> HIDE DEF upTo
  <2>3. Cardinality(upTo(i)) # 0
    BY <1>3, <2>2, FS_EmptySet
  <2> QED
    BY <1>1, <1>3, <2>3
<1>5. ASSUME NEW i \in S, NEW j \in S, i < j
      PROVE  Cardinality(upTo(i)) < Cardinality(upTo(j))
  <2>1. \A k \in S : k <= i => k <= j
    BY <1>2, <1>5
  <2>2. j <= j /\ ~(j <= i)
    BY <1>2, <1>5
  <2>3. upTo(i) \in SUBSET upTo(j) /\ j \in upTo(j) /\ j \notin upTo(i)
    BY <2>1, <2>2
  <2> HIDE DEF upTo
  <2>4. Cardinality(upTo(i)) <= Cardinality(upTo(j))
    BY <1>3, <2>3, FS_Subset
  <2>5. Cardinality(upTo(i)) # Cardinality(upTo(j))
    BY <1>3, <2>3, FS_Subset
  <2>6. Cardinality(upTo(i)) \in Nat /\ Cardinality(upTo(j)) \in Nat
    BY <1>3
  <2> QED
    BY <2>4, <2>5, <2>6
<1> QED
  BY <1>1, <1>4, <1>5 DEF Rank

(* The k-th element of a set of numbers is the one of rank k: there is one  *)
(* for every k, they ascend with k, and there are no others.                *)
LEMMA RankIsTaken ==
  ASSUME NEW N \in Nat, NEW S \in SUBSET (1 .. N), NEW k \in 1 .. Cardinality(S)
  PROVE  \E i \in S : Rank(i, S) = k
<1>1. IsFiniteSet(S) /\ Cardinality(S) \in Nat
  <2>1. IsFiniteSet(1 .. N)
    BY FS_Interval
  <2> QED
    BY <2>1, FS_Subset, FS_CardinalityType
<1>2. k - 1 \in Nat /\ k - 1 < Cardinality(S) /\ k - 1 + 1 = k
  BY <1>1
<1>3. PICK i \in S : Cardinality({j \in S : j < i}) = k - 1
  BY <1>2, RankExists
<1> DEFINE below == {j \in S : j < i}
           upTo == {j \in S : j <= i}
<1>4. ~(i < i) /\ \A j \in S : j <= i <=> j < i \/ j = i
  OBVIOUS
<1>5. upTo = below \cup {i} /\ i \notin below /\ below \in SUBSET S
  BY <1>4
<1>6. Cardinality(upTo) = Cardinality(below) + 1
  <2> HIDE DEF upTo, below
  <2>1. IsFiniteSet(below)
    BY <1>1, <1>5, FS_Subset
  <2> QED
    BY <1>5, <2>1, FS_AddElement
<1>7. Cardinality(upTo) = k
  <2> HIDE DEF upTo
  <2> QED
    BY <1>2, <1>3, <1>6
<1> QED
  BY <1>7 DEF Rank

LEMMA RanksEnumerate ==
  ASSUME NEW N \in Nat, NEW S \in SUBSET (1 .. N)
  PROVE  LET At(k) == CHOOSE i \in S : Rank(i, S) = k IN
         /\ \A k \in 1 .. Cardinality(S) : At(k) \in S
         /\ \A k, l \in 1 .. Cardinality(S) : k < l => At(k) < At(l)
         /\ \A i \in S : \E k \in 1 .. Cardinality(S) : At(k) = i
<1> DEFINE At(k) == CHOOSE i \in S : Rank(i, S) = k
<1>1. \A i \in S : i \in Int
  OBVIOUS
<1>2. /\ Cardinality(S) \in Nat
      /\ \A i \in S : Rank(i, S) \in 1 .. Cardinality(S)
      /\ \A i, j \in S : i < j => Rank(i, S) < Rank(j, S)
  BY RankIsPosition
<1>3. \A k \in 1 .. Cardinality(S) : At(k) \in S /\ Rank(At(k), S) = k
  <2> TAKE k \in 1 .. Cardinality(S)
  <2>1. \E i \in S : Rank(i, S) = k
    BY RankIsTaken
  <2> QED
    BY <2>1
<1> HIDE DEF At
<1>4. \A k, l \in 1 .. Cardinality(S) : k < l => At(k) < At(l)
  <2> SUFFICES ASSUME NEW k \in 1 .. Cardinality(S), NEW l \in 1 .. Cardinality(S), k < l
               PROVE  At(k) < At(l)
    OBVIOUS
  <2>1. At(k) \in S /\ At(l) \in S /\ Rank(At(k), S) = k /\ Rank(At(l), S) = l
    BY <1>3
  <2>2. At(k) \in Int /\ At(l) \in Int /\ k \in Int /\ l \in Int
    <3>1. k \in Int /\ l \in Int
      BY <1>2
    <3> QED
      BY <1>1, <2>1, <3>1
  <2>3. At(l) # At(k)
    BY <2>1, <2>2
  <2>4. ~(At(l) < At(k))
    BY <1>2, <2>1, <2>2
  <2> QED
    BY <2>2, <2>3, <2>4
<1>5. \A i \in S : \E k \in 1 .. Cardinality(S) : At(k) = i
  <2> SUFFICES ASSUME NEW i \in S PROVE At(Rank(i, S)) = i
    BY <1>2
  <2> DEFINE m == At(Rank(i, S))
  <2>1. m \in S /\ Rank(m, S) = Rank(i, S) /\ Rank(i, S) \in Int
    BY <1>2, <1>3
  <2> HIDE DEF m
  <2>2. ~(m < i) /\ ~(i < m)
    BY <1>2, <2>1
  <2>3. m = i
    BY <2>1, <2>2
  <2> QED
    BY <2>3 DEF m
<1> QED
  BY <1>3, <1>4, <1>5 DEF At
=============================================================================
