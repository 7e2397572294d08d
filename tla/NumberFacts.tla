---------------------------- MODULE NumberFacts ----------------------------
(* Facts about greatest, least and free natural numbers that the proofs of  *)
(* the other modules rest on.                                               *)
EXTENDS Integers, FiniteSetsExt, FiniteSetTheorems, TLAPS

\* A bounded set of naturals that is not empty has a greatest element, and Max
\* returns it: what every number and cutoff the model computes rests on.
LEMMA BoundedMax ==
  ASSUME NEW S \in SUBSET Nat, S # {}, NEW B \in Nat, \A x \in S : x <= B
  PROVE  Max(S) \in S /\ \A y \in S : y <= Max(S)
<1> DEFINE T == {x \in 0..B : \E y \in S : x <= y}
           c == Cardinality(T)
<1>1. IsFiniteSet(0..B) /\ T \in SUBSET (0..B)
  BY FS_Interval
<1>2. IsFiniteSet(T) /\ c \in Nat
  <2> HIDE DEF T
  <2> QED BY <1>1, FS_Subset, FS_CardinalityType
<1>3. \A x \in T : x <= c - 1
  <2> TAKE x \in T
  <2>1. 0..x \in SUBSET T
    OBVIOUS
  <2>2. Cardinality(0..x) = x + 1
    BY FS_Interval
  <2> HIDE DEF T
  <2>3. Cardinality(0..x) <= c
    BY <2>1, <1>2, FS_Subset
  <2> QED
    BY <2>2, <2>3, <1>1, <1>2
<1>4. S \subseteq T
  OBVIOUS
<1>5. c - 1 \in T
  <2>1. c >= 1
    <3> HIDE DEF T, c
    <3>1. PICK x \in S : x \in T
      BY <1>4
    <3>2. x \in Nat /\ x <= c - 1
      BY <3>1, <1>3
    <3> QED BY <3>2, <1>2
  <2>2. Cardinality(0..(c - 1)) = c
    BY <2>1, <1>2, FS_Interval
  <2>3. T \in SUBSET (0..(c - 1)) /\ IsFiniteSet(0..(c - 1))
    <3> HIDE DEF T, c
    <3>1. T \subseteq 0..(c - 1)
      BY <1>1, <1>2, <1>3
    <3> QED BY <3>1, <1>2, FS_Interval
  <2> HIDE DEF T
  <2>4. T = 0..(c - 1)
    BY <2>2, <2>3, FS_Subset
  <2> QED
    BY <2>1, <2>4, <1>2
<1>6. PICK y \in S : y = c - 1
  <2>1. PICK y \in S : c - 1 <= y
    BY <1>5
  <2> HIDE DEF T
  <2> QED
    BY <2>1, <1>2, <1>3, <1>4
<1>7. \A z \in S : z <= y
  <2> HIDE DEF T
  <2> QED BY <1>3, <1>4, <1>6
<1> QED
  BY <1>7 DEF Max

\* A set of naturals that is not empty has a least element.
LEMMA NaturalMin ==
  ASSUME NEW S \in SUBSET Nat, S # {}
  PROVE  Min(S) \in S /\ \A y \in S : Min(S) <= y
<1>1. PICK b \in S : TRUE
  OBVIOUS
<1> DEFINE D == {d \in 0..b : b - d \in S}
<1>2. D \in SUBSET Nat /\ 0 \in D /\ \A d \in D : d <= b
  BY <1>1
<1>3. Max(D) \in D /\ \A d \in D : d <= Max(D)
  <2> HIDE DEF D
  <2> QED BY <1>1, <1>2, BoundedMax
<1>4. b - Max(D) \in S /\ \A y \in S : b - Max(D) <= y
  <2> DEFINE m == Max(D)
  <2>1. m \in D /\ \A d \in D : d <= m
    BY <1>3
  <2> HIDE DEF m
  <2>2. \A y \in S : b - m <= y
    <3> TAKE y \in S
    <3>1. CASE y <= b
      BY <3>1, <2>1
    <3>2. CASE y > b
      BY <3>2, <2>1
    <3> QED BY <3>1, <3>2
  <2> QED BY <2>1, <2>2 DEF m
<1> QED
  BY <1>4 DEF Min

\* Among Cardinality(U) + 1 consecutive numbers one is not in U: the search
\* for an unused invoice number ends within its bounded number of attempts.
LEMMA FreeNumber ==
  ASSUME NEW U, IsFiniteSet(U), NEW k \in Nat
  PROVE  LET F == {j \in k..(k + Cardinality(U)) : j \notin U}
         IN  Min(F) \in F /\ \A j \in F : Min(F) <= j
<1> DEFINE I == k..(k + Cardinality(U))
           F == {j \in I : j \notin U}
<1>1. Cardinality(U) \in Nat
  BY FS_CardinalityType
<1>2. Cardinality(I) = Cardinality(U) + 1
  <2> HIDE DEF I
  <2>1. I = k..(k + Cardinality(U))
    BY DEF I
  <2> QED
    BY <1>1, <2>1, FS_Interval
<1>3. F # {}
  <2>1. SUFFICES ASSUME F = {} PROVE FALSE
    OBVIOUS
  <2>2. I \in SUBSET U
    BY <2>1
  <2> HIDE DEF I
  <2>3. Cardinality(I) <= Cardinality(U)
    BY <2>2, FS_Subset
  <2> QED
    BY <2>3, <1>1, <1>2
<1>4. F \in SUBSET Nat
  BY <1>1
<1> HIDE DEF F
<1>5. Min(F) \in F /\ \A j \in F : Min(F) <= j
  BY <1>3, <1>4, NaturalMin
<1> QED
  BY <1>5 DEF F
=============================================================================
