------------------------------- MODULE Ranking -------------------------------
(***************************************************************************)
(* Finite sets in a strict total order, and the rank of an element: how    *)
(* many elements come before it.  The models sort with it (ORDER BY        *)
(* position, id is the function that takes i to the row of rank i - 1) and *)
(* take greatest elements; the facts below say that both exist.            *)
(***************************************************************************)
EXTENDS Integers, FiniteSets, FiniteSetTheorems, TLAPS

(* R, a set of pairs, orders S.                                            *)
Orders(R, S) ==
  /\ \A x \in S : <<x, x>> \notin R
  /\ \A x, y, z \in S : <<x, y>> \in R /\ <<y, z>> \in R => <<x, z>> \in R
  /\ \A x, y \in S : x # y => <<x, y>> \in R \/ <<y, x>> \in R

Below(R, S, x) == {y \in S : <<y, x>> \in R}

Rank(R, S, x) == Cardinality(Below(R, S, x))

------------------------------------------------------------------------------
(* 1..n has n elements.                                                    *)
LEMMA CountTo ==
  ASSUME NEW n \in Nat PROVE IsFiniteSet(1..n) /\ Cardinality(1..n) = n
<1>1. IsFiniteSet(1..n) /\ Cardinality(1..n) = IF 1 > n THEN 0 ELSE n - 1 + 1
  BY FS_Interval
<1> QED BY <1>1

(* A rank is a number below the number of elements.                        *)
LEMMA RankType ==
  ASSUME NEW S, IsFiniteSet(S), NEW R, Orders(R, S), NEW x \in S
  PROVE  /\ IsFiniteSet(Below(R, S, x)) /\ Rank(R, S, x) \in Nat
         /\ Cardinality(S) \in Nat /\ Rank(R, S, x) < Cardinality(S)
<1>1. IsFiniteSet(S \ {x}) /\ Cardinality(S \ {x}) = Cardinality(S) - 1
  BY FS_RemoveElement
<1>2. Below(R, S, x) \in SUBSET (S \ {x})
  BY DEF Below, Orders
<1>3. IsFiniteSet(Below(R, S, x)) /\ Rank(R, S, x) <= Cardinality(S) - 1
  BY <1>1, <1>2, FS_Subset DEF Rank
<1>4. Rank(R, S, x) \in Nat /\ Cardinality(S) \in Nat
  BY <1>3, FS_CardinalityType DEF Rank
<1> QED BY <1>3, <1>4

(* What comes later has a greater rank.                                    *)
LEMMA RankGrows ==
  ASSUME NEW S, IsFiniteSet(S), NEW R, Orders(R, S), NEW x \in S, NEW y \in S,
         <<x, y>> \in R
  PROVE  Rank(R, S, x) < Rank(R, S, y)
<1>1. IsFiniteSet(Below(R, S, y)) /\ Rank(R, S, y) \in Nat /\ Rank(R, S, x) \in Nat
  BY RankType
<1>2. x \in Below(R, S, y)
  BY DEF Below
<1>3. /\ IsFiniteSet(Below(R, S, y) \ {x})
      /\ Cardinality(Below(R, S, y) \ {x}) = Rank(R, S, y) - 1
  BY <1>1, <1>2, FS_RemoveElement DEF Rank
<1>4. Below(R, S, x) \in SUBSET (Below(R, S, y) \ {x})
  BY DEF Below, Orders
<1>5. Rank(R, S, x) <= Rank(R, S, y) - 1
  BY <1>3, <1>4, FS_Subset DEF Rank
<1> QED BY <1>1, <1>5

(* No two elements have the same rank.                                     *)
LEMMA RankInjective ==
  ASSUME NEW S, IsFiniteSet(S), NEW R, Orders(R, S), NEW x \in S, NEW y \in S,
         Rank(R, S, x) = Rank(R, S, y)
  PROVE  x = y
<1>1. Rank(R, S, x) \in Nat /\ Rank(R, S, y) \in Nat
  BY RankType
<1>2. <<x, y>> \in R => FALSE
  BY <1>1, RankGrows
<1>3. <<y, x>> \in R => FALSE
  BY <1>1, RankGrows
<1> QED BY <1>2, <1>3 DEF Orders

(* Every number below the number of elements is a rank.                    *)
LEMMA RankOnto ==
  ASSUME NEW S, IsFiniteSet(S), NEW R, Orders(R, S), NEW i \in 0..Cardinality(S) - 1
  PROVE  \E x \in S : Rank(R, S, x) = i
<1> DEFINE n == Cardinality(S)
           rank == [x \in S |-> Rank(R, S, x)]
<1>1. n \in Nat
  BY FS_CardinalityType
<1>2. IsFiniteSet(0..n - 1) /\ Cardinality(0..n - 1) = n
  BY <1>1, FS_Interval
<1>3. rank \in [S -> 0..n - 1]
  BY RankType
<1>4. rank \in Injection(S, 0..n - 1)
  BY <1>3, RankInjective DEF Injection, IsInjective
<1>5. rank \in Surjection(S, 0..n - 1)
  BY <1>2, <1>4, FS_Injection
<1> QED BY <1>5 DEF Surjection

(* A sequence of all elements in order puts each at its rank.              *)
LEMMA SortedRank ==
  ASSUME NEW S, IsFiniteSet(S), NEW R, Orders(R, S), NEW n \in Nat, n = Cardinality(S),
         NEW s \in [1..n -> S], \A i, k \in 1..n : i < k => <<s[i], s[k]>> \in R,
         NEW i \in 1..n
  PROVE  Rank(R, S, s[i]) = i - 1
<1>1. \A j, k \in 1..n : s[j] = s[k] => j = k
  <2>1. \A j, k \in 1..n : j < k => s[j] # s[k]
    BY DEF Orders
  <2> QED BY <2>1
<1>2. s \in Injection(1..n, S)
  BY <1>1 DEF Injection, IsInjective
<1>3. Cardinality(1..n) = n
  BY CountTo
<1>4. s \in Surjection(1..n, S)
  BY <1>2, <1>3, FS_Injection
<1> DEFINE low == Below(R, S, s[i])
           f == [j \in 1..i - 1 |-> s[j]]
<1>5. \A j \in 1..n : s[j] \in low <=> j < i
  <2> TAKE j \in 1..n
  <2>1. j < i => s[j] \in low
    BY DEF Below
  <2>2. ASSUME s[j] \in low PROVE j < i
    <3>1. j # i
      BY <2>2 DEF Below, Orders
    <3>2. i < j => <<s[i], s[i]>> \in R
      BY <2>2 DEF Below, Orders
    <3> QED BY <3>1, <3>2 DEF Orders
  <2> QED BY <2>1, <2>2
<1>6. 1..i - 1 \subseteq 1..n
  OBVIOUS
<1>7. f \in [1..i - 1 -> low]
  BY <1>5, <1>6
<1>8. \A x \in low : \E j \in 1..i - 1 : f[j] = x
  <2> TAKE x \in low
  <2>1. PICK j \in 1..n : s[j] = x
    BY <1>4 DEF Below, Surjection
  <2>2. j \in 1..i - 1
    BY <1>5, <2>1
  <2> QED BY <2>1, <2>2
<1>9. f \in Bijection(1..i - 1, low)
  BY <1>1, <1>6, <1>7, <1>8 DEF Bijection, Injection, IsInjective, Surjection
<1>10. IsFiniteSet(1..i - 1) /\ Cardinality(1..i - 1) = i - 1
  BY i - 1 \in Nat, CountTo
<1>11. ExistsBijection(1..i - 1, low)
  BY <1>9 DEF ExistsBijection
<1>12. Cardinality(low) = i - 1
  BY <1>10, <1>11, FS_Bijection
<1> QED BY <1>12 DEF Rank

(* A finite set of integers that is not empty has a greatest element.      *)
LEMMA Greatest ==
  ASSUME NEW S \in SUBSET Int, IsFiniteSet(S), S # {}
  PROVE  \E m \in S : \A x \in S : x <= m
<1> DEFINE R == {p \in S \X S : p[1] < p[2]}
<1>1. \A x, y \in S : <<x, y>> \in R <=> x < y
  OBVIOUS
<1>2. Orders(R, S)
  <2> HIDE DEF R
  <2> QED BY <1>1 DEF Orders
<1> HIDE DEF R
<1>3. Cardinality(S) \in Nat /\ Cardinality(S) # 0
  BY FS_CardinalityType, FS_EmptySet
<1>4. PICK m \in S : Rank(R, S, m) = Cardinality(S) - 1
  BY <1>2, <1>3, RankOnto
<1>5. IsFiniteSet(S \ {m}) /\ Cardinality(S \ {m}) = Cardinality(S) - 1
  BY FS_RemoveElement
<1>6. Below(R, S, m) \in SUBSET (S \ {m})
  BY <1>1 DEF Below
<1>7. Below(R, S, m) = S \ {m}
  BY <1>4, <1>5, <1>6, FS_Subset DEF Rank
<1>8. \A x \in S : x # m => x < m
  BY <1>1, <1>7 DEF Below
<1> QED BY <1>8
=============================================================================
