----------------------------- MODULE OrderLemmas -----------------------------
(***************************************************************************)
(* Facts about finite sets in a strict order, and about least numbers, that *)
(* the proofs of RankingOrder and of SectionSeats share.                   *)
(***************************************************************************)
EXTENDS Integers, FiniteSets, FiniteSetTheorems, FunctionTheorems,
        WellFoundedInduction, TLAPS

\* What comes before x, in an order given as a set of pairs.
Preceding(S, R, x) == {y \in S : <<y, x>> \in R}

StrictOrder(S, R) ==
  /\ \A a \in S : <<a, a>> \notin R
  /\ \A a, b, c \in S : <<a, b>> \in R /\ <<b, c>> \in R => <<a, c>> \in R
  /\ \A a, b \in S : a # b => <<a, b>> \in R \/ <<b, a>> \in R

Arranged(S, R) ==
  {s \in [1 .. Cardinality(S) -> S] :
     \A i, j \in 1 .. Cardinality(S) : i < j => <<s[i], s[j]>> \in R}

LEMMA PrecedingCount ==
  ASSUME NEW S, IsFiniteSet(S), NEW R, StrictOrder(S, R), NEW x \in S
  PROVE  /\ Cardinality(S) \in Nat
         /\ Cardinality(Preceding(S, R, x)) \in Nat
         /\ Cardinality(Preceding(S, R, x)) < Cardinality(S)
         /\ IsFiniteSet(Preceding(S, R, x))
  <1> DEFINE P == Preceding(S, R, x)
  <1>1. P \in SUBSET S /\ x \notin P
    BY DEF Preceding, StrictOrder
  <1> HIDE DEF P
  <1>2. IsFiniteSet(P) /\ Cardinality(P) <= Cardinality(S)
        /\ (Cardinality(S) = Cardinality(P) => S = P)
    BY <1>1, FS_Subset
  <1>3. Cardinality(P) \in Nat /\ Cardinality(S) \in Nat
    BY <1>2, FS_CardinalityType
  <1>4. Cardinality(S) # Cardinality(P)
    BY <1>1, <1>2
  <1>5. Cardinality(P) < Cardinality(S)
    BY <1>2, <1>3, <1>4
  <1>6. QED
    BY <1>2, <1>3, <1>5 DEF P

LEMMA PrecedingGrows ==
  ASSUME NEW S, IsFiniteSet(S), NEW R, StrictOrder(S, R),
         NEW x \in S, NEW y \in S, <<x, y>> \in R
  PROVE  Cardinality(Preceding(S, R, x)) < Cardinality(Preceding(S, R, y))
  <1> DEFINE P == Preceding(S, R, x)
             Q == Preceding(S, R, y)
  <1>1. P \in SUBSET Q /\ x \in Q /\ x \notin P
    BY DEF Preceding, StrictOrder
  <1>2. IsFiniteSet(Q) /\ Cardinality(P) \in Nat /\ Cardinality(Q) \in Nat
    BY PrecedingCount
  <1> HIDE DEF P, Q
  <1>3. Cardinality(P) <= Cardinality(Q) /\ (Cardinality(Q) = Cardinality(P) => Q = P)
    BY <1>1, <1>2, FS_Subset
  <1>4. Cardinality(P) # Cardinality(Q)
    BY <1>1, <1>3
  <1>5. Cardinality(P) < Cardinality(Q)
    BY <1>2, <1>3, <1>4
  <1>6. QED
    BY <1>5 DEF P, Q

\* A finite set can be arranged: each element goes to the place after those that
\* come before it, and no two have as many.
LEMMA ArrangedExists ==
  ASSUME NEW S, IsFiniteSet(S), NEW R, StrictOrder(S, R)
  PROVE  Arranged(S, R) # {}
  <1> DEFINE n == Cardinality(S)
             place == [x \in S |-> 1 + Cardinality(Preceding(S, R, x))]
  <1>1. n \in Nat
    BY FS_CardinalityType
  <1>2. ASSUME NEW x \in S
        PROVE  place[x] \in 1 .. n
    <2>1. /\ Cardinality(Preceding(S, R, x)) \in Nat
          /\ Cardinality(Preceding(S, R, x)) < n
      BY PrecedingCount
    <2>2. place[x] = 1 + Cardinality(Preceding(S, R, x))
      OBVIOUS
    <2> HIDE DEF place, n
    <2>3. QED
      BY <1>1, <2>1, <2>2
  <1>3. ASSUME NEW x \in S, NEW y \in S, <<x, y>> \in R
        PROVE  place[x] < place[y]
    <2>1. Cardinality(Preceding(S, R, x)) < Cardinality(Preceding(S, R, y))
      BY <1>3, PrecedingGrows
    <2>2. /\ Cardinality(Preceding(S, R, x)) \in Nat
          /\ Cardinality(Preceding(S, R, y)) \in Nat
      BY PrecedingCount
    <2>3. QED
      BY <2>1, <2>2
  <1>4. place \in [S -> 1 .. n]
    BY <1>2
  <1> HIDE DEF place
  <1>5. ASSUME NEW x \in S, NEW y \in S, place[x] = place[y]
        PROVE  x = y
    <2>1. place[x] \in Int /\ place[y] \in Int
      BY <1>1, <1>2
    <2>2. ~ (place[x] < place[y]) /\ ~ (place[y] < place[x])
      BY <1>5, <2>1
    <2>3. QED
      BY <1>3, <2>2 DEF StrictOrder
  <1>6. place \in Injection(S, 1 .. n)
    BY <1>4, <1>5, Fun_IsInj
  <1>7. IsFiniteSet(1 .. n) /\ Cardinality(1 .. n) = n
    BY <1>1, FS_Interval
  <1>8. place \in Surjection(S, 1 .. n)
    BY <1>6, <1>7, FS_Injection
  <1>9. \A i \in 1 .. n : \E x \in S : place[x] = i
    BY <1>8, Fun_SurjectionProperties
  <1> DEFINE s == [i \in 1 .. n |-> CHOOSE x \in S : place[x] = i]
  <1>10. ASSUME NEW i \in 1 .. n
         PROVE  s[i] \in S /\ place[s[i]] = i
    BY <1>9
  <1>11. s \in [1 .. n -> S]
    BY <1>10
  <1> HIDE DEF s
  <1>12. ASSUME NEW i \in 1 .. n, NEW j \in 1 .. n, i < j
         PROVE  <<s[i], s[j]>> \in R
    <2>1. s[i] \in S /\ s[j] \in S /\ place[s[i]] = i /\ place[s[j]] = j
      BY <1>10
    <2>2. s[i] # s[j] /\ ~ (place[s[j]] < place[s[i]])
      BY <1>1, <1>12, <2>1
    <2>3. <<s[j], s[i]>> \notin R
      BY <1>3, <2>1, <2>2
    <2>4. QED
      BY <2>1, <2>2, <2>3 DEF StrictOrder
  <1>13. s \in Arranged(S, R)
    BY <1>11, <1>12 DEF Arranged
  <1>14. QED
    BY <1>13

\* In an arrangement, the i-th element comes after i - 1 others.
LEMMA PlaceIsCount ==
  ASSUME NEW S, IsFiniteSet(S), NEW R, StrictOrder(S, R),
         NEW s \in Arranged(S, R), NEW i \in 1 .. Cardinality(S)
  PROVE  s[i] \in S /\ Cardinality(Preceding(S, R, s[i])) = i - 1
  <1>1. PICK n \in Nat : n = Cardinality(S)
    BY FS_CardinalityType
  <1>2. /\ s \in [1 .. n -> S]
        /\ \A j, k \in 1 .. n : j < k => <<s[j], s[k]>> \in R
    BY <1>1 DEF Arranged
  <1>3. i \in 1 .. n
    BY <1>1
  <1>4. ASSUME NEW j \in 1 .. n, NEW k \in 1 .. n, s[j] = s[k]
        PROVE  j = k
    <2>1. ~ (j < k) /\ ~ (k < j)
      BY <1>2, <1>4 DEF StrictOrder
    <2>2. QED
      BY <2>1
  <1>5. s \in Injection(1 .. n, S)
    BY <1>2, <1>4, Fun_IsInj
  <1>6. Cardinality(1 .. n) = n
    BY FS_Interval
  <1>7. s \in Surjection(1 .. n, S)
    BY <1>1, <1>5, <1>6, FS_Injection
  <1>8. \A x \in S : \E j \in 1 .. n : s[j] = x
    BY <1>7, Fun_SurjectionProperties
  <1> DEFINE P == Preceding(S, R, s[i])
             m == i - 1
             t == [j \in 1 .. m |-> s[j]]
  <1>9. m \in Nat /\ \A j \in 1 .. m : j \in 1 .. n /\ j < i
    BY <1>3
  <1>10. s[i] \in S
    BY <1>2, <1>3
  <1>11. ASSUME NEW j \in 1 .. m
         PROVE  t[j] \in P
    BY <1>2, <1>3, <1>9 DEF Preceding
  <1>12. t \in [1 .. m -> P]
    BY <1>11
  <1>13. \A j, k \in 1 .. m : t[j] = t[k] => j = k
    BY <1>4, <1>9
  <1>14. ASSUME NEW x \in P
         PROVE  \E j \in 1 .. m : t[j] = x
    <2>1. x \in S /\ <<x, s[i]>> \in R
      BY DEF Preceding
    <2>2. PICK j \in 1 .. n : s[j] = x
      BY <1>8, <2>1
    <2>3. ~ (i < j)
      BY <1>2, <1>3, <1>10, <2>1, <2>2 DEF StrictOrder
    <2>4. j # i
      BY <1>10, <2>1, <2>2 DEF StrictOrder
    <2>5. j \in 1 .. m
      BY <1>3, <2>3, <2>4
    <2>6. QED
      BY <2>2, <2>5
  <1> HIDE DEF t, P
  <1>15. t \in Bijection(1 .. m, P)
    BY <1>12, <1>13, <1>14, Fun_IsBij
  <1>16. ExistsBijection(1 .. m, P)
    BY <1>15 DEF ExistsBijection
  <1>17. IsFiniteSet(1 .. m) /\ Cardinality(1 .. m) = m
    BY <1>9, FS_Interval
  <1>18. Cardinality(P) = m
    BY <1>16, <1>17, FS_Bijection
  <1>19. QED
    BY <1>10, <1>18 DEF P

-----------------------------------------------------------------------------
(* Least numbers                                                           *)

LEMMA LeastNumber ==
  ASSUME NEW T \in SUBSET Nat, T # {}
  PROVE  \E n \in T : \A m \in T : n <= m
  <1>1. \E n \in T : \A m \in T : <<m, n>> \notin OpToRel(<, Nat)
    BY NatLessThanWellFounded, WFMin
  <1>2. PICK n \in T : \A m \in T : <<m, n>> \notin OpToRel(<, Nat)
    BY <1>1
  <1>3. ASSUME NEW m \in T
        PROVE  n <= m
    <2>1. <<m, n>> \notin OpToRel(<, Nat)
      BY <1>2
    <2>2. m \in Nat /\ n \in Nat
      OBVIOUS
    <2>3. ~ (m < n)
      BY <2>1, <2>2 DEF OpToRel
    <2>4. QED
      BY <2>2, <2>3
  <1>4. QED
    BY <1>3
=============================================================================
