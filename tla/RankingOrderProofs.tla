------------------------- MODULE RankingOrderProofs -------------------------
(***************************************************************************)
(* Proofs about RankingOrder, for any set of students and marks.           *)
(***************************************************************************)
EXTENDS RankingOrder, OrderLemmas, FiniteSetTheorems, TLAPS

\* What the comparisons read of a row are numbers.
LEMMA RowFields ==
  ASSUME NEW a \in Row
  PROVE  /\ a.student \in Nat /\ a.total \in Nat /\ a.final \in Nat
         /\ a.midterm \in Nat /\ a.admitted \in Nat /\ a.created \in Nat
  <1>1. /\ a.student \in Students /\ a.total \in Nat /\ a.final \in Nat
        /\ a.midterm \in Nat /\ a.admitted \in Dates \cup {Never}
        /\ a.created \in Times
    BY DEF Row
  <1>2. Students \subseteq Nat /\ Dates \subseteq Nat /\ Times \subseteq Nat
        /\ Never \in Nat
    BY OrderAssumption
  <1>3. QED
    BY <1>1, <1>2

\* The view orders rows of different students strictly and totally.
LEMMA ViewBeforeIrreflexive ==
  ASSUME NEW a \in Row
  PROVE  ~ ViewBefore(a, a)
  BY RowFields DEF ViewBefore

LEMMA ViewBeforeTransitive ==
  ASSUME NEW a \in Row, NEW b \in Row, NEW c \in Row,
         ViewBefore(a, b), ViewBefore(b, c)
  PROVE  ViewBefore(a, c)
  BY RowFields DEF ViewBefore

LEMMA ViewBeforeTotal ==
  ASSUME NEW a \in Row, NEW b \in Row, a.student # b.student
  PROVE  ViewBefore(a, b) \/ ViewBefore(b, a)
  BY RowFields DEF ViewBefore

\* RANK() follows the order: a row that comes before has the smaller rank.
LEMMA RankLess ==
  ASSUME merit \in SUBSET Row, IsFiniteSet(merit),
         NEW r \in merit, NEW s \in merit, ViewBefore(r, s)
  PROVE  ViewRank(r) < ViewRank(s)
  <1> DEFINE Above(x) == {q \in merit : ViewBefore(q, x)}
  <1>1. Above(r) \subseteq Above(s)
    BY ViewBeforeTransitive
  <1>2. r \in Above(s) /\ r \notin Above(r)
    BY ViewBeforeIrreflexive
  <1>3. IsFiniteSet(Above(s)) /\ IsFiniteSet(Above(r))
    BY FS_Subset
  <1>4. Cardinality(Above(r)) \in Nat /\ Cardinality(Above(s)) \in Nat
    BY <1>3, FS_CardinalityType
  <1>5. Cardinality(Above(r)) < Cardinality(Above(s))
    <2>1. Cardinality(Above(r)) <= Cardinality(Above(s))
          /\ (Cardinality(Above(r)) = Cardinality(Above(s)) => Above(r) = Above(s))
      BY <1>1, <1>3, FS_Subset
    <2>2. Above(r) # Above(s)
      BY <1>2
    <2>3. QED
      BY <1>4, <2>1, <2>2
  <1>6. QED
    BY <1>4, <1>5 DEF ViewRank

LEMMA ViewRankType ==
  ASSUME merit \in SUBSET Row, IsFiniteSet(merit), NEW r \in merit
  PROVE  ViewRank(r) \in Nat
  <1>1. IsFiniteSet({q \in merit : ViewBefore(q, r)})
    BY FS_Subset
  <1>2. Cardinality({q \in merit : ViewBefore(q, r)}) \in Nat
    BY <1>1, FS_CardinalityType
  <1>3. QED
    BY <1>2 DEF ViewRank

LEMMA RowOfType ==
  ASSUME TypeOK, NEW s \in Students, NEW u \in Nat, NEW f \in Nat, NEW m \in Nat
  PROVE  RowOf(s, u, f, m) \in Row /\ RowOf(s, u, f, m).student = s
  <1>1. enrolled[s] \in Enrollment
    BY DEF TypeOK
  <1>2. QED
    BY <1>1 DEF RowOf, Row, Enrollment

\* The strengthening of the type invariant: RANK() counts rows, so the proof
\* needs that there are finitely many.
OrderInv == TypeOK /\ IsFiniteSet(merit)

\* Whoever the merged lists contain is a student, so rolled stays a set of them.
LEMMA GenerateKeeps ==
  ASSUME OrderInv, NEW listed \in SUBSET Students, Generate(listed)
  PROVE  OrderInv'
  <1>1. rolled' = rolled \cup listed
        /\ generations' = generations + 1
        /\ UNCHANGED <<enrolled, merit, admission>>
    BY DEF Generate
  <1>2. QED
    BY <1>1 DEF OrderInv, TypeOK

LEMMA ListedStudents ==
  ASSUME TypeOK
  PROVE  OnFifoList \subseteq Students /\ OnScoresList \subseteq Students
  <1>1. \A r \in Row : r.student \in Students
    BY DEF Row
  <1>2. QED
    BY <1>1 DEF TypeOK, OnFifoList, OnScoresList, FifoStudents

LEMMA PublishMeritKeeps ==
  ASSUME OrderInv, NEW s \in Students, NEW u \in Marks, NEW f \in Marks,
         NEW m \in Marks, PublishMerit(s, u, f, m)
  PROVE  OrderInv'
  <1> DEFINE row == RowOf(s, u, f, m)
  <1>1. row \in Row /\ row.student = s
    BY RowOfType, OrderAssumption DEF OrderInv
  <1>2. /\ \A r \in merit : r.student # s
        /\ merit' = merit \cup {row}
        /\ UNCHANGED <<enrolled, admission, rolled, generations>>
    BY DEF PublishMerit
  <1> HIDE DEF row
  <1>3. IsFiniteSet(merit')
    BY <1>2, FS_AddElement DEF OrderInv
  <1>4. TypeOK'
    BY <1>1, <1>2 DEF OrderInv, TypeOK
  <1>5. QED
    BY <1>3, <1>4 DEF OrderInv

LEMMA PublishAdmissionKeeps ==
  ASSUME OrderInv, NEW s \in Students, NEW marks \in Marks,
         PublishAdmission(s, marks)
  PROVE  OrderInv'
  <1> DEFINE row == RowOf(s, marks, 0, 0)
  <1>1. row \in Row /\ row.student = s
    BY RowOfType, OrderAssumption DEF OrderInv
  <1>2. /\ \A r \in admission : r.student # s
        /\ admission' = admission \cup {row}
        /\ UNCHANGED <<enrolled, merit, rolled, generations>>
    BY DEF PublishAdmission
  <1> HIDE DEF row
  <1>3. QED
    BY <1>1, <1>2 DEF OrderInv, TypeOK
\* The rows are typed, one per student and finitely many, after any publishes
\* and generations.
THEOREM OrderInvariant == Spec => []OrderInv
  <1>1. Init => OrderInv
    BY FS_EmptySet DEF Init, OrderInv, TypeOK
  <1>2. OrderInv /\ [Next]_vars => OrderInv'
    <2> SUFFICES ASSUME OrderInv, [Next]_vars
                 PROVE  OrderInv'
      OBVIOUS
    <2>1. ASSUME NEW s \in Students, NEW u \in Marks, NEW f \in Marks,
                 NEW m \in Marks, PublishMerit(s, u, f, m)
          PROVE  OrderInv'
      BY <2>1, PublishMeritKeeps
    <2>2. ASSUME NEW s \in Students, NEW marks \in Marks,
                 PublishAdmission(s, marks)
          PROVE  OrderInv'
      BY <2>2, PublishAdmissionKeeps
    <2>3. CASE Generate(OnFifoList)
      BY <2>3, GenerateKeeps, ListedStudents DEF OrderInv
    <2>4. CASE Generate(OnScoresList)
      BY <2>4, GenerateKeeps, ListedStudents DEF OrderInv
    <2>5. CASE UNCHANGED vars
      BY <2>5 DEF vars, OrderInv, TypeOK
    <2>6. QED
      BY <2>1, <2>2, <2>3, <2>4, <2>5 DEF Next
  <1>3. QED
    BY <1>1, <1>2, PTL DEF Spec

\* Different students never share a merit rank: the order is total on their
\* rows, and the row that comes before is counted below the other.
LEMMA DistinctRanks ==
  ASSUME OrderInv
  PROVE  ViewRanksDistinct
  <1> SUFFICES ASSUME NEW r \in merit, NEW s \in merit, r # s
               PROVE  ViewRank(r) # ViewRank(s)
    BY DEF ViewRanksDistinct
  <1>1. r.student # s.student
    BY DEF OrderInv, TypeOK
  <1>2. merit \in SUBSET Row /\ IsFiniteSet(merit)
    BY DEF OrderInv, TypeOK
  <1>3. ViewBefore(r, s) \/ ViewBefore(s, r)
    BY <1>1, <1>2, ViewBeforeTotal
  <1>4. ViewRank(r) \in Nat /\ ViewRank(s) \in Nat
    BY <1>2, ViewRankType
  <1>5. CASE ViewBefore(r, s)
    <2>1. ViewRank(r) < ViewRank(s)
      BY <1>2, <1>5, RankLess
    <2>2. QED
      BY <1>4, <2>1
  <1>6. CASE ViewBefore(s, r)
    <2>1. ViewRank(s) < ViewRank(r)
      BY <1>2, <1>6, RankLess
    <2>2. QED
      BY <1>4, <2>1
  <1>7. QED
    BY <1>3, <1>5, <1>6

\* RANK() of student_merit_list is a numbering: no two students share a rank.
THEOREM RanksAlwaysDistinct == Spec => []ViewRanksDistinct
  <1>1. OrderInv => ViewRanksDistinct
    BY DistinctRanks
  <1>2. QED
    BY <1>1, OrderInvariant, PTL

\* Division keeps the order, weakly.
LEMMA MillisMonotone ==
  ASSUME NEW t \in Nat, NEW u \in Nat, t < u
  PROVE  Millis(t) \in Nat /\ Millis(u) \in Nat /\ Millis(t) <= Millis(u)
  <1>1. Milli \in Nat /\ Milli > 0
    BY OrderAssumption
  <1>2. \A n \in Nat : n \div Milli \in Nat
        /\ Milli * (n \div Milli) <= n /\ n < Milli * (n \div Milli) + Milli
    BY <1>1
  <1>3. QED
    BY <1>1, <1>2 DEF Millis

\* A merged list ranks the old students in the order of the view: the only
\* difference between the two comparisons is the precision of created_at.
LEMMA MergeOrder ==
  ASSUME OrderInv
  PROVE  MergeKeepsMeritOrder
  <1> SUFFICES ASSUME DistinctMillis, NEW r \in merit, NEW s \in merit,
                      ViewBefore(r, s)
               PROVE  CompareBefore(r, s)
    BY DEF MergeKeepsMeritOrder
  <1>1. r \in Row /\ s \in Row
    BY DEF OrderInv, TypeOK
  <1>2. r.created \in Nat /\ s.created \in Nat
    BY <1>1, RowFields
  <1>3. r.created < s.created => Millis(r.created) < Millis(s.created)
    BY <1>2, MillisMonotone DEF DistinctMillis
  <1>4. r.created = s.created => Millis(r.created) = Millis(s.created)
    OBVIOUS
  <1>5. QED
    BY <1>3, <1>4 DEF ViewBefore, CompareBefore

\* Scenario 2 never reorders old students enrolled in different milliseconds.
THEOREM MergeAlwaysKeepsMeritOrder == Spec => []MergeKeepsMeritOrder
  <1>1. OrderInv => MergeKeepsMeritOrder
    BY MergeOrder
  <1>2. QED
    BY <1>1, OrderInvariant, PTL

\* A student has one row at most in the view and one among the admission scores.
THEOREM OneRowPerStudent == Spec => []TypeOK
  <1>1. OrderInv => TypeOK
    BY DEF OrderInv
  <1>2. QED
    BY <1>1, OrderInvariant, PTL

-----------------------------------------------------------------------------
(* The combined list of scenario 1                                         *)

MeritOrder == {x \in merit \X merit : ViewBefore(x[1], x[2])}

LEMMA MeritOrderStrict ==
  ASSUME OrderInv
  PROVE  StrictOrder(merit, MeritOrder)
  <1>1. merit \in SUBSET Row /\ \A r, s \in merit : r.student = s.student => r = s
    BY DEF OrderInv, TypeOK
  <1>2. \A a, b \in merit : <<a, b>> \in MeritOrder <=> ViewBefore(a, b)
    BY DEF MeritOrder
  <1>3. \A a \in merit : ~ ViewBefore(a, a)
    BY <1>1, ViewBeforeIrreflexive
  <1>4. \A a, b, c \in merit : ViewBefore(a, b) /\ ViewBefore(b, c) => ViewBefore(a, c)
    BY <1>1, ViewBeforeTransitive
  <1>5. \A a, b \in merit : a # b => ViewBefore(a, b) \/ ViewBefore(b, a)
    BY <1>1, ViewBeforeTotal
  <1>6. QED
    BY <1>2, <1>3, <1>4, <1>5 DEF StrictOrder

\* Rank i is in place i: RANK() counts the rows that come before.
LEMMA MeritRanks ==
  ASSUME OrderInv
  PROVE  /\ Cardinality(merit) \in Nat
         /\ \E s \in [1 .. Cardinality(merit) -> merit] :
              MeritList = [i \in 1 .. Cardinality(merit) |-> Ranked(s[i], i)]
  <1>1. PICK n \in Nat : n = Cardinality(merit)
    BY FS_CardinalityType DEF OrderInv
  <1> DEFINE s == SomeOrder(merit, ViewBefore)
  <1>2. s \in Arranged(merit, MeritOrder)
    <2>1. Arranged(merit, MeritOrder)
            = {t \in [1 .. n -> merit] :
                 \A i, j \in 1 .. n : i < j => ViewBefore(t[i], t[j])}
      BY <1>1 DEF Arranged, MeritOrder
    <2>2. Arranged(merit, MeritOrder) # {}
      BY ArrangedExists, MeritOrderStrict DEF OrderInv
    <2>3. \E t \in [1 .. n -> merit] :
            \A i, j \in 1 .. n : i < j => ViewBefore(t[i], t[j])
      BY <2>1, <2>2
    <2>4. s = CHOOSE t \in [1 .. n -> merit] :
                \A i, j \in 1 .. n : i < j => ViewBefore(t[i], t[j])
      BY <1>1 DEF SomeOrder
    <2> HIDE DEF s
    <2>5. s \in [1 .. n -> merit] /\ \A i, j \in 1 .. n : i < j => ViewBefore(s[i], s[j])
      BY <2>3, <2>4
    <2>6. QED
      BY <2>1, <2>5
  <1>3. MeritList = [i \in 1 .. Len(s) |-> Ranked(s[i], ViewRank(s[i]))]
    BY DEF MeritList
  <1> HIDE DEF s
  <1>4. s \in [1 .. n -> merit]
    BY <1>1, <1>2 DEF Arranged
  <1>5. s \in Seq(merit) /\ Len(s) = n
    BY <1>4
  <1>6. ASSUME NEW i \in 1 .. n
        PROVE  ViewRank(s[i]) = i
    <2>1. s[i] \in merit /\ Cardinality(Preceding(merit, MeritOrder, s[i])) = i - 1
      BY <1>1, <1>2, PlaceIsCount, MeritOrderStrict DEF OrderInv
    <2>2. Preceding(merit, MeritOrder, s[i]) = {q \in merit : ViewBefore(q, s[i])}
      BY <2>1 DEF Preceding, MeritOrder
    <2>3. QED
      BY <2>1, <2>2 DEF ViewRank
  <1>7. MeritList = [i \in 1 .. n |-> Ranked(s[i], i)]
    BY <1>3, <1>5, <1>6
  <1>8. QED
    BY <1>1, <1>4, <1>7

FifoOrder == {x \in FifoStudents \X FifoStudents : FifoBefore(x[1], x[2])}

LEMMA FifoOrderStrict ==
  ASSUME OrderInv
  PROVE  StrictOrder(FifoStudents, FifoOrder)
  <1>1. \A s \in FifoStudents :
          s \in Nat /\ enrolled[s].admitted \in Nat /\ enrolled[s].created \in Nat
    BY OrderAssumption DEF OrderInv, TypeOK, Enrollment, FifoStudents
  <1>2. \A s, t \in FifoStudents : <<s, t>> \in FifoOrder <=> FifoBefore(s, t)
    BY DEF FifoOrder
  <1>3. \A s \in FifoStudents : ~ FifoBefore(s, s)
    BY <1>1 DEF FifoBefore
  <1>4. \A s, t, u \in FifoStudents :
          FifoBefore(s, t) /\ FifoBefore(t, u) => FifoBefore(s, u)
    BY <1>1 DEF FifoBefore
  <1>5. \A s, t \in FifoStudents : s # t => FifoBefore(s, t) \/ FifoBefore(t, s)
    BY <1>1 DEF FifoBefore
  <1>6. QED
    BY <1>2, <1>3, <1>4, <1>5 DEF StrictOrder

\* FIFO numbers the new students from startRank on.
LEMMA FifoRanks ==
  ASSUME OrderInv, NEW startRank \in Nat
  PROVE  /\ Cardinality(FifoStudents) \in Nat
         /\ \E s \in [1 .. Cardinality(FifoStudents) -> FifoStudents] :
              FifoList(startRank) =
                [i \in 1 .. Cardinality(FifoStudents) |->
                   [student |-> s[i], rank |-> startRank + i - 1]]
  <1>1. IsFiniteSet(FifoStudents)
    BY OrderAssumption, FS_Subset DEF FifoStudents
  <1>2. PICK n \in Nat : n = Cardinality(FifoStudents)
    BY <1>1, FS_CardinalityType
  <1> DEFINE s == SomeOrder(FifoStudents, FifoBefore)
  <1>3. s \in [1 .. n -> FifoStudents]
    <2>1. Arranged(FifoStudents, FifoOrder)
            = {t \in [1 .. n -> FifoStudents] :
                 \A i, j \in 1 .. n : i < j => FifoBefore(t[i], t[j])}
      BY <1>2 DEF Arranged, FifoOrder
    <2>2. Arranged(FifoStudents, FifoOrder) # {}
      BY <1>1, ArrangedExists, FifoOrderStrict
    <2>3. \E t \in [1 .. n -> FifoStudents] :
            \A i, j \in 1 .. n : i < j => FifoBefore(t[i], t[j])
      BY <2>1, <2>2
    <2>4. s = CHOOSE t \in [1 .. n -> FifoStudents] :
                \A i, j \in 1 .. n : i < j => FifoBefore(t[i], t[j])
      BY <1>2 DEF SomeOrder
    <2> HIDE DEF s
    <2>5. QED
      BY <2>3, <2>4
  <1>4. FifoList(startRank)
          = [i \in 1 .. Len(s) |-> [student |-> s[i], rank |-> startRank + i - 1]]
    BY DEF FifoList
  <1> HIDE DEF s
  <1>5. Len(s) = n
    BY <1>3
  <1>6. QED
    BY <1>2, <1>3, <1>4, <1>5

LEMMA ListContiguous ==
  ASSUME OrderInv
  PROVE  RanksContiguous
  <1>1. PICK n \in Nat : n = Cardinality(merit)
    BY MeritRanks
  <1>2. PICK m \in Nat : m = Cardinality(FifoStudents)
    BY FifoRanks
  <1>3. PICK s \in [1 .. n -> merit] : MeritList = [i \in 1 .. n |-> Ranked(s[i], i)]
    BY <1>1, MeritRanks
  <1>4. n + 1 \in Nat
    OBVIOUS
  <1>5. PICK t \in [1 .. m -> FifoStudents] :
          FifoList(n + 1) =
            [i \in 1 .. m |-> [student |-> t[i], rank |-> n + 1 + i - 1]]
    BY <1>2, <1>4, FifoRanks
  <1> DEFINE E == [student: UNION {{r.student : r \in merit}, Students}, rank: Nat]
  <1>6. MeritList \in Seq(E) /\ Len(MeritList) = n
        /\ \A i \in 1 .. n : MeritList[i].rank = i
    <2>1. \A i \in 1 .. n : Ranked(s[i], i) \in E /\ Ranked(s[i], i).rank = i
      BY <1>3 DEF Ranked
    <2> HIDE DEF E
    <2>2. QED
      BY <1>3, <2>1
  <1>7. FifoList(n + 1) \in Seq(E) /\ Len(FifoList(n + 1)) = m
        /\ \A i \in 1 .. m : FifoList(n + 1)[i].rank = n + i
    <2>1. \A i \in 1 .. m : [student |-> t[i], rank |-> n + 1 + i - 1] \in E
      BY <1>5 DEF FifoStudents
    <2> HIDE DEF E
    <2>2. QED
      BY <1>5, <2>1
  <1> HIDE DEF E
  <1>8. CombinedFifo = MeritList \o FifoList(n + 1)
    BY <1>1 DEF CombinedFifo
  <1>9. ASSUME NEW i \in 1 .. Len(CombinedFifo)
        PROVE  CombinedFifo[i].rank = i
    <2>1. Len(CombinedFifo) = n + m
      BY <1>6, <1>7, <1>8
    <2>2. CASE i <= n
      BY <1>6, <1>7, <1>8, <2>1, <2>2
    <2>3. CASE i > n
      <3>1. i - n \in 1 .. m /\ n + (i - n) = i
        BY <2>1, <2>3
      <3>2. CombinedFifo[i] = FifoList(n + 1)[i - n]
        BY <1>6, <1>7, <1>8, <2>1, <2>3
      <3>3. QED
        BY <1>7, <3>1, <3>2
    <2>4. QED
      BY <2>1, <2>2, <2>3
  <1>10. QED
    BY <1>9 DEF RanksContiguous

\* Whoever has marks and whoever has none, the list handed to the roll engine is
\* ranked 1, 2, 3, ... without a gap or a repetition (ranking.engine.ts:199).
THEOREM RanksAlwaysContiguous == Spec => []RanksContiguous
  <1>1. OrderInv => RanksContiguous
    BY ListContiguous
  <1>2. QED
    BY <1>1, OrderInvariant, PTL
=============================================================================
