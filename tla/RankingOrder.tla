---------------------------- MODULE RankingOrder ----------------------------
(***************************************************************************)
(* Who gets which rank: the SQL view student_merit_list, the comparator    *)
(* that ranks the merged list again in JavaScript, and the FIFO list of    *)
(* core/ranking.engine, for one class and session.  The two orderings are  *)
(* written in two languages over two representations of the same columns:  *)
(* PostgreSQL keeps created_at in microseconds, a JavaScript Date in       *)
(* milliseconds.                                                           *)
(***************************************************************************)
EXTENDS Naturals, Sequences, FiniteSets

CONSTANTS
  Students,   \* students.id, as the numbers that order them
  Marks,      \* total marks of one student in one exam
  Dates,      \* values of admission_date
  Never,      \* a NULL admission_date: sorted last by SQL, Infinity in JavaScript
  Times,      \* values of created_at, in microseconds
  Milli,      \* microseconds in a millisecond
  MaxRows,    \* bound: exam totals published
  MaxGenerations  \* bound: generations

ASSUME OrderAssumption ==
  /\ Students \subseteq Nat
  /\ IsFiniteSet(Students)
  /\ Marks \subseteq Nat
  /\ Dates \subseteq Nat
  /\ Times \subseteq Nat
  /\ Never \in Nat
  /\ \A d \in Dates : d < Never
  /\ Milli \in Nat \ {0}

VARIABLES
  enrolled,   \* admission_date and created_at of the enrollment of each student
  merit,      \* rows of student_merit_list
  admission,  \* rows of calculateNewStudentAdmissionScores
  rolled,     \* students whose enrollment has a roll_number
  generations \* counts what MaxGenerations bounds

vars == <<enrolled, merit, admission, rolled, generations>>

Enrollment == [admitted: Dates \cup {Never}, created: Times]
Row == [student: Students, total: Nat, final: Nat, midterm: Nat,
        admitted: Dates \cup {Never}, created: Times]

-----------------------------------------------------------------------------
(* The two orderings                                                       *)

\* Mutated ViewBefore: the deterministic last step is missing.
ViewBeforeNoId(a, b) ==
  \/ a.total > b.total
  \/ a.total = b.total /\ a.final > b.final
  \/ a.total = b.total /\ a.final = b.final /\ a.midterm > b.midterm
  \/ /\ a.total = b.total /\ a.final = b.final /\ a.midterm = b.midterm
     /\ \/ a.admitted < b.admitted
        \/ a.admitted = b.admitted /\ a.created < b.created

\* ORDER BY of the window function in student_merit_list.
ViewBefore(a, b) ==
  \/ a.total > b.total
  \/ a.total = b.total /\ a.final > b.final
  \/ a.total = b.total /\ a.final = b.final /\ a.midterm > b.midterm
  \/ /\ a.total = b.total /\ a.final = b.final /\ a.midterm = b.midterm
     /\ \/ a.admitted < b.admitted
        \/ a.admitted = b.admitted /\ a.created < b.created
        \/ a.admitted = b.admitted /\ a.created = b.created /\ a.student < b.student

\* RANK() OVER that order.
ViewRank(r) == 1 + Cardinality({q \in merit : ViewBefore(q, r)})

Millis(t) == t \div Milli

\* Mutated CompareBefore: midterm marks do not count.
CompareBeforeNoMidterm(a, b) ==
  \/ a.total > b.total
  \/ a.total = b.total /\ a.final > b.final
  \/ /\ a.total = b.total /\ a.final = b.final
     /\ \/ a.admitted < b.admitted
        \/ a.admitted = b.admitted /\ Millis(a.created) < Millis(b.created)
        \/ /\ a.admitted = b.admitted /\ Millis(a.created) = Millis(b.created)
           /\ a.student < b.student

\* The comparator of _sortAndRank returns a negative number.
CompareBefore(a, b) ==
  \/ a.total > b.total
  \/ a.total = b.total /\ a.final > b.final
  \/ a.total = b.total /\ a.final = b.final /\ a.midterm > b.midterm
  \/ /\ a.total = b.total /\ a.final = b.final /\ a.midterm = b.midterm
     /\ \/ a.admitted < b.admitted
        \/ a.admitted = b.admitted /\ Millis(a.created) < Millis(b.created)
        \/ /\ a.admitted = b.admitted /\ Millis(a.created) = Millis(b.created)
           /\ a.student < b.student

-----------------------------------------------------------------------------
(* The ranked lists                                                        *)

\* A row, with the rank_position it got.
Ranked(r, n) == [student |-> r.student, rank |-> n]

\* S in the order Before, which is strict and total wherever it is used.
SomeOrder(S, Before(_, _)) ==
  CHOOSE s \in [1 .. Cardinality(S) -> S] :
    \A i, j \in 1 .. Cardinality(S) : i < j => Before(s[i], s[j])

\* calculateOldStudentMeritList: ORDER BY rank_position.
MeritList ==
  LET s == SomeOrder(merit, ViewBefore)
  IN  [i \in 1 .. Len(s) |-> Ranked(s[i], ViewRank(s[i]))]

\* Enrolled students with no roll yet, by admission_date, then created_at; SQL
\* leaves the order of two equal rows open, the model takes the lower id first.
FifoStudents == {s \in Students : s \notin rolled}

FifoBefore(s, t) ==
  LET a == enrolled[s]
      b == enrolled[t]
  IN  \/ a.admitted < b.admitted
      \/ a.admitted = b.admitted /\ a.created < b.created
      \/ a.admitted = b.admitted /\ a.created = b.created /\ s < t

FifoList(startRank) ==
  LET s == SomeOrder(FifoStudents, FifoBefore)
  IN  [i \in 1 .. Len(s) |-> [student |-> s[i], rank |-> startRank + i - 1]]

\* Mutated CombinedFifo: the first FIFO student shares the last merit rank.
CombinedFifoOffByOne == MeritList \o FifoList(Cardinality(merit))

\* Scenario 1 of buildCombinedRanking: the merit list, then FIFO.
CombinedFifo == MeritList \o FifoList(Cardinality(merit) + 1)

\* Scenario 2: the old and the new students' rows, sorted again; the sort is
\* stable, so an old row stays before a new one it equals.
CombinedScores ==
  LET both == {<<r, 1>> : r \in merit} \cup {<<r, 2>> : r \in admission}
      Sorted(x, y) == \/ CompareBefore(x[1], y[1])
                      \/ ~ CompareBefore(y[1], x[1]) /\ x[2] < y[2]
      s == SomeOrder(both, Sorted)
  IN  [i \in 1 .. Len(s) |-> Ranked(s[i][1], i)]

-----------------------------------------------------------------------------
(* What the lists are computed from                                        *)

Init ==
  /\ enrolled \in [Students -> Enrollment]
  /\ merit = {}
  /\ admission = {}
  /\ rolled = {}
  /\ generations = 0

RowOf(s, unit, final, midterm) ==
  [student |-> s, total |-> unit + final + midterm, final |-> final,
   midterm |-> midterm, admitted |-> enrolled[s].admitted,
   created |-> enrolled[s].created]

\* Mutated PublishMerit: the view groups by exam, a row each.
PublishMeritPerExam(s, unit, final, midterm) ==
  /\ Cardinality(merit) + Cardinality(admission) < MaxRows
  /\ merit' = merit \cup {RowOf(s, unit, final, midterm)}
  /\ UNCHANGED <<enrolled, admission, rolled, generations>>

\* The UNIT_TEST, FINAL and MIDTERM marks of s are published: one row for all.
PublishMerit(s, unit, final, midterm) ==
  /\ Cardinality(merit) + Cardinality(admission) < MaxRows
  /\ \A r \in merit : r.student # s
  /\ merit' = merit \cup {RowOf(s, unit, final, midterm)}
  /\ UNCHANGED <<enrolled, admission, rolled, generations>>

\* The ADMISSION marks of s are published: they count as total only.
PublishAdmission(s, marks) ==
  /\ Cardinality(merit) + Cardinality(admission) < MaxRows
  /\ \A r \in admission : r.student # s
  /\ admission' = admission \cup {RowOf(s, marks, 0, 0)}
  /\ UNCHANGED <<enrolled, merit, rolled, generations>>

\* The students on a combined list: of scenario 1, of scenario 2.
OnFifoList   == {r.student : r \in merit} \cup FifoStudents
OnScoresList == {r.student : r \in merit \cup admission}

\* A generation gives every student of the list a roll number.
Generate(listed) ==
  /\ generations < MaxGenerations
  /\ generations' = generations + 1
  /\ rolled' = rolled \cup listed
  /\ UNCHANGED <<enrolled, merit, admission>>

Next ==
  \/ \E s \in Students, unit, final, midterm \in Marks :
       PublishMerit(s, unit, final, midterm)
  \/ \E s \in Students, marks \in Marks : PublishAdmission(s, marks)
  \/ merit # {} /\ Generate(OnFifoList)
  \/ merit \cup admission # {} /\ Generate(OnScoresList)

Spec == Init /\ [][Next]_vars

-----------------------------------------------------------------------------
(* Properties                                                              *)

\* Type invariant: rows of both groups carry the columns of their student's
\* enrollment, and a student has one row at most in each.
TypeOK ==
  /\ enrolled \in [Students -> Enrollment]
  /\ merit \in SUBSET Row
  /\ admission \in SUBSET Row
  /\ rolled \in SUBSET Students
  /\ generations \in Nat
  /\ \A r, s \in merit : r.student = s.student => r = s
  /\ \A r, s \in admission : r.student = s.student => r = s

\* RANK() never gives two students the same rank, so merit ranks have no gaps
\* (student_merit_list.sql:52, "deterministic").
ViewRanksDistinct ==
  \A r, s \in merit : ViewRank(r) = ViewRank(s) => r = s

\* RANK() of the view and the FIFO numbering of the engine together number the
\* list of scenario 1 as 1, 2, 3, ... (ranking.engine.ts:199).
RanksContiguous ==
  \A i \in 1 .. Len(CombinedFifo) : CombinedFifo[i].rank = i

DistinctMillis ==
  \A r, s \in merit :
    Millis(r.created) = Millis(s.created) => r.created = s.created

\* Sorting the merged list again does not reorder the old students, unless two
\* were enrolled within a millisecond (ranking.engine.ts:107-108).
MergeKeepsMeritOrder ==
  DistinctMillis =>
    \A r, s \in merit : ViewBefore(r, s) => CompareBefore(r, s)

\* ranking.engine.ts:107: "the document's 5-step tie-breaking rule is re-applied
\* here": the same order as in the view, for all rows.
SortAgreesWithView ==
  \A r, s \in merit : ViewBefore(r, s) <=> CompareBefore(r, s)

\* ranking.engine.ts:47-48: OLD students get their merit list rank, NEW students
\* FIFO ranks after it: nobody is in both parts of the list.
FifoOnlyNewStudents == \A r \in merit : r.student \notin FifoStudents

\* ranking.engine.ts:51 and 71: the admission scores are those of NEW students,
\* so a merged list names a student once.
ListedOnce ==
  \A i, j \in 1 .. Len(CombinedScores) :
    CombinedScores[i].student = CombinedScores[j].student => i = j
=============================================================================
