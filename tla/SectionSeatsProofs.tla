------------------------- MODULE SectionSeatsProofs -------------------------
(***************************************************************************)
(* How far concurrent enrollments can exceed a capacity, and where a roll  *)
(* job puts the students of its list, for any number of students, sections *)
(* and requests, any capacities and any list.                              *)
(***************************************************************************)
EXTENDS SectionSeats, OrderLemmas, FiniteSetTheorems, TLAPS

\* The requests that have checked section x and will write it.
Pending(x) == {r \in Requests : task[r].op # "idle" /\ task[r].section = x}
Arriving(x) == {task[r].student : r \in Pending(x)}

\* The students in x, and those a request is about to put there.
Occupants(x) == Members(x) \cup Arriving(x)

EnrollTask == CreateTask \cup MoveTask

EnrollType ==
  /\ enrollment \in [Students -> Enrollment]
  /\ section \in [Sections -> Section]
  /\ task \in [Requests -> EnrollTask \cup {Idle}]

\* Enrolled(x) alone is not inductive: an insert raises it without looking.
\* Counting the students who are about to arrive is, because the check that lets
\* one in has counted everybody but the arrivals of the other requests.
OccupantsBounded ==
  \A x \in Sections :
    Cardinality(Occupants(x)) <= section[x].cap + Cardinality(Requests) - 1

SeatsInv == EnrollType /\ OccupantsBounded

LEMMA Numbers ==
  ASSUME EnrollType
  PROVE  /\ Cardinality(Requests) \in Nat
         /\ \A x \in Sections : section[x].cap \in Nat /\ section[x].cap >= 1
  <1>1. Cardinality(Requests) \in Nat
    BY SeatsAssumption, FS_CardinalityType
  <1>2. ASSUME NEW x \in Sections
        PROVE  section[x].cap \in Nat /\ section[x].cap >= 1
    <2>1. section[x] \in Section
      BY DEF EnrollType
    <2>2. section[x].cap \in Capacities \cup {Unlimited}
      BY <2>1 DEF Section
    <2>3. Cardinality(Students) \in Nat
      BY SeatsAssumption, FS_CardinalityType
    <2>4. Unlimited \in Nat /\ Unlimited >= 1
      BY <2>3, SeatsAssumption
    <2>5. \A c \in Capacities : c \in Nat /\ c >= 1
      BY SeatsAssumption
    <2>6. QED
      BY <2>2, <2>4, <2>5
  <1>3. QED
    BY <1>1, <1>2

LEMMA PendingTask ==
  ASSUME EnrollType, NEW x, NEW r \in Pending(x)
  PROVE  task[r] \in EnrollTask /\ task[r].student \in Students
         /\ task[r].section = x
  <1>1. task[r] \in EnrollTask \cup {Idle} /\ task[r].op # "idle"
        /\ task[r].section = x
    BY DEF Pending, EnrollType
  <1>2. task[r] \in EnrollTask
    BY <1>1 DEF Idle
  <1>3. QED
    BY <1>1, <1>2 DEF EnrollTask, CreateTask, MoveTask

\* Everything counted is a set of students or requests, so it is finite.
LEMMA OccupantsFinite ==
  ASSUME EnrollType, NEW x
  PROVE  /\ IsFiniteSet(Occupants(x)) /\ IsFiniteSet(Members(x))
         /\ Cardinality(Occupants(x)) \in Nat /\ Cardinality(Members(x)) \in Nat
         /\ Cardinality(Members(x)) <= Cardinality(Occupants(x))
  <1>1. Members(x) \subseteq Students
    BY DEF Members
  <1>2. Occupants(x) \subseteq Students
    BY <1>1, PendingTask DEF Occupants, Arriving
  <1>3. IsFiniteSet(Occupants(x)) /\ IsFiniteSet(Members(x))
    BY <1>1, <1>2, SeatsAssumption, FS_Subset
  <1>4. Members(x) \subseteq Occupants(x)
    BY DEF Occupants
  <1>5. QED
    BY <1>3, <1>4, FS_CardinalityType, FS_Subset

\* The arrivals of all requests but one.
LEMMA ArrivalsOfOthers ==
  ASSUME EnrollType, NEW r \in Requests, NEW R \in SUBSET (Requests \ {r})
  PROVE  /\ IsFiniteSet({task[q].student : q \in R})
         /\ Cardinality({task[q].student : q \in R}) <= Cardinality(Requests) - 1
  <1> DEFINE S == {task[q].student : q \in R}
             f == [q \in R |-> task[q].student]
  <1>1. IsFiniteSet(Requests \ {r})
        /\ Cardinality(Requests \ {r}) = Cardinality(Requests) - 1
    BY SeatsAssumption, FS_RemoveElement
  <1>2. IsFiniteSet(R) /\ Cardinality(R) <= Cardinality(Requests \ {r})
    BY <1>1, FS_Subset
  <1>3. f \in Surjection(R, S)
    BY DEF Surjection
  <1> HIDE DEF f, S
  <1>4. IsFiniteSet(S) /\ Cardinality(S) <= Cardinality(R)
    BY <1>2, <1>3, FS_Surjection
  <1>5. Cardinality(R) \in Nat /\ Cardinality(S) \in Nat /\ Cardinality(Requests) \in Nat
    BY <1>2, <1>4, SeatsAssumption, FS_CardinalityType
  <1>6. IsFiniteSet(S) /\ Cardinality(S) <= Cardinality(Requests) - 1
    BY <1>1, <1>2, <1>4, <1>5
  <1>7. QED
    BY <1>6 DEF S

\* A step that adds no occupant to any section, and leaves the capacities alone.
LEMMA NoNewOccupants ==
  ASSUME SeatsInv, EnrollType', section' = section,
         \A x \in Sections : Occupants(x)' \subseteq Occupants(x)
  PROVE  SeatsInv'
  <1>1. ASSUME NEW x \in Sections
        PROVE  Cardinality(Occupants(x)')
                 <= section[x].cap + Cardinality(Requests) - 1
    <2>1. IsFiniteSet(Occupants(x)) /\ Cardinality(Occupants(x)) \in Nat
      BY OccupantsFinite DEF SeatsInv
    <2>2. IsFiniteSet(Occupants(x)')
          /\ Cardinality(Occupants(x)') <= Cardinality(Occupants(x))
      BY <2>1, FS_Subset
    <2>3. Cardinality(Occupants(x)') \in Nat
      BY <2>2, FS_CardinalityType
    <2>4. Cardinality(Occupants(x)) <= section[x].cap + Cardinality(Requests) - 1
      BY DEF SeatsInv, OccupantsBounded
    <2>5. section[x].cap \in Nat /\ Cardinality(Requests) \in Nat
      BY Numbers DEF SeatsInv
    <2>6. QED
      BY <2>1, <2>2, <2>3, <2>4, <2>5
  <1>2. QED
    BY <1>1 DEF SeatsInv, OccupantsBounded

\* The members of a section with a seat, the student just let in, and the
\* arrivals of the other requests, of which there is one less than requests.
LEMMA OneMoreFits ==
  ASSUME EnrollType, NEW x \in Sections, ~ Full(x), NEW s \in Students,
         NEW r \in Requests, r \notin Pending(x)
  PROVE  Cardinality(Occupants(x) \cup {s})
           <= section[x].cap + Cardinality(Requests) - 1
  <1> DEFINE M == Members(x) \cup {s}
  <1>1. /\ IsFiniteSet(Members(x)) /\ Cardinality(Members(x)) \in Nat
        /\ IsFiniteSet(Occupants(x))
    BY OccupantsFinite
  <1>2. section[x].cap \in Nat /\ Cardinality(Requests) \in Nat
    BY Numbers
  <1>3. CASE section[x].cap = Unlimited
    <2>1. Occupants(x) \cup {s} \subseteq Students
      BY PendingTask DEF Occupants, Members, Arriving
    <2>2. IsFiniteSet(Occupants(x) \cup {s})
          /\ Cardinality(Occupants(x) \cup {s}) <= Cardinality(Students)
      BY <2>1, SeatsAssumption, FS_Subset
    <2>3. Cardinality(Occupants(x) \cup {s}) \in Nat /\ Cardinality(Students) \in Nat
      BY <2>2, SeatsAssumption, FS_CardinalityType
    <2>4. Cardinality(Requests) # 0
      BY SeatsAssumption, FS_EmptySet
    <2>5. Cardinality(Students) < Unlimited /\ Unlimited \in Nat
      BY SeatsAssumption
    <2>6. QED
      BY <1>2, <1>3, <2>2, <2>3, <2>4, <2>5
  <1>4. CASE section[x].cap # Unlimited
    <2>1. Cardinality(Members(x)) < section[x].cap
      BY <1>1, <1>2, <1>4 DEF Full, Enrolled
    <2>2. IsFiniteSet(M) /\ Cardinality(M) <= Cardinality(Members(x)) + 1
      <3>1. /\ IsFiniteSet(M)
            /\ Cardinality(M) = IF s \in Members(x) THEN Cardinality(Members(x))
                                ELSE Cardinality(Members(x)) + 1
        BY <1>1, FS_AddElement
      <3> HIDE DEF M
      <3>2. QED
        BY <1>1, <3>1
    <2>3. IsFiniteSet(Arriving(x))
          /\ Cardinality(Arriving(x)) <= Cardinality(Requests) - 1
      <3>1. Pending(x) \in SUBSET (Requests \ {r})
        BY DEF Pending
      <3>2. QED
        BY <3>1, ArrivalsOfOthers DEF Arriving
    <2>4. Cardinality(M \cup Arriving(x))
            = Cardinality(M) + Cardinality(Arriving(x)) - Cardinality(M \cap Arriving(x))
          /\ IsFiniteSet(M \cup Arriving(x))
      BY <2>2, <2>3, FS_Union
    <2>5. /\ Cardinality(M) \in Nat /\ Cardinality(Arriving(x)) \in Nat
          /\ Cardinality(M \cap Arriving(x)) \in Nat
      <3>1. IsFiniteSet(M \cap Arriving(x))
        BY <2>2, FS_Subset
      <3>2. QED
        BY <2>2, <2>3, <3>1, FS_CardinalityType
    <2>6. Occupants(x) \cup {s} = M \cup Arriving(x)
      BY DEF Occupants
    <2>7. Cardinality(M \cup Arriving(x)) <= section[x].cap + Cardinality(Requests) - 1
      <3> HIDE DEF M
      <3>1. QED
        BY <1>1, <1>2, <2>1, <2>2, <2>3, <2>4, <2>5
    <2>8. QED
      BY <2>6, <2>7
  <1>5. QED
    BY <1>3, <1>4

\* A check that passes: the request now arrives, in a section that has a seat or
\* where its student is already.
LEMMA CheckKeeps ==
  ASSUME SeatsInv, NEW r \in Requests, task[r] = Idle, NEW t \in EnrollTask,
         task' = [task EXCEPT ![r] = t], UNCHANGED <<enrollment, section>>,
         \A x \in Sections : t.section = x => t.student \in Members(x) \/ ~ Full(x)
  PROVE  SeatsInv'
  <1>1. EnrollType /\ EnrollType'
    BY DEF SeatsInv, EnrollType
  <1>2. t.op # "idle" /\ t.student \in Students
    BY DEF EnrollTask, CreateTask, MoveTask
  <1>3. task \in [Requests -> EnrollTask \cup {Idle}]
    BY <1>1 DEF EnrollType
  <1>4. ASSUME NEW x \in Sections
        PROVE  Cardinality(Occupants(x)')
                 <= section[x].cap + Cardinality(Requests) - 1
    <2>1. r \notin Pending(x)
      BY DEF Pending, Idle
    <2>2. Members(x)' = Members(x)
      BY DEF Members, Live
    <2>3. \A q \in Pending(x)' : q = r \/ (q \in Pending(x) /\ task'[q] = task[q])
      BY <1>3 DEF Pending
    <2>4. \A q \in Pending(x) : q \in Pending(x)' /\ task'[q] = task[q]
      BY <1>3, <2>1 DEF Pending
    <2>5. Cardinality(Occupants(x)) <= section[x].cap + Cardinality(Requests) - 1
      BY DEF SeatsInv, OccupantsBounded
    <2>6. CASE t.section = x
      <3>1. r \in Pending(x)' /\ task'[r] = t
        BY <1>2, <1>3, <2>6 DEF Pending
      <3>2. Arriving(x)' = Arriving(x) \cup {t.student}
        BY <2>3, <2>4, <3>1 DEF Arriving
      <3>3. Occupants(x)' = Occupants(x) \cup {t.student}
        BY <2>2, <3>2 DEF Occupants
      <3>4. CASE t.student \in Members(x)
        <4>1. Occupants(x)' = Occupants(x)
          BY <3>3, <3>4 DEF Occupants
        <4>2. QED
          BY <2>5, <4>1
      <3>5. CASE ~ Full(x)
        BY <1>1, <1>2, <2>1, <3>3, <3>5, OneMoreFits
      <3>6. QED
        BY <2>6, <3>4, <3>5
    <2>7. CASE t.section # x
      <3>1. r \notin Pending(x)'
        BY <1>3, <2>7 DEF Pending
      <3>2. Arriving(x)' = Arriving(x)
        BY <2>3, <2>4, <3>1 DEF Arriving
      <3>3. Occupants(x)' = Occupants(x)
        BY <2>2, <3>2 DEF Occupants
      <3>4. QED
        BY <2>5, <3>3
    <2>8. QED
      BY <2>6, <2>7
  <1>5. QED
    BY <1>1, <1>4 DEF SeatsInv, OccupantsBounded

\* A write: its student was counted as arriving, everybody else stays or leaves.
LEMMA WriteKeeps ==
  ASSUME SeatsInv, NEW r \in Requests, task[r] \in EnrollTask,
         task' = [task EXCEPT ![r] = Idle], section' = section, EnrollType',
         \A x \in Sections : \A s \in Members(x)' :
           s \in Members(x) \/ (s = task[r].student /\ task[r].section = x)
  PROVE  SeatsInv'
  <1>1. task \in [Requests -> EnrollTask \cup {Idle}]
    BY DEF SeatsInv, EnrollType
  <1>2. ASSUME NEW x \in Sections
        PROVE  Occupants(x)' \subseteq Occupants(x)
    <2>1. \A q \in Pending(x)' : q \in Pending(x) /\ task'[q] = task[q]
      BY <1>1 DEF Pending, Idle
    <2>2. Arriving(x)' \subseteq Arriving(x)
      BY <2>1 DEF Arriving
    <2>3. task[r].section = x => task[r].student \in Arriving(x)
      BY DEF Arriving, Pending, EnrollTask, CreateTask, MoveTask
    <2>4. Members(x)' \subseteq Occupants(x)
      BY <2>3 DEF Occupants
    <2>5. QED
      BY <2>2, <2>4 DEF Occupants
  <1>3. QED
    BY <1>2, NoNewOccupants

\* The inductive invariant holds of every state of EnrollingSpec.
THEOREM SeatsInvariant == EnrollingSpec => []SeatsInv
  <1>1. Init => SeatsInv
    <2> SUFFICES ASSUME Init
                 PROVE  SeatsInv
      OBVIOUS
    <2>1. EnrollType
      <3>1. NotEnrolled \in Enrollment
        BY DEF NotEnrolled, Enrollment
      <3>2. QED
        BY <3>1 DEF Init, EnrollType
    <2>2. ASSUME NEW x \in Sections
          PROVE  Cardinality(Occupants(x)) <= section[x].cap + Cardinality(Requests) - 1
      <3>1. Members(x) = {}
        BY DEF Init, Members, Live, NotEnrolled
      <3>2. Arriving(x) = {}
        BY DEF Init, Arriving, Pending, Idle
      <3>3. Cardinality(Occupants(x)) = 0
        BY <3>1, <3>2, FS_EmptySet DEF Occupants
      <3>4. QED
        BY <2>1, <3>3, Numbers
    <2>3. QED
      BY <2>1, <2>2 DEF SeatsInv, OccupantsBounded
  <1>2. SeatsInv /\ [Enrolling]_vars => SeatsInv'
    <2> SUFFICES ASSUME SeatsInv, [Enrolling]_vars
                 PROVE  SeatsInv'
      OBVIOUS
    <2>0. task \in [Requests -> EnrollTask \cup {Idle}]
          /\ enrollment \in [Students -> Enrollment]
          /\ section \in [Sections -> Section]
      BY DEF SeatsInv, EnrollType
    <2>1. ASSUME NEW r \in Requests, NEW s \in Students, NEW c \in Classes,
                 NEW x \in Sections \cup {NoSection}, CreateCheck(r, s, c, x)
          PROVE  SeatsInv'
      <3> DEFINE t == [op |-> "create", student |-> s, class |-> c, section |-> x]
      <3>1. t \in EnrollTask /\ t.section = x /\ t.student = s
        BY DEF EnrollTask, CreateTask, MoveTask
      <3>2. task[r] = Idle /\ task' = [task EXCEPT ![r] = t]
            /\ UNCHANGED <<enrollment, section>>
        BY <2>1 DEF CreateCheck, Begin
      <3>3. x \in Sections => ~ Full(x)
        BY <2>1, SeatsAssumption DEF CreateCheck
      <3> HIDE DEF t
      <3>4. QED
        BY <3>1, <3>2, <3>3, CheckKeeps
    <2>2. ASSUME NEW r \in Requests, NEW s \in Students, NEW c \in Classes \cup {Keep},
                 NEW x \in Sections \cup {NoSection, Keep}, MoveCheck(r, s, c, x)
          PROVE  SeatsInv'
      <3> DEFINE t == [op |-> "move", student |-> s, class |-> c, section |-> x]
      <3>1. t \in EnrollTask /\ t.section = x /\ t.student = s
        BY DEF EnrollTask, CreateTask, MoveTask
      <3>2. task[r] = Idle /\ task' = [task EXCEPT ![r] = t]
            /\ UNCHANGED <<enrollment, section>>
        BY <2>2 DEF MoveCheck, Begin
      <3>3. x \in Sections => s \in Members(x) \/ ~ Full(x)
        BY <2>2 DEF MoveCheck, Members
      <3> HIDE DEF t
      <3>4. QED
        BY <3>1, <3>2, <3>3, CheckKeeps
    <2>3. ASSUME NEW r \in Requests, CreateInsert(r)
          PROVE  SeatsInv'
      <3> DEFINE t == task[r]
                 row == [state |-> "live", class |-> t.class, section |-> t.section,
                         roll |-> 0]
      <3>1. /\ t.op = "create" /\ task' = [task EXCEPT ![r] = Idle]
            /\ section' = section
            /\ \/ /\ enrollment[t.student].state = "none"
                  /\ enrollment' = [enrollment EXCEPT ![t.student] = row]
               \/ enrollment' = enrollment
        BY <2>3 DEF CreateInsert, End
      <3>2. /\ t \in EnrollTask /\ t \in CreateTask
            /\ t.student \in Students
        BY <2>0, <3>1 DEF Idle, EnrollTask, CreateTask, MoveTask
      <3>3. row \in Enrollment
        BY <3>2 DEF CreateTask, Enrollment
      <3>4. EnrollType'
        BY <2>0, <3>1, <3>2, <3>3 DEF EnrollType
      <3>5. row.section = t.section
        OBVIOUS
      <3> HIDE DEF row
      <3>6. \A x \in Sections : \A s \in Members(x)' :
              s \in Members(x) \/ (s = t.student /\ t.section = x)
        BY <2>0, <3>1, <3>2, <3>5 DEF Members, Live
      <3>7. QED
        BY <3>1, <3>2, <3>4, <3>6, WriteKeeps
    <2>4. ASSUME NEW r \in Requests, MoveWrite(r)
          PROVE  SeatsInv'
      <3> DEFINE t == task[r]
                 c == IF t.class = Keep THEN enrollment[t.student].class ELSE t.class
                 x == IF t.section = Keep THEN enrollment[t.student].section ELSE t.section
                 row == [enrollment[t.student] EXCEPT !.class = c, !.section = x]
      <3>1. /\ t.op = "move" /\ task' = [task EXCEPT ![r] = Idle]
            /\ section' = section
            /\ \/ /\ Live(t.student)
                  /\ enrollment' = [enrollment EXCEPT ![t.student] = row]
               \/ enrollment' = enrollment
        <4>1. CASE Live(t.student)
          BY <2>0, <2>4, <4>1 DEF MoveWrite, End
        <4>2. CASE ~ Live(t.student)
          BY <2>4, <4>2 DEF MoveWrite, End
        <4>3. QED
          BY <4>1, <4>2
      <3>2. /\ t \in EnrollTask /\ t \in MoveTask
            /\ t.student \in Students
        BY <2>0, <3>1 DEF Idle, EnrollTask, CreateTask, MoveTask
      <3>3. row \in Enrollment
        <4>1. enrollment[t.student] \in Enrollment
          BY <2>0, <3>2
        <4>2. c \in Classes \cup {Keep} /\ x \in Sections \cup {NoSection}
          BY <3>2, <4>1 DEF MoveTask, Enrollment
        <4>3. QED
          BY <4>1, <4>2 DEF Enrollment
      <3>4. EnrollType'
        BY <2>0, <3>1, <3>2, <3>3 DEF EnrollType
      <3>5. row.section = x /\ (x = enrollment[t.student].section \/ x = t.section)
        BY <2>0, <3>2 DEF Enrollment
      <3> HIDE DEF row, x, c
      <3>6. \A y \in Sections : \A s \in Members(y)' :
              s \in Members(y) \/ (s = t.student /\ t.section = y)
        BY <2>0, <3>1, <3>2, <3>5 DEF Members, Live
      <3>7. QED
        BY <3>1, <3>2, <3>4, <3>6, WriteKeeps
    <2>5. ASSUME NEW s \in Students, DeleteEnrollment(s)
          PROVE  SeatsInv'
      <3>1. enrollment' = [enrollment EXCEPT ![s].state = "deleted"]
            /\ UNCHANGED <<section, task>>
        BY <2>5 DEF DeleteEnrollment
      <3>2. EnrollType'
        BY <2>0, <3>1 DEF EnrollType, Enrollment
      <3>3. \A x \in Sections : Members(x)' \subseteq Members(x)
        BY <2>0, <3>1 DEF Members, Live, Enrollment
      <3>4. \A x \in Sections : Arriving(x)' = Arriving(x)
        BY <3>1 DEF Arriving, Pending
      <3>5. QED
        BY <3>1, <3>2, <3>3, <3>4, NoNewOccupants DEF Occupants
    <2>6. CASE UNCHANGED vars
      BY <2>6 DEF vars, SeatsInv, EnrollType, OccupantsBounded, Occupants, Members,
              Live, Arriving, Pending
    <2>7. QED
      BY <2>1, <2>2, <2>3, <2>4, <2>5, <2>6 DEF Enrolling
  <1>3. QED
    BY <1>1, <1>2, PTL DEF EnrollingSpec

\* Concurrent enrollments and transfers exceed a capacity by less than the number
\* of requests in flight, and a single one at a time never does.
THEOREM OvershootAlwaysBounded == EnrollingSpec => []OvershootBounded
  <1>1. SeatsInv => OvershootBounded
    <2> SUFFICES ASSUME SeatsInv, NEW x \in Sections
                 PROVE  Enrolled(x) <= section[x].cap + Cardinality(Requests) - 1
      BY DEF OvershootBounded
    <2>1. /\ Cardinality(Members(x)) <= Cardinality(Occupants(x))
          /\ Cardinality(Members(x)) \in Nat /\ Cardinality(Occupants(x)) \in Nat
      BY OccupantsFinite DEF SeatsInv
    <2>2. Cardinality(Occupants(x)) <= section[x].cap + Cardinality(Requests) - 1
      BY DEF SeatsInv, OccupantsBounded
    <2>3. section[x].cap \in Nat /\ Cardinality(Requests) \in Nat
      BY Numbers DEF SeatsInv
    <2>4. QED
      BY <2>1, <2>2, <2>3 DEF Enrolled
  <1>2. QED
    BY <1>1, SeatsInvariant, PTL

-----------------------------------------------------------------------------
(* Requests that come one at a time, before the first generation.          *)

OneRequest == \A q, r \in Requests : q = r

AloneType ==
  /\ enrollment \in [Students -> Enrollment]
  /\ section \in [Sections -> Section]
  /\ task \in [Requests -> Task]

\* SeatsKept and NobodyInDeletedSection, and that a section not yet created is
\* empty, or its creation could break the first.
SeatsFit ==
  \A x \in Sections :
    IF Open(x) THEN Cardinality(Members(x)) <= section[x].cap ELSE Members(x) = {}

\* What the request has found, and its write relies on.
TaskFits ==
  \A r \in Requests, x \in Sections :
    task[r].op # "idle" /\ task[r].section = x =>
      /\ task[r].op \in {"create", "move"} =>
           Open(x) /\ Cardinality(Members(x) \cup {task[r].student}) <= section[x].cap
      /\ task[r].op = "cap" => Cardinality(Members(x)) <= task[r].cap
      /\ task[r].op = "drop" => Members(x) = {}

AloneInv ==
  /\ generations \in Nat
  /\ generations = 0 => gen.phase = "idle" /\ AloneType /\ SeatsFit /\ TaskFits

\* Sets of students are finite, and smaller ones have fewer members.
LEMMA StudentsCount ==
  ASSUME NEW S \in SUBSET Students, NEW T \in SUBSET S
  PROVE  /\ IsFiniteSet(S) /\ IsFiniteSet(T)
         /\ Cardinality(S) \in Nat /\ Cardinality(T) \in Nat
         /\ Cardinality(T) <= Cardinality(S)
         /\ Cardinality(S) < Unlimited
  <1>1. IsFiniteSet(Students) /\ Cardinality(Students) \in Nat
        /\ Cardinality(Students) < Unlimited /\ Unlimited \in Nat
    BY SeatsAssumption, FS_CardinalityType
  <1>2. IsFiniteSet(S) /\ Cardinality(S) <= Cardinality(Students)
    BY <1>1, FS_Subset
  <1>3. IsFiniteSet(T) /\ Cardinality(T) <= Cardinality(S)
    BY <1>2, FS_Subset
  <1>4. Cardinality(S) \in Nat /\ Cardinality(T) \in Nat
    BY <1>2, <1>3, FS_CardinalityType
  <1>5. QED
    BY <1>1, <1>2, <1>3, <1>4

LEMMA CapIsNumber ==
  ASSUME NEW cap \in Capacities \cup {Unlimited}
  PROVE  cap \in Nat
  BY SeatsAssumption

LEMMA MembersAreStudents ==
  ASSUME NEW x
  PROVE  Members(x) \in SUBSET Students
  BY DEF Members

\* A section that is not full has a seat for one more.
LEMMA SeatForOne ==
  ASSUME AloneType, NEW x \in Sections, NEW s \in Students,
         ~ Full(x) \/ (s \in Members(x) /\ Cardinality(Members(x)) <= section[x].cap)
  PROVE  Cardinality(Members(x) \cup {s}) <= section[x].cap
  <1> DEFINE M == Members(x)
             N == M \cup {s}
  <1>1. M \in SUBSET N /\ N \in SUBSET Students
    BY MembersAreStudents
  <1>2. section[x].cap \in Capacities \cup {Unlimited}
    BY DEF AloneType, Section
  <1>3. section[x].cap \in Nat
    BY <1>2, CapIsNumber
  <1>4. /\ IsFiniteSet(M) /\ Cardinality(M) \in Nat /\ Cardinality(N) \in Nat
        /\ Cardinality(N) < Unlimited
    BY <1>1, StudentsCount
  <1>5. Cardinality(N) = IF s \in M THEN Cardinality(M) ELSE Cardinality(M) + 1
    BY <1>4, FS_AddElement
  <1>6. section[x].cap = Unlimited \/ Cardinality(M) < section[x].cap
          \/ (s \in M /\ Cardinality(M) <= section[x].cap)
    <2> HIDE DEF N
    <2>1. QED
      BY <1>3, <1>4 DEF Full, Enrolled
  <1>7. Unlimited \in Nat
    BY SeatsAssumption
  <1>8. Cardinality(N) <= section[x].cap
    <2> HIDE DEF M, N
    <2>1. QED
      BY <1>3, <1>4, <1>5, <1>6, <1>7
  <1>9. QED
    BY <1>8

\* The request has done its write: only the sections count.
LEMMA AloneEnds ==
  ASSUME OneRequest, NEW r \in Requests, task' = [task EXCEPT ![r] = Idle],
         task \in [Requests -> Task]
  PROVE  task' \in [Requests -> Task] /\ TaskFits'
  <1>1. Idle \in Task
    BY DEF Idle, Task
  <1>2. \A q \in Requests : task'[q] = Idle
    BY DEF OneRequest
  <1>3. QED
    BY <1>1, <1>2 DEF TaskFits, Idle

\* A request that begins brings what it has found.
LEMMA AloneBegins ==
  ASSUME OneRequest, AloneType, SeatsFit, NEW r \in Requests, NEW t \in Task,
         task' = [task EXCEPT ![r] = t], UNCHANGED <<enrollment, section>>,
         t.op # "idle",
         \A x \in Sections : t.section = x =>
           /\ t.op \in {"create", "move"} =>
                Open(x) /\ Cardinality(Members(x) \cup {t.student}) <= section[x].cap
           /\ t.op = "cap" => Cardinality(Members(x)) <= t.cap
           /\ t.op = "drop" => Members(x) = {}
  PROVE  AloneType' /\ SeatsFit' /\ TaskFits'
  <1>1. AloneType'
    BY DEF AloneType
  <1>2. \A q \in Requests : task'[q] = t
    BY DEF AloneType, OneRequest
  <1>3. \A x : Members(x)' = Members(x) /\ (Open(x)' <=> Open(x))
    BY DEF Members, Live, Open
  <1>4. SeatsFit'
    BY <1>3 DEF SeatsFit
  <1>5. TaskFits'
    BY <1>2, <1>3 DEF TaskFits
  <1>6. QED
    BY <1>1, <1>4, <1>5

\* Students only leave, and no request moves.
LEMMA AloneLeaves ==
  ASSUME AloneType, SeatsFit, TaskFits, UNCHANGED <<section, task>>, AloneType',
         \A x \in Sections : Members(x)' \subseteq Members(x)
  PROVE  SeatsFit' /\ TaskFits'
  <1>1. \A x \in Sections : section[x].cap \in Nat
    BY CapIsNumber DEF AloneType, Section
  <1>2. ASSUME NEW x \in Sections, NEW S \in SUBSET Students,
               NEW n \in Nat, Cardinality(Members(x) \cup S) <= n
        PROVE  Cardinality(Members(x)' \cup S) <= n
    <2>1. Members(x)' \cup S \in SUBSET (Members(x) \cup S)
          /\ Members(x) \cup S \in SUBSET Students
      BY MembersAreStudents
    <2>2. /\ Cardinality(Members(x)' \cup S) <= Cardinality(Members(x) \cup S)
          /\ Cardinality(Members(x)' \cup S) \in Nat
          /\ Cardinality(Members(x) \cup S) \in Nat
      BY <2>1, StudentsCount
    <2>3. QED
      BY <1>2, <2>2
  <1>3. ASSUME NEW x \in Sections, NEW n \in Nat, Cardinality(Members(x)) <= n
        PROVE  Cardinality(Members(x)') <= n
    <2>1. Members(x) = Members(x) \cup {} /\ Members(x)' = Members(x)' \cup {}
      OBVIOUS
    <2>2. QED
      BY <1>2, <1>3, <2>1
  <1>4. \A x \in Sections : Open(x)' <=> Open(x)
    BY DEF Open
  <1>5. SeatsFit'
    BY <1>1, <1>3, <1>4 DEF SeatsFit
  <1>6. ASSUME NEW r \in Requests, NEW x \in Sections,
               task[r].op # "idle", task[r].section = x
        PROVE  /\ task[r].op \in {"create", "move"} =>
                    Open(x)' /\ Cardinality(Members(x)' \cup {task[r].student}) <= section[x].cap
               /\ task[r].op = "cap" => Cardinality(Members(x)') <= task[r].cap
               /\ task[r].op = "drop" => Members(x)' = {}
    <2>1. task[r] \in Task
      BY DEF AloneType
    <2>2. CASE task[r].op \in {"create", "move"}
      <3>1. {task[r].student} \in SUBSET Students
        BY <2>1, <2>2 DEF Task, CreateTask, MoveTask, CapTask, DropTask
      <3>2. Open(x) /\ Cardinality(Members(x) \cup {task[r].student}) <= section[x].cap
        BY <1>6, <2>2 DEF TaskFits
      <3>3. QED
        BY <1>1, <1>2, <1>4, <2>2, <3>1, <3>2
    <2>3. CASE task[r].op = "cap"
      <3>1. task[r].cap \in Nat
        BY <2>1, <2>3, CapIsNumber DEF Task, CreateTask, MoveTask, CapTask, DropTask
      <3>2. Cardinality(Members(x)) <= task[r].cap
        BY <1>6, <2>3 DEF TaskFits
      <3>3. QED
        BY <1>3, <2>3, <3>1, <3>2
    <2>4. CASE task[r].op = "drop"
      BY <1>6, <2>4 DEF TaskFits
    <2>5. QED
      BY <2>2, <2>3, <2>4, <2>1 DEF Task, CreateTask, MoveTask, CapTask, DropTask
  <1>7. TaskFits'
    BY <1>6 DEF TaskFits
  <1>8. QED
    BY <1>5, <1>7

\* A student arrives where the request has found a seat, or stays.
LEMMA AloneArrives ==
  ASSUME OneRequest, AloneType, SeatsFit, TaskFits, NEW r \in Requests,
         task[r].op \in {"create", "move"}, task' = [task EXCEPT ![r] = Idle],
         section' = section, enrollment' \in [Students -> Enrollment],
         \A x \in Sections : \A s \in Members(x)' :
           s \in Members(x) \/ (s = task[r].student /\ task[r].section = x)
  PROVE  AloneType' /\ SeatsFit' /\ TaskFits'
  <1>1. AloneType' /\ TaskFits'
    BY AloneEnds DEF AloneType
  <1>2. ASSUME NEW x \in Sections
        PROVE  IF Open(x)' THEN Cardinality(Members(x)') <= section'[x].cap
                           ELSE Members(x)' = {}
    <2>1. section[x].cap \in Nat
      BY CapIsNumber DEF AloneType, Section
    <2>2. Open(x)' <=> Open(x)
      BY DEF Open
    <2>3. CASE task[r].section = x
      <3>1. Open(x) /\ Cardinality(Members(x) \cup {task[r].student}) <= section[x].cap
        BY <2>3 DEF TaskFits
      <3>2. task[r] \in Task
        BY DEF AloneType
      <3>3. task[r].student \in Students
        BY <3>2 DEF Task, CreateTask, MoveTask, CapTask, DropTask
      <3>4. Members(x)' \in SUBSET (Members(x) \cup {task[r].student})
            /\ Members(x) \cup {task[r].student} \in SUBSET Students
        BY <3>3, MembersAreStudents
      <3>5. /\ Cardinality(Members(x)') <= Cardinality(Members(x) \cup {task[r].student})
            /\ Cardinality(Members(x)') \in Nat
            /\ Cardinality(Members(x) \cup {task[r].student}) \in Nat
        BY <3>4, StudentsCount
      <3>6. QED
        BY <2>1, <2>2, <3>1, <3>5
    <2>4. CASE task[r].section # x
      <3>1. Members(x)' \in SUBSET Members(x)
        BY <2>4
      <3>2. /\ Cardinality(Members(x)') <= Cardinality(Members(x))
            /\ Cardinality(Members(x)') \in Nat /\ Cardinality(Members(x)) \in Nat
        BY <3>1, MembersAreStudents, StudentsCount
      <3>3. QED
        BY <2>1, <2>2, <3>1, <3>2 DEF SeatsFit
    <2>5. QED
      BY <2>3, <2>4
  <1>3. SeatsFit'
    BY <1>2 DEF SeatsFit
  <1>4. QED
    BY <1>1, <1>3

LEMMA AloneStep ==
  ASSUME OneRequest, AloneInv, [Next]_vars
  PROVE  AloneInv'
  <1> SUFFICES ASSUME generations' = 0, generations = 0
               PROVE  gen'.phase = "idle" /\ AloneType' /\ SeatsFit' /\ TaskFits'
    <2>1. CASE Enrolling
      BY <2>1 DEF AloneInv, Enrolling, CreateCheck, CreateInsert, MoveCheck,
                  MoveWrite, DeleteEnrollment
    <2>2. CASE Administering
      BY <2>2 DEF AloneInv, Administering, CreateSection, CapCheck, CapWrite,
                  DropCheck, DropWrite
    <2>3. CASE Generating
      <3>1. generations' = generations \/ generations' = generations + 1
        BY <2>3 DEF Generating, Rank, TxSections, TxCommit, TxRollback
      <3>2. QED
        BY <3>1 DEF AloneInv
    <2>4. CASE UNCHANGED vars
      BY <2>4 DEF AloneInv, vars
    <2>5. QED
      BY <2>1, <2>2, <2>3, <2>4 DEF Next
  <1>1. /\ gen.phase = "idle" /\ AloneType /\ SeatsFit /\ TaskFits
        /\ enrollment \in [Students -> Enrollment]
        /\ section \in [Sections -> Section]
        /\ task \in [Requests -> Task]
    BY DEF AloneInv, AloneType
  <1>2. ASSUME NEW r \in Requests, NEW s \in Students, NEW c \in Classes,
               NEW x \in Sections \cup {NoSection}, CreateCheck(r, s, c, x)
        PROVE  gen' = gen /\ AloneType' /\ SeatsFit' /\ TaskFits'
    <2> DEFINE t == [op |-> "create", student |-> s, class |-> c, section |-> x]
    <2>1. t \in Task /\ t.op = "create" /\ t.section = x /\ t.student = s
      BY DEF Task, CreateTask
    <2>2. task' = [task EXCEPT ![r] = t] /\ UNCHANGED <<enrollment, section, gen>>
      BY <1>2 DEF CreateCheck, Begin
    <2>3. x \in Sections => Open(x) /\ ~ Full(x)
      BY <1>2, SeatsAssumption DEF CreateCheck, SectionsOf
    <2> HIDE DEF t
    <2>4. QED
      BY <1>1, <2>1, <2>2, <2>3, SeatForOne, AloneBegins
  <1>3. ASSUME NEW r \in Requests, NEW s \in Students, NEW c \in Classes \cup {Keep},
               NEW x \in Sections \cup {NoSection, Keep}, MoveCheck(r, s, c, x)
        PROVE  gen' = gen /\ AloneType' /\ SeatsFit' /\ TaskFits'
    <2> DEFINE t == [op |-> "move", student |-> s, class |-> c, section |-> x]
    <2>1. t \in Task /\ t.op = "move" /\ t.section = x /\ t.student = s
      BY DEF Task, MoveTask
    <2>2. task' = [task EXCEPT ![r] = t] /\ UNCHANGED <<enrollment, section, gen>>
      BY <1>3 DEF MoveCheck, Begin
    <2>3. x \in Sections => Open(x) /\ (s \in Members(x) \/ ~ Full(x))
      BY <1>3 DEF MoveCheck, Members
    <2>4. x \in Sections => Cardinality(Members(x)) <= section[x].cap
      BY <1>1, <2>3 DEF SeatsFit
    <2> HIDE DEF t
    <2>5. QED
      BY <1>1, <2>1, <2>2, <2>3, <2>4, SeatForOne, AloneBegins
  <1>4. ASSUME NEW r \in Requests, CreateInsert(r)
        PROVE  gen' = gen /\ AloneType' /\ SeatsFit' /\ TaskFits'
    <2> DEFINE t == task[r]
               row == [state |-> "live", class |-> t.class, section |-> t.section,
                       roll |-> 0]
    <2>1. /\ t.op = "create" /\ task' = [task EXCEPT ![r] = Idle]
          /\ section' = section /\ gen' = gen
          /\ \/ enrollment' = [enrollment EXCEPT ![t.student] = row]
             \/ enrollment' = enrollment
      BY <1>4 DEF CreateInsert, End
    <2>2. t \in CreateTask /\ t.student \in Students
      BY <1>1, <2>1 DEF Task, CreateTask, MoveTask, CapTask, DropTask
    <2>3. row \in Enrollment /\ row.section = t.section
      BY <2>2 DEF CreateTask, Enrollment
    <2> HIDE DEF row
    <2>4. enrollment' \in [Students -> Enrollment]
      BY <1>1, <2>1, <2>3
    <2>5. \A x \in Sections : \A s \in Members(x)' :
            s \in Members(x) \/ (s = t.student /\ t.section = x)
      BY <1>1, <2>1, <2>2, <2>3 DEF Members, Live
    <2>6. QED
      BY <1>1, <2>1, <2>4, <2>5, AloneArrives
  <1>5. ASSUME NEW r \in Requests, MoveWrite(r)
        PROVE  gen' = gen /\ AloneType' /\ SeatsFit' /\ TaskFits'
    <2> DEFINE t == task[r]
               c == IF t.class = Keep THEN enrollment[t.student].class ELSE t.class
               x == IF t.section = Keep THEN enrollment[t.student].section ELSE t.section
               row == [enrollment[t.student] EXCEPT !.class = c, !.section = x]
    <2>1. t.op = "move" /\ task' = [task EXCEPT ![r] = Idle]
          /\ section' = section /\ gen' = gen
      BY <1>5 DEF MoveWrite, End
    <2>2. t \in MoveTask /\ t.student \in Students
      BY <1>1, <2>1 DEF Task, CreateTask, MoveTask, CapTask, DropTask
    <2>3. \/ Live(t.student) /\ enrollment' = [enrollment EXCEPT ![t.student] = row]
          \/ enrollment' = enrollment
      <3>1. CASE Live(t.student)
        BY <1>1, <1>5, <3>1 DEF MoveWrite
      <3>2. CASE ~ Live(t.student)
        BY <1>5, <3>2 DEF MoveWrite
      <3>3. QED
        BY <3>1, <3>2
    <2>4. row \in Enrollment
      <3>1. enrollment[t.student] \in Enrollment
        BY <1>1, <2>2
      <3>2. c \in Classes \cup {Keep} /\ x \in Sections \cup {NoSection}
        BY <2>2, <3>1 DEF MoveTask, Enrollment
      <3>3. QED
        BY <3>1, <3>2 DEF Enrollment
    <2>5. row.section = x /\ (x = enrollment[t.student].section \/ x = t.section)
      BY <1>1, <2>2 DEF Enrollment
    <2> HIDE DEF row, x, c
    <2>6. enrollment' \in [Students -> Enrollment]
      BY <1>1, <2>3, <2>4
    <2>7. \A y \in Sections : \A s \in Members(y)' :
            s \in Members(y) \/ (s = t.student /\ t.section = y)
      BY <1>1, <2>2, <2>3, <2>5 DEF Members, Live
    <2>8. QED
      BY <1>1, <2>1, <2>6, <2>7, AloneArrives
  <1>6. ASSUME NEW s \in Students, DeleteEnrollment(s)
        PROVE  gen' = gen /\ AloneType' /\ SeatsFit' /\ TaskFits'
    <2>1. /\ enrollment' = [enrollment EXCEPT ![s].state = "deleted"]
          /\ UNCHANGED <<section, task, gen>>
      BY <1>6 DEF DeleteEnrollment
    <2>2. AloneType'
      BY <1>1, <2>1 DEF AloneType, Enrollment
    <2>3. \A x \in Sections : Members(x)' \subseteq Members(x)
      BY <1>1, <2>1 DEF Members, Live, Enrollment
    <2>4. QED
      BY <1>1, <2>1, <2>2, <2>3, AloneLeaves
  <1>7. ASSUME NEW x \in Sections, NEW cap \in Capacities \cup {Unlimited},
               CreateSection(x, cap)
        PROVE  gen' = gen /\ AloneType' /\ SeatsFit' /\ TaskFits'
    <2> DEFINE row == [state |-> "live", cap |-> cap]
    <2>1. /\ ~ Open(x) /\ section' = [section EXCEPT ![x] = row]
          /\ UNCHANGED <<enrollment, task, gen>>
      BY <1>7 DEF CreateSection, Open
    <2>2. row \in Section /\ row.cap = cap /\ row.state = "live"
      BY DEF Section
    <2> HIDE DEF row
    <2>3. AloneType'
      BY <1>1, <2>1, <2>2 DEF AloneType
    <2>4. \A y : Members(y)' = Members(y)
      BY <2>1 DEF Members, Live
    <2>5. \A y \in Sections \ {x} : section'[y] = section[y]
      BY <1>1, <2>1
    <2>6. section'[x] = row
      BY <1>1, <2>1
    <2>7. SeatsFit'
      <3>1. Members(x) = {} /\ Cardinality(Members(x)) = 0 /\ cap \in Nat
        BY <1>1, <2>1, CapIsNumber, FS_EmptySet DEF SeatsFit
      <3>2. \A y \in Sections \ {x} : Open(y)' <=> Open(y)
        BY <2>5 DEF Open
      <3>3. QED
        BY <1>1, <2>2, <2>4, <2>5, <2>6, <3>1, <3>2 DEF SeatsFit
    <2>8. TaskFits'
      <3>1. \A y \in Sections : Open(y) => Open(y)' /\ section'[y] = section[y]
        BY <2>1, <2>5 DEF Open
      <3>2. QED
        BY <1>1, <2>1, <2>4, <3>1 DEF TaskFits
    <2>9. QED
      BY <2>1, <2>3, <2>7, <2>8
  <1>8. ASSUME NEW r \in Requests, NEW x \in Sections,
               NEW cap \in Capacities \cup {Unlimited}, CapCheck(r, x, cap)
        PROVE  gen' = gen /\ AloneType' /\ SeatsFit' /\ TaskFits'
    <2> DEFINE t == [op |-> "cap", section |-> x, cap |-> cap]
    <2>1. t \in Task /\ t.op = "cap" /\ t.section = x /\ t.cap = cap
      BY DEF Task, CapTask
    <2>2. task' = [task EXCEPT ![r] = t] /\ UNCHANGED <<enrollment, section, gen>>
      BY <1>8 DEF CapCheck, Begin
    <2>3. Cardinality(Members(x)) <= cap
      <3>1. /\ Cardinality(Members(x)) \in Nat /\ Cardinality(Members(x)) < Unlimited
            /\ cap \in Nat
        BY MembersAreStudents, StudentsCount, CapIsNumber
      <3>2. cap # Unlimited => cap >= Cardinality(Members(x))
        BY <1>8 DEF CapCheck, Enrolled
      <3>3. QED
        BY <3>1, <3>2
    <2> HIDE DEF t
    <2>4. QED
      BY <1>1, <2>1, <2>2, <2>3, AloneBegins
  <1>9. ASSUME NEW r \in Requests, NEW x \in Sections, DropCheck(r, x)
        PROVE  gen' = gen /\ AloneType' /\ SeatsFit' /\ TaskFits'
    <2> DEFINE t == [op |-> "drop", section |-> x]
    <2>1. t \in Task /\ t.op = "drop" /\ t.section = x
      BY DEF Task, DropTask
    <2>2. task' = [task EXCEPT ![r] = t] /\ UNCHANGED <<enrollment, section, gen>>
      BY <1>9 DEF DropCheck, Begin
    <2>3. Members(x) = {}
      BY <1>9 DEF DropCheck
    <2> HIDE DEF t
    <2>4. QED
      BY <1>1, <2>1, <2>2, <2>3, AloneBegins
  <1>10. ASSUME NEW r \in Requests, CapWrite(r)
         PROVE  gen' = gen /\ AloneType' /\ SeatsFit' /\ TaskFits'
    <2> DEFINE t == task[r]
               x == t.section
               row == [section[x] EXCEPT !.cap = t.cap]
    <2>1. /\ t.op = "cap" /\ task' = [task EXCEPT ![r] = Idle]
          /\ enrollment' = enrollment /\ gen' = gen
          /\ section' = IF Open(x) THEN [section EXCEPT ![x] = row] ELSE section
      BY <1>10 DEF CapWrite, End
    <2>2. t \in CapTask /\ x \in Sections
      BY <1>1, <2>1 DEF Task, CreateTask, MoveTask, CapTask, DropTask
    <2>3. row \in Section /\ row.cap = t.cap /\ row.state = section[x].state
      BY <1>1, <2>2 DEF CapTask, Section
    <2>4. Cardinality(Members(x)) <= t.cap
      BY <1>1, <2>1, <2>2 DEF TaskFits
    <2> HIDE DEF row
    <2>5. AloneType' /\ TaskFits'
      BY <1>1, <2>1, <2>2, <2>3, AloneEnds DEF AloneType
    <2>6. \A y : Members(y)' = Members(y)
      BY <2>1 DEF Members, Live
    <2>7. \A y \in Sections : \/ section'[y] = section[y]
                              \/ y = x /\ Open(x) /\ section'[y] = row
      BY <1>1, <2>1
    <2>8. SeatsFit'
      BY <1>1, <2>3, <2>4, <2>6, <2>7 DEF SeatsFit, Open
    <2>9. QED
      BY <2>1, <2>5, <2>8
  <1>11. ASSUME NEW r \in Requests, DropWrite(r)
         PROVE  gen' = gen /\ AloneType' /\ SeatsFit' /\ TaskFits'
    <2> DEFINE t == task[r]
               x == t.section
               row == [section[x] EXCEPT !.state = "deleted"]
    <2>1. /\ t.op = "drop" /\ task' = [task EXCEPT ![r] = Idle]
          /\ enrollment' = enrollment /\ gen' = gen
          /\ section' = IF Open(x) THEN [section EXCEPT ![x] = row] ELSE section
      BY <1>11 DEF DropWrite, End
    <2>2. t \in DropTask /\ x \in Sections
      BY <1>1, <2>1 DEF Task, CreateTask, MoveTask, CapTask, DropTask
    <2>3. row \in Section /\ row.state = "deleted"
      BY <1>1, <2>2 DEF Section
    <2>4. Members(x) = {}
      BY <1>1, <2>1, <2>2 DEF TaskFits
    <2> HIDE DEF row
    <2>5. AloneType' /\ TaskFits'
      BY <1>1, <2>1, <2>2, <2>3, AloneEnds DEF AloneType
    <2>6. \A y : Members(y)' = Members(y)
      BY <2>1 DEF Members, Live
    <2>7. \A y \in Sections : \/ section'[y] = section[y]
                              \/ y = x /\ section'[y] = row
      BY <1>1, <2>1
    <2>8. SeatsFit'
      BY <1>1, <2>3, <2>4, <2>6, <2>7 DEF SeatsFit, Open
    <2>9. QED
      BY <2>1, <2>5, <2>8
  <1>12. ASSUME Generating
         PROVE  FALSE
    BY <1>1, <1>12 DEF Generating, Rank, TxSections, TxCommit, TxRollback
  <1>13. CASE UNCHANGED vars
    BY <1>1, <1>13 DEF vars, AloneType, SeatsFit, TaskFits, Members, Live, Open
  <1>14. QED
    <2>1. ASSUME Enrolling
          PROVE  gen' = gen /\ AloneType' /\ SeatsFit' /\ TaskFits'
      BY <1>2, <1>3, <1>4, <1>5, <1>6, <2>1 DEF Enrolling
    <2>2. ASSUME Administering
          PROVE  gen' = gen /\ AloneType' /\ SeatsFit' /\ TaskFits'
      BY <1>7, <1>8, <1>9, <1>10, <1>11, <2>2 DEF Administering
    <2>3. QED
      BY <1>1, <1>12, <1>13, <2>1, <2>2 DEF Next

LEMMA AloneInit == Init => AloneInv
  <1> SUFFICES ASSUME Init PROVE AloneInv
    OBVIOUS
  <1>1. NotEnrolled \in Enrollment /\ Idle \in Task
    BY DEF NotEnrolled, Enrollment, Idle, Task
  <1>2. AloneType
    BY <1>1 DEF Init, AloneType
  <1>3. \A x \in Sections : Members(x) = {} /\ Cardinality(Members(x)) = 0
                            /\ section[x].cap \in Nat
    <2>1. \A x \in Sections : Members(x) = {}
      BY DEF Init, Members, Live, NotEnrolled
    <2>2. \A x \in Sections : section[x].cap \in Nat
      BY <1>2, CapIsNumber DEF AloneType, Section
    <2>3. QED
      BY <2>1, <2>2, FS_EmptySet
  <1>4. SeatsFit
    BY <1>3 DEF SeatsFit
  <1>5. TaskFits
    BY DEF Init, TaskFits, Idle
  <1>6. QED
    BY <1>2, <1>4, <1>5 DEF Init, AloneInv, NoGen

\* Requests that come one at a time never put more students into a section than
\* its capacity, or leave a capacity below its students, before a generation.
THEOREM SeatsKeptAlone == ASSUME OneRequest PROVE Spec => []SeatsKept
  <1>1. AloneInv => SeatsKept
    BY DEF AloneInv, SeatsFit, SeatsKept, Enrolled
  <1>2. AloneInv /\ [Next]_vars => AloneInv'
    BY AloneStep
  <1>3. QED
    BY <1>1, <1>2, AloneInit, PTL DEF Spec

\* And they never leave a student in a section that is deleted.
THEOREM DeletedIsEmptyAlone == ASSUME OneRequest PROVE Spec => []NobodyInDeletedSection
  <1>1. AloneInv => NobodyInDeletedSection
    BY DEF AloneInv, SeatsFit, NobodyInDeletedSection, Open
  <1>2. AloneInv /\ [Next]_vars => AloneInv'
    BY AloneStep
  <1>3. QED
    BY <1>1, <1>2, AloneInit, PTL DEF Spec

-----------------------------------------------------------------------------
(* The placement of a ranked list, for any list and any seats              *)

SeatRow == [section: Sections, seats: Nat]
Place(seats) == [at: 1 .. Len(seats), left: Int, roll: Nat]

\* What p says of the place after q: the next seat of the same section, or the
\* first of a later one; only the last section is used beyond its seats.
After(q, p, seats) ==
  IF p.at = q.at
  THEN /\ p.roll = q.roll + 1 /\ p.left = q.left - 1
       /\ q.left > 0 \/ q.at = Len(seats)
  ELSE /\ p.at > q.at /\ p.roll = 1 /\ p.left = seats[p.at].seats - 1
       /\ seats[p.at].seats > 0 \/ p.at = Len(seats)

\* The while loop ends, in the last section if nowhere else.
LEMMA NextPlaceAfter ==
  ASSUME NEW seats \in Seq(SeatRow), NEW q \in Place(seats)
  PROVE  /\ NextPlace(q, seats) \in Place(seats)
         /\ After(q, NextPlace(q, seats), seats)
  <1>1. PICK n \in Nat : n = Len(seats)
    OBVIOUS
  <1>2. /\ q.at \in 1 .. n /\ q.left \in Int /\ q.roll \in Nat
        /\ \A k \in 1 .. n : seats[k] \in SeatRow
    BY <1>1 DEF Place
  <1>3. \A k \in 1 .. n : seats[k].seats \in Nat
    BY <1>2 DEF SeatRow
  <1> DEFINE Left(j) == IF j = q.at THEN q.left ELSE seats[j].seats
             Ends(j) == Left(j) > 0 \/ j = n
             T == {j \in q.at .. n : Ends(j)}
  <1>4. \A j \in q.at .. n : Left(j) \in Int
    BY <1>2, <1>3
  <1>5. n \in T /\ T \in SUBSET Nat
    BY <1>2
  <1>6. PICK j \in T : \A k \in T : j <= k
    <2> HIDE DEF T
    <2>1. QED
      BY <1>5, LeastNumber
  <1>7. /\ j \in q.at .. n
        /\ Ends(j)
        /\ \A k \in q.at .. (j - 1) : Left(k) <= 0
    <2>1. j \in q.at .. n /\ Ends(j)
      OBVIOUS
    <2>2. ASSUME NEW k \in q.at .. (j - 1)
          PROVE  Left(k) <= 0
      <3>1. k \in q.at .. n /\ ~ (j <= k)
        BY <1>2, <2>1, <2>2
      <3>2. k \notin T
        BY <1>6, <3>1
      <3>3. Left(k) \in Int /\ ~ (Left(k) > 0)
        BY <1>4, <3>1, <3>2
      <3> HIDE DEF Left
      <3>4. QED
        BY <3>3
    <2>3. QED
      BY <2>1, <2>2
  <1> DEFINE at == CHOOSE i \in q.at .. n :
                     /\ Left(i) > 0 \/ i = n
                     /\ \A k \in q.at .. (i - 1) : Left(k) <= 0
  <1>8. /\ at \in q.at .. n
        /\ Left(at) > 0 \/ at = n
    <2>1. \E i \in q.at .. n : /\ Left(i) > 0 \/ i = n
                               /\ \A k \in q.at .. (i - 1) : Left(k) <= 0
      BY <1>7
    <2> HIDE DEF Left
    <2>2. QED
      BY <2>1
  <1>9. NextPlace(q, seats) = [at |-> at, left |-> Left(at) - 1,
                               roll |-> IF at = q.at THEN q.roll + 1 ELSE 1]
    BY <1>1 DEF NextPlace
  <1> HIDE DEF at
  <1>10. at \in 1 .. n /\ Left(at) \in Int
    BY <1>2, <1>4, <1>8
  <1>11. NextPlace(q, seats) \in Place(seats)
    BY <1>1, <1>2, <1>9, <1>10 DEF Place
  <1>12. After(q, NextPlace(q, seats), seats)
    BY <1>1, <1>2, <1>8, <1>9 DEF After
  <1>13. QED
    BY <1>11, <1>12

FirstPlace(seats) == [at |-> 1, left |-> seats[1].seats, roll |-> 0]

\* Placement is what its equation says: a function on 0 .. m extends to 0 .. m + 1,
\* so there is no least m without one.
LEMMA PlacementIs ==
  ASSUME NEW seats, NEW n \in Nat
  PROVE  Placement(seats, n) =
           [i \in 0 .. n |-> IF i = 0 THEN FirstPlace(seats)
                            ELSE NextPlace(Placement(seats, n)[i - 1], seats)]
  <1> DEFINE Solves(g, m) ==
               g = [i \in 0 .. m |-> IF i = 0 THEN FirstPlace(seats)
                                    ELSE NextPlace(g[i - 1], seats)]
             Bad == {m \in Nat : ~ \E g : Solves(g, m)}
  <1>1. Bad = {}
    <2> SUFFICES ASSUME Bad # {} PROVE FALSE
      OBVIOUS
    <2>1. Bad \in SUBSET Nat
      OBVIOUS
    <2>2. PICK m \in Bad : \A k \in Bad : m <= k
      <3> HIDE DEF Bad
      <3>1. QED
        BY <2>1, LeastNumber
    <2>3. m \in Nat /\ ~ \E g : Solves(g, m)
      OBVIOUS
    <2>4. CASE m = 0
      <3> DEFINE g == [i \in 0 .. m |-> FirstPlace(seats)]
      <3>1. Solves(g, m)
        BY <2>4
      <3> HIDE DEF g, Solves
      <3>2. QED
        BY <2>3, <3>1
    <2>5. CASE m # 0
      <3>1. m - 1 \in Nat /\ ~ (m <= m - 1)
        BY <2>3, <2>5
      <3>2. m - 1 \notin Bad
        <4> HIDE DEF Bad
        <4>1. QED
          BY <2>2, <3>1
      <3>3. \E g : Solves(g, m - 1)
        BY <3>1, <3>2
      <3>4. PICK g : Solves(g, m - 1)
        BY <3>3
      <3>5. \A i \in 0 .. (m - 1) :
              g[i] = IF i = 0 THEN FirstPlace(seats) ELSE NextPlace(g[i - 1], seats)
        BY <3>4
      <3> DEFINE h == [i \in 0 .. m |-> IF i = m THEN NextPlace(g[m - 1], seats) ELSE g[i]]
      <3>6. ASSUME NEW i \in 0 .. m
            PROVE  h[i] = IF i = 0 THEN FirstPlace(seats) ELSE NextPlace(h[i - 1], seats)
        <4>1. CASE i = m
          <5>1. m - 1 \in 0 .. m /\ m - 1 # m
            BY <2>3, <2>5
          <5>2. h[m - 1] = g[m - 1]
            BY <5>1
          <5>3. h[i] = NextPlace(g[m - 1], seats)
            BY <4>1
          <5>4. QED
            BY <2>5, <4>1, <5>2, <5>3
        <4>2. CASE i = 0
          <5>1. h[i] = g[i] /\ i \in 0 .. (m - 1)
            BY <2>3, <2>5, <4>2
          <5>2. QED
            BY <3>5, <4>2, <5>1
        <4>3. CASE i # m /\ i # 0
          <5>1. i \in 0 .. (m - 1) /\ i - 1 \in 0 .. m /\ i - 1 # m
            BY <2>3, <4>3
          <5>2. h[i] = g[i] /\ h[i - 1] = g[i - 1]
            BY <4>3, <5>1
          <5>3. g[i] = NextPlace(g[i - 1], seats)
            BY <3>5, <4>3, <5>1
          <5>4. QED
            BY <4>3, <5>2, <5>3
        <4>4. QED
          BY <4>1, <4>2, <4>3
      <3>7. h = [i \in 0 .. m |-> h[i]]
        OBVIOUS
      <3> HIDE DEF h
      <3>8. Solves(h, m)
        BY <3>6, <3>7
      <3> HIDE DEF Solves
      <3>9. QED
        BY <2>3, <3>8
    <2>6. QED
      BY <2>4, <2>5
  <1>2. \E g : Solves(g, n)
    BY <1>1
  <1>3. Placement(seats, n) = CHOOSE g : Solves(g, n)
    BY DEF Placement, FirstPlace
  <1>4. Solves(Placement(seats, n), n)
    <2> HIDE DEF Solves
    <2>1. QED
      BY <1>2, <1>3
  <1>5. QED
    BY <1>4

\* The places of a list: each follows from the one before it.
LEMMA PlacesFollow ==
  ASSUME NEW seats \in Seq(SeatRow), seats # <<>>, NEW n \in Nat
  PROVE  \E p \in [0 .. n -> Place(seats)] :
           /\ Placement(seats, n) = p
           /\ p[0] = FirstPlace(seats)
           /\ \A i \in 1 .. n : After(p[i - 1], p[i], seats)
  <1> DEFINE p == Placement(seats, n)
  <1>1. p = [i \in 0 .. n |-> IF i = 0 THEN FirstPlace(seats)
                             ELSE NextPlace(p[i - 1], seats)]
    BY PlacementIs
  <1> HIDE DEF p
  <1>2. p[0] = FirstPlace(seats) /\ \A i \in 1 .. n : p[i] = NextPlace(p[i - 1], seats)
    <2>1. 0 \in 0 .. n /\ \A i \in 1 .. n : i \in 0 .. n /\ i # 0
      OBVIOUS
    <2>2. QED
      BY <1>1, <2>1
  <1>3. FirstPlace(seats) \in Place(seats)
    <2>1. 1 \in 1 .. Len(seats) /\ seats[1] \in SeatRow
      OBVIOUS
    <2>2. QED
      BY <2>1 DEF FirstPlace, Place, SeatRow
  <1> DEFINE Bad == {i \in 0 .. n : p[i] \notin Place(seats)}
  <1>4. Bad = {}
    <2> SUFFICES ASSUME Bad # {} PROVE FALSE
      OBVIOUS
    <2>1. Bad \in SUBSET Nat
      OBVIOUS
    <2>2. PICK m \in Bad : \A k \in Bad : m <= k
      <3> HIDE DEF Bad
      <3>1. QED
        BY <2>1, LeastNumber
    <2>3. m \in 0 .. n /\ p[m] \notin Place(seats)
      OBVIOUS
    <2>4. m # 0
      BY <1>2, <1>3, <2>3
    <2>5. m \in 1 .. n /\ m - 1 \in 0 .. n /\ ~ (m <= m - 1)
      BY <2>3, <2>4
    <2>6. p[m - 1] \in Place(seats)
      BY <2>2, <2>5
    <2>7. p[m] = NextPlace(p[m - 1], seats)
      BY <1>2, <2>5
    <2>8. p[m] \in Place(seats)
      BY <2>6, <2>7, NextPlaceAfter
    <2>9. QED
      BY <2>3, <2>8
  <1>5. \A i \in 0 .. n : p[i] \in Place(seats)
    BY <1>4
  <1>6. p \in [0 .. n -> Place(seats)]
    BY <1>1, <1>5
  <1>7. ASSUME NEW i \in 1 .. n
        PROVE  After(p[i - 1], p[i], seats)
    <2>1. i - 1 \in 0 .. n
      OBVIOUS
    <2>2. p[i - 1] \in Place(seats)
      BY <1>5, <2>1
    <2>3. QED
      BY <1>2, <2>2, NextPlaceAfter
  <1>8. QED
    BY <1>2, <1>6, <1>7 DEF p

Places(seats, n) ==
  {p \in [0 .. n -> Place(seats)] :
     /\ p[0] = FirstPlace(seats)
     /\ \A i \in 1 .. n : After(p[i - 1], p[i], seats)}

Sooner(q, p) == q.at < p.at \/ (q.at = p.at /\ q.roll < p.roll)

LEMMA SoonerTransitive ==
  ASSUME NEW a, NEW b, NEW c, a.at \in Int, b.at \in Int, c.at \in Int,
         a.roll \in Int, b.roll \in Int, c.roll \in Int, Sooner(a, b), Sooner(b, c)
  PROVE  Sooner(a, c)
  BY DEF Sooner

LEMMA AfterOne ==
  ASSUME NEW seats \in Seq(SeatRow), NEW q \in Place(seats), NEW p \in Place(seats),
         After(q, p, seats)
  PROVE  /\ Sooner(q, p)
         /\ p.roll >= 1
         /\ q.roll + q.left = seats[q.at].seats => p.roll + p.left = seats[p.at].seats
         /\ p.at # Len(seats) => p.left >= 0
  <1>1. /\ q.at \in Int /\ q.left \in Int /\ q.roll \in Nat
        /\ p.at \in Int /\ p.left \in Int /\ p.roll \in Nat
        /\ p.at \in 1 .. Len(seats)
    BY DEF Place
  <1>2. PICK m \in Nat : m = seats[p.at].seats
    <2>1. seats[p.at] \in SeatRow
      BY <1>1
    <2>2. QED
      BY <2>1 DEF SeatRow
  <1>3. CASE p.at = q.at
    <2>1. /\ p.roll = q.roll + 1 /\ p.left = q.left - 1
          /\ q.left > 0 \/ q.at = Len(seats)
      BY <1>3 DEF After
    <2>2. p.roll >= 1 /\ q.roll < p.roll /\ p.roll + p.left = q.roll + q.left
      BY <1>1, <2>1
    <2>3. p.at # Len(seats) => p.left >= 0
      BY <1>1, <1>3, <2>1
    <2>4. QED
      BY <1>3, <2>2, <2>3 DEF Sooner
  <1>4. CASE p.at # q.at
    <2>1. /\ p.at > q.at /\ p.roll = 1 /\ p.left = m - 1
          /\ m > 0 \/ p.at = Len(seats)
      BY <1>2, <1>4 DEF After
    <2>2. q.at < p.at /\ p.roll >= 1 /\ p.roll + p.left = m
      BY <1>1, <1>2, <2>1
    <2>3. p.at # Len(seats) => p.left >= 0
      BY <1>2, <2>1
    <2>4. QED
      BY <1>2, <2>2, <2>3 DEF Sooner
  <1>5. QED
    BY <1>3, <1>4

\* Who is later on the list gets a later section, or a higher roll in the same.
LEMMA PlacesInOrder ==
  ASSUME NEW seats \in Seq(SeatRow), NEW n \in Nat, NEW p \in Places(seats, n),
         NEW i \in 1 .. n, NEW j \in 1 .. n, i < j
  PROVE  Sooner(p[i], p[j])
  <1>1. /\ p \in [0 .. n -> Place(seats)]
        /\ \A k \in 1 .. n : After(p[k - 1], p[k], seats)
    BY DEF Places
  <1>2. \A k \in 0 .. n : p[k].at \in Int /\ p[k].roll \in Int
    BY <1>1 DEF Place
  <1> DEFINE Bad == {k \in 1 .. n : i < k /\ ~ Sooner(p[i], p[k])}
  <1>3. Bad = {}
    <2> SUFFICES ASSUME Bad # {} PROVE FALSE
      OBVIOUS
    <2>1. Bad \in SUBSET Nat
      OBVIOUS
    <2>2. PICK m \in Bad : \A k \in Bad : m <= k
      <3> HIDE DEF Bad
      <3>1. QED
        BY <2>1, LeastNumber
    <2>3. m \in 1 .. n /\ i < m /\ ~ Sooner(p[i], p[m])
      OBVIOUS
    <2>4. m - 1 \in 1 .. n /\ i <= m - 1 /\ ~ (m <= m - 1)
      BY <2>3
    <2>5. i = m - 1 \/ Sooner(p[i], p[m - 1])
      BY <2>2, <2>4
    <2>6. After(p[m - 1], p[m], seats)
      BY <1>1, <2>3
    <2>7. /\ p[i].at \in Int /\ p[i].roll \in Int
          /\ p[m - 1].at \in Int /\ p[m - 1].roll \in Int
          /\ p[m].at \in Int /\ p[m].roll \in Int
      BY <1>2, <2>3, <2>4
    <2>8. Sooner(p[m - 1], p[m])
      BY <1>1, <2>3, <2>4, <2>6, AfterOne
    <2>9. Sooner(p[i], p[m])
      BY <2>5, <2>7, <2>8, SoonerTransitive
    <2>10. QED
      BY <2>3, <2>9
  <1>4. QED
    BY <1>3

\* Roll and seats left add up to the seats of the section, so that only the last
\* section can give a roll beyond its seats.
LEMMA RollsWithinSeats ==
  ASSUME NEW seats \in Seq(SeatRow), seats # <<>>, NEW n \in Nat,
         NEW p \in Places(seats, n), NEW i \in 1 .. n
  PROVE  /\ p[i].roll >= 1
         /\ p[i].at # Len(seats) => p[i].roll <= seats[p[i].at].seats
  <1>1. /\ p \in [0 .. n -> Place(seats)]
        /\ p[0] = FirstPlace(seats)
        /\ \A k \in 1 .. n : After(p[k - 1], p[k], seats)
    BY DEF Places
  <1>2. \A k \in 0 .. n : /\ p[k].at \in 1 .. Len(seats)
                          /\ p[k].left \in Int /\ p[k].roll \in Nat
    BY <1>1 DEF Place
  <1>3. \A k \in 1 .. Len(seats) : seats[k].seats \in Nat
    <2>1. \A k \in 1 .. Len(seats) : seats[k] \in SeatRow
      OBVIOUS
    <2>2. QED
      BY <2>1 DEF SeatRow
  <1>4. \A k \in 1 .. n : /\ k - 1 \in 0 .. n /\ k \in 0 .. n
                          /\ After(p[k - 1], p[k], seats)
    BY <1>1
  <1> DEFINE AddsUp(k) == p[k].roll + p[k].left = seats[p[k].at].seats
             Bad == {k \in 0 .. n : ~ AddsUp(k)}
  <1>5. AddsUp(0)
    <2>1. Len(seats) \in Nat /\ 1 \in 1 .. Len(seats)
      OBVIOUS
    <2>2. seats[1].seats \in Nat
      BY <1>3, <2>1
    <2>3. QED
      BY <1>1, <2>2 DEF FirstPlace
  <1>6. Bad = {}
    <2> SUFFICES ASSUME Bad # {} PROVE FALSE
      OBVIOUS
    <2>1. Bad \in SUBSET Nat
      OBVIOUS
    <2>2. PICK m \in Bad : \A k \in Bad : m <= k
      <3> HIDE DEF Bad
      <3>1. QED
        BY <2>1, LeastNumber
    <2>3. m \in 0 .. n /\ ~ AddsUp(m)
      OBVIOUS
    <2>4. m \in 1 .. n
      BY <1>5, <2>3
    <2>5. m - 1 \in 0 .. n /\ ~ (m <= m - 1)
      BY <2>4
    <2>6. AddsUp(m - 1)
      BY <2>2, <2>5
    <2>7. p[m] \in Place(seats) /\ p[m - 1] \in Place(seats)
      BY <1>1, <2>3, <2>5
    <2>8. After(p[m - 1], p[m], seats)
      BY <1>4, <2>4
    <2>9. AddsUp(m)
      BY <2>6, <2>7, <2>8, AfterOne
    <2>10. QED
      BY <2>3, <2>9
  <1>7. /\ p[i - 1] \in Place(seats) /\ p[i] \in Place(seats)
        /\ After(p[i - 1], p[i], seats)
    BY <1>1, <1>4
  <1>8. p[i].roll >= 1 /\ (p[i].at # Len(seats) => p[i].left >= 0)
    BY <1>7, AfterOne
  <1>9. PICK m \in Nat : m = seats[p[i].at].seats
    BY <1>2, <1>3
  <1>10. p[i].roll + p[i].left = m /\ p[i].roll \in Nat /\ p[i].left \in Int
    BY <1>2, <1>6, <1>9
  <1>11. p[i].at # Len(seats) => p[i].roll <= m
    BY <1>8, <1>9, <1>10
  <1>12. QED
    BY <1>8, <1>9, <1>11

-----------------------------------------------------------------------------
(* The type invariant                                                      *)

\* Sections by name: the rows of getSectionsForDistribution come in ascending order.
Ascending(seats) ==
  \A k, l \in DOMAIN seats : k < l => seats[k].section < seats[l].section

GenFits == Ascending(gen.seats)

PlacedInv == TypeOK /\ GenFits

LEMMA SeatsInNumber ==
  ASSUME TypeOK, NEW x \in Sections
  PROVE  SeatsIn(x) \in Nat
  <1>1. section[x].cap \in Nat
    <2>1. section[x] \in Section
      BY DEF TypeOK
    <2>2. QED
      BY <2>1, CapIsNumber DEF Section
  <1>2. Enrolled(x) \in Nat
    BY MembersAreStudents, StudentsCount DEF Enrolled
  <1>3. Unlimited \in Nat
    BY SeatsAssumption
  <1>4. QED
    BY <1>1, <1>2, <1>3 DEF SeatsIn, Full

LEMMA SeatsOfAscending ==
  ASSUME TypeOK, NEW c
  PROVE  SeatsOf(c) \in Seq(SeatRow) /\ Ascending(SeatsOf(c))
  <1> DEFINE open == SectionsOf(c)
             R == {z \in open \X open : z[1] < z[2]}
             Nth(i) == CHOOSE x \in open : Cardinality({y \in open : y < x}) = i - 1
  <1>1. open \in SUBSET Sections /\ Sections \in SUBSET Nat /\ IsFiniteSet(open)
    <2>1. open \in SUBSET Sections
      BY DEF SectionsOf
    <2>2. QED
      BY <2>1, SeatsAssumption, FS_Subset
  <1>2. PICK n \in Nat : n = Cardinality(open)
    BY <1>1, FS_CardinalityType
  <1>3. SeatsOf(c) = [i \in 1 .. n |-> [section |-> Nth(i), seats |-> SeatsIn(Nth(i))]]
    BY <1>2 DEF SeatsOf
  <1> HIDE DEF open
  <1>4. StrictOrder(open, R)
    <2>1. \A x, y \in open : x \in Nat /\ y \in Nat /\ (<<x, y>> \in R <=> x < y)
      BY <1>1
    <2> HIDE DEF R
    <2>2. QED
      BY <2>1 DEF StrictOrder
  <1>5. \A x \in open : Preceding(open, R, x) = {y \in open : y < x}
    BY DEF Preceding
  <1>6. PICK s \in Arranged(open, R) : TRUE
    BY <1>1, <1>4, ArrangedExists
  <1>7. ASSUME NEW i \in 1 .. n
        PROVE  Nth(i) \in open /\ Cardinality(Preceding(open, R, Nth(i))) = i - 1
    <2>1. s[i] \in open /\ Cardinality(Preceding(open, R, s[i])) = i - 1
      BY <1>1, <1>2, <1>4, PlaceIsCount
    <2>2. Cardinality({y \in open : y < s[i]}) = i - 1
      BY <1>5, <2>1
    <2>3. \E x \in open : Cardinality({y \in open : y < x}) = i - 1
      BY <2>1, <2>2
    <2>4. Nth(i) \in open /\ Cardinality({y \in open : y < Nth(i)}) = i - 1
      BY <2>3
    <2>5. QED
      BY <1>5, <2>4
  <1> HIDE DEF Nth
  <1>8. ASSUME NEW i \in 1 .. n, NEW j \in 1 .. n, i < j
        PROVE  Nth(i) < Nth(j)
    <2>1. /\ Nth(i) \in open /\ Cardinality(Preceding(open, R, Nth(i))) = i - 1
          /\ Nth(j) \in open /\ Cardinality(Preceding(open, R, Nth(j))) = j - 1
      BY <1>7
    <2>2. Nth(i) # Nth(j)
      BY <1>8, <2>1
    <2>3. ASSUME Nth(j) < Nth(i) PROVE FALSE
      <3>1. <<Nth(j), Nth(i)>> \in R
        BY <2>1, <2>3
      <3> HIDE DEF R
      <3>2. Cardinality(Preceding(open, R, Nth(j))) < Cardinality(Preceding(open, R, Nth(i)))
        BY <1>1, <1>4, <2>1, <3>1, PrecedingGrows
      <3>3. j - 1 < i - 1
        BY <2>1, <3>2
      <3>4. QED
        BY <1>8, <3>3
    <2>4. Nth(i) \in Nat /\ Nth(j) \in Nat
      BY <1>1, <2>1
    <2>5. QED
      BY <2>2, <2>3, <2>4
  <1>9. \A i \in 1 .. n : [section |-> Nth(i), seats |-> SeatsIn(Nth(i))] \in SeatRow
    BY <1>1, <1>7, SeatsInNumber DEF SeatRow
  <1>10. SeatsOf(c) \in Seq(SeatRow)
    BY <1>3, <1>9
  <1>11. Ascending(SeatsOf(c))
    BY <1>3, <1>8 DEF Ascending
  <1>12. QED
    BY <1>10, <1>11

\* The row that an entry of the list gets is a row of the table.
LEMMA AssignedType ==
  ASSUME TypeOK, NEW i \in DOMAIN gen.list
  PROVE  Assigned(i) \in Enrollment
  <1>1. /\ gen.list \in Seq(Students) /\ gen.seats \in Seq(SeatRow)
        /\ gen.direct \in Sections \cup {NoSection}
    BY DEF TypeOK, Gen, SeatRow
  <1>2. PICK n \in Nat : n = Len(gen.list)
    BY <1>1
  <1>3. i \in 1 .. n /\ gen.list[i] \in Students
    BY <1>1, <1>2
  <1> DEFINE row == enrollment[gen.list[i]]
  <1>4. row \in Enrollment
    BY <1>3 DEF TypeOK
  <1> HIDE DEF row
  <1>5. CASE gen.seats = <<>>
    <2>1. PICK x \in Sections \cup {NoSection} :
            x = IF gen.direct = NoSection THEN row.section ELSE gen.direct
      BY <1>1, <1>4 DEF Enrollment
    <2>2. Assigned(i) = [row EXCEPT !.roll = i, !.section = x]
      BY <1>4, <1>5, <2>1 DEF Assigned, row, Enrollment
    <2>3. i \in Nat
      BY <1>3
    <2>4. [row EXCEPT !.roll = i] \in Enrollment
      BY <1>4, <2>3 DEF Enrollment
    <2>5. [row EXCEPT !.roll = i, !.section = x] \in Enrollment
      BY <2>1, <2>4 DEF Enrollment
    <2>6. QED
      BY <2>2, <2>5
  <1>6. CASE gen.seats # <<>>
    <2>1. PICK p \in [0 .. n -> Place(gen.seats)] : Placement(gen.seats, n) = p
      BY <1>1, <1>6, PlacesFollow
    <2>2. p[i] \in Place(gen.seats)
      BY <1>3
    <2>3. p[i].at \in 1 .. Len(gen.seats) /\ p[i].roll \in Nat
      BY <2>2 DEF Place
    <2>4. gen.seats[p[i].at] \in SeatRow
      BY <1>1, <2>3
    <2>5. gen.seats[p[i].at].section \in Sections
      BY <2>4 DEF SeatRow
    <2>6. Assigned(i) = [row EXCEPT !.roll = p[i].roll,
                                    !.section = gen.seats[p[i].at].section]
      BY <1>2, <1>6, <2>1 DEF Assigned, row
    <2>7. QED
      BY <1>4, <2>3, <2>5, <2>6 DEF Enrollment
  <1>7. QED
    BY <1>5, <1>6

\* Whichever way it was combined, a ranking is a sequence of students.
LEMMA CombinedIsList ==
  ASSUME NEW c, NEW list \in CombinedRankings(c)
  PROVE  list \in Seq(Students)
  <1>1. Present \in SUBSET Students /\ Fresh(c) \in SUBSET Students
    BY DEF Present, Fresh
  <1>2. ASSUME NEW S \in SUBSET Students, NEW o \in SetToSeqs(S)
        PROVE  o \in Seq(Students)
    <2>1. Cardinality(S) \in Nat
      BY SeatsAssumption, FS_Subset, FS_CardinalityType
    <2>2. o \in [1 .. Cardinality(S) -> S]
      BY DEF SetToSeqs
    <2>3. o \in [1 .. Cardinality(S) -> Students]
      BY <2>2
    <2>4. QED
      BY <2>1, <2>3
  <1>3. CASE list \in MeritThenFifo(c)
    <2>1. PICK merit \in SetToAllKPermutations(Present), fifo \in SetToSeqs(Fresh(c)) :
            list = merit \o fifo
      BY <1>3 DEF MeritThenFifo
    <2>2. PICK S \in SUBSET Present : merit \in SetToSeqs(S)
      BY <2>1 DEF SetToAllKPermutations
    <2>3. S \in SUBSET Students
      BY <1>1, <2>2
    <2>4. merit \in Seq(Students) /\ fifo \in Seq(Students)
      BY <1>1, <1>2, <2>2, <2>3
    <2>5. QED
      BY <2>1, <2>4
  <1>4. CASE list \in Merged
    <2>1. list \in SeqOf(Present, 2 * Cardinality(Present))
      BY <1>4 DEF Merged
    <2>2. PICK m \in 0 .. 2 * Cardinality(Present) : list \in [1 .. m -> Present]
      BY <2>1 DEF SeqOf
    <2>3. Cardinality(Present) \in Nat
      BY <1>1, SeatsAssumption, FS_Subset, FS_CardinalityType
    <2>4. m \in Nat /\ list \in [1 .. m -> Students]
      BY <1>1, <2>2, <2>3
    <2>5. QED
      BY <2>4
  <1>5. QED
    BY <1>3, <1>4 DEF CombinedRankings

\* A listed student has a last entry.
LEMMA LastEntry ==
  ASSUME TypeOK, NEW s \in Listed
  PROVE  /\ s \in Students
         /\ LastOf(s) \in DOMAIN gen.list /\ gen.list[LastOf(s)] = s
  <1>1. gen.list \in Seq(Students)
    BY DEF TypeOK, Gen
  <1>2. PICK n \in Nat : n = Len(gen.list)
    BY <1>1
  <1>3. DOMAIN gen.list = 1 .. n
    BY <1>1, <1>2
  <1> DEFINE Behind == {n - i : i \in {j \in 1 .. n : gen.list[j] = s}}
  <1>4. Behind \in SUBSET Nat /\ Behind # {}
    BY <1>3 DEF Listed
  <1>5. PICK k \in Behind : \A l \in Behind : k <= l
    <2> HIDE DEF Behind
    <2>1. QED
      BY <1>4, LeastNumber
  <1>6. PICK i \in 1 .. n : gen.list[i] = s /\ k = n - i
    BY <1>5
  <1>7. \A j \in 1 .. n : gen.list[j] = s => n - i <= n - j
    BY <1>5, <1>6
  <1>8. \A j \in 1 .. n : gen.list[j] = s => j <= i
    BY <1>7
  <1>9. \E m \in DOMAIN gen.list :
          gen.list[m] = s /\ \A j \in DOMAIN gen.list : gen.list[j] = s => j <= m
    BY <1>3, <1>6, <1>8
  <1>10. LastOf(s) \in DOMAIN gen.list /\ gen.list[LastOf(s)] = s
    BY <1>9 DEF LastOf
  <1>11. QED
    BY <1>1, <1>10

LEMMA TaskOf ==
  ASSUME TypeOK, NEW r \in Requests
  PROVE  /\ task[r].op = "create" => task[r] \in CreateTask
         /\ task[r].op = "move" => task[r] \in MoveTask
         /\ task[r].op = "cap" => task[r] \in CapTask
         /\ task[r].op = "drop" => task[r] \in DropTask
  <1>1. task[r] \in Task
    BY DEF TypeOK
  <1>2. QED
    BY <1>1 DEF Task, CreateTask, MoveTask, CapTask, DropTask

LEMMA EnrollingKeepsType ==
  ASSUME PlacedInv, Enrolling
  PROVE  PlacedInv'
  <1>1. /\ enrollment \in [Students -> Enrollment]
        /\ task \in [Requests -> Task]
        /\ Idle \in Task
    BY DEF PlacedInv, TypeOK, Task, Idle
  <1>2. UNCHANGED <<section, gen, generations>>
    BY DEF Enrolling, CreateCheck, MoveCheck, CreateInsert, MoveWrite, DeleteEnrollment
  <1>3. SUFFICES /\ enrollment' \in [Students -> Enrollment]
                 /\ task' \in [Requests -> Task]
    BY <1>2 DEF PlacedInv, TypeOK, GenFits
  <1>4. ASSUME NEW r \in Requests, NEW s \in Students, NEW c \in Classes,
               NEW x \in Sections \cup {NoSection}, CreateCheck(r, s, c, x)
        PROVE  enrollment' = enrollment /\ task' \in [Requests -> Task]
    <2>1. [op |-> "create", student |-> s, class |-> c, section |-> x] \in Task
      BY DEF Task, CreateTask
    <2>2. QED
      BY <1>1, <1>4, <2>1 DEF CreateCheck, Begin
  <1>5. ASSUME NEW r \in Requests, NEW s \in Students, NEW c \in Classes \cup {Keep},
               NEW x \in Sections \cup {NoSection, Keep}, MoveCheck(r, s, c, x)
        PROVE  enrollment' = enrollment /\ task' \in [Requests -> Task]
    <2>1. [op |-> "move", student |-> s, class |-> c, section |-> x] \in Task
      BY DEF Task, MoveTask
    <2>2. QED
      BY <1>1, <1>5, <2>1 DEF MoveCheck, Begin
  <1>6. ASSUME NEW r \in Requests, CreateInsert(r)
        PROVE  /\ enrollment' \in [Students -> Enrollment]
               /\ task' \in [Requests -> Task]
    <2>1. task[r] \in CreateTask
      BY <1>6, TaskOf DEF CreateInsert, PlacedInv
    <2> DEFINE row == [state |-> "live", class |-> task[r].class,
                       section |-> task[r].section, roll |-> 0]
    <2>2. row \in Enrollment /\ task[r].student \in Students
      BY <2>1 DEF CreateTask, Enrollment
    <2>3. enrollment' = [enrollment EXCEPT ![task[r].student] = row]
            \/ enrollment' = enrollment
      BY <1>6 DEF CreateInsert
    <2>4. task' = [task EXCEPT ![r] = Idle]
      BY <1>6 DEF CreateInsert, End
    <2> HIDE DEF row
    <2>5. QED
      BY <1>1, <2>2, <2>3, <2>4
  <1>7. ASSUME NEW r \in Requests, MoveWrite(r)
        PROVE  /\ enrollment' \in [Students -> Enrollment]
               /\ task' \in [Requests -> Task]
    <2>1. task[r] \in MoveTask
      BY <1>7, TaskOf DEF MoveWrite, PlacedInv
    <2>2. PICK s \in Students : s = task[r].student
      BY <2>1 DEF MoveTask
    <2>3. enrollment[s] \in Enrollment
      BY <1>1
    <2>4. PICK c \in Classes \cup {Keep} :
            c = IF task[r].class = Keep THEN enrollment[s].class ELSE task[r].class
      BY <2>1, <2>3 DEF MoveTask, Enrollment
    <2>5. PICK x \in Sections \cup {NoSection} :
            x = IF task[r].section = Keep THEN enrollment[s].section ELSE task[r].section
      BY <2>1, <2>3 DEF MoveTask, Enrollment
    <2> DEFINE row == [[enrollment[s] EXCEPT !.class = c] EXCEPT !.section = x]
    <2>6. row \in Enrollment
      BY <2>3, <2>4, <2>5 DEF Enrollment
    <2>7. enrollment' = [enrollment EXCEPT ![s] = row] \/ enrollment' = enrollment
      BY <1>1, <1>7, <2>2, <2>3, <2>4, <2>5 DEF MoveWrite, Enrollment
    <2>8. task' = [task EXCEPT ![r] = Idle]
      BY <1>7 DEF MoveWrite, End
    <2> HIDE DEF row
    <2>9. QED
      BY <1>1, <2>6, <2>7, <2>8
  <1>8. ASSUME NEW s \in Students, DeleteEnrollment(s)
        PROVE  /\ enrollment' \in [Students -> Enrollment]
               /\ task' = task
    <2>1. enrollment[s] \in Enrollment
      BY <1>1
    <2>2. [enrollment[s] EXCEPT !.state = "deleted"] \in Enrollment
      BY <2>1 DEF Enrollment
    <2>3. QED
      BY <1>1, <1>8, <2>2 DEF DeleteEnrollment
  <1>9. QED
    BY <1>1, <1>4, <1>5, <1>6, <1>7, <1>8 DEF Enrolling

LEMMA AdministeringKeepsType ==
  ASSUME PlacedInv, Administering
  PROVE  PlacedInv'
  <1>1. /\ section \in [Sections -> Section]
        /\ task \in [Requests -> Task]
        /\ Idle \in Task
    BY DEF PlacedInv, TypeOK, Task, Idle
  <1>2. UNCHANGED <<enrollment, gen, generations>>
    BY DEF Administering, CreateSection, CapCheck, DropCheck, CapWrite, DropWrite
  <1>3. SUFFICES /\ section' \in [Sections -> Section]
                 /\ task' \in [Requests -> Task]
    BY <1>2 DEF PlacedInv, TypeOK, GenFits
  <1>4. ASSUME NEW x \in Sections, NEW cap \in Capacities \cup {Unlimited},
               CreateSection(x, cap)
        PROVE  section' \in [Sections -> Section] /\ task' = task
    <2>1. [state |-> "live", cap |-> cap] \in Section
      BY DEF Section
    <2>2. QED
      BY <1>1, <1>4, <2>1 DEF CreateSection
  <1>5. ASSUME NEW r \in Requests, NEW x \in Sections,
               NEW cap \in Capacities \cup {Unlimited}, CapCheck(r, x, cap)
        PROVE  section' = section /\ task' \in [Requests -> Task]
    <2>1. [op |-> "cap", section |-> x, cap |-> cap] \in Task
      BY DEF Task, CapTask
    <2>2. QED
      BY <1>1, <1>5, <2>1 DEF CapCheck, Begin
  <1>6. ASSUME NEW r \in Requests, NEW x \in Sections, DropCheck(r, x)
        PROVE  section' = section /\ task' \in [Requests -> Task]
    <2>1. [op |-> "drop", section |-> x] \in Task
      BY DEF Task, DropTask
    <2>2. QED
      BY <1>1, <1>6, <2>1 DEF DropCheck, Begin
  <1>7. ASSUME NEW r \in Requests, CapWrite(r)
        PROVE  section' \in [Sections -> Section] /\ task' \in [Requests -> Task]
    <2>1. task[r] \in CapTask
      BY <1>7, TaskOf DEF CapWrite, PlacedInv
    <2>2. PICK x \in Sections : x = task[r].section
      BY <2>1 DEF CapTask
    <2>3. PICK cap \in Capacities \cup {Unlimited} : cap = task[r].cap
      BY <2>1 DEF CapTask
    <2>4. [section[x] EXCEPT !.cap = cap] \in Section
      BY <1>1 DEF Section
    <2>5. \/ section' = [section EXCEPT ![x] = [section[x] EXCEPT !.cap = cap]]
          \/ section' = section
      BY <1>1, <1>7, <2>2, <2>3 DEF CapWrite
    <2>6. task' = [task EXCEPT ![r] = Idle]
      BY <1>7 DEF CapWrite, End
    <2>7. QED
      BY <1>1, <2>4, <2>5, <2>6
  <1>8. ASSUME NEW r \in Requests, DropWrite(r)
        PROVE  section' \in [Sections -> Section] /\ task' \in [Requests -> Task]
    <2>1. task[r] \in DropTask
      BY <1>8, TaskOf DEF DropWrite, PlacedInv
    <2>2. PICK x \in Sections : x = task[r].section
      BY <2>1 DEF DropTask
    <2>3. [section[x] EXCEPT !.state = "deleted"] \in Section
      BY <1>1 DEF Section
    <2>4. \/ section' = [section EXCEPT ![x] = [section[x] EXCEPT !.state = "deleted"]]
          \/ section' = section
      BY <1>1, <1>8, <2>2 DEF DropWrite
    <2>5. task' = [task EXCEPT ![r] = Idle]
      BY <1>8 DEF DropWrite, End
    <2>6. QED
      BY <1>1, <2>3, <2>4, <2>5
  <1>9. QED
    BY <1>1, <1>4, <1>5, <1>6, <1>7, <1>8 DEF Administering

LEMMA GeneratingKeepsType ==
  ASSUME PlacedInv, Generating
  PROVE  PlacedInv'
  <1>1. /\ TypeOK /\ enrollment \in [Students -> Enrollment]
        /\ section \in [Sections -> Section] /\ task \in [Requests -> Task]
        /\ gen \in Gen /\ generations \in 0 .. MaxGenerations /\ MaxGenerations \in Nat
    BY SeatsAssumption DEF PlacedInv, TypeOK
  <1>2. UNCHANGED <<section, task>>
    BY DEF Generating, Rank, TxSections, TxCommit, TxRollback
  <1>3. /\ <<>> \in Seq(Students) /\ <<>> \in Seq(SeatRow) /\ Ascending(<<>>)
    BY DEF Ascending
  <1>4. SUFFICES /\ enrollment' \in [Students -> Enrollment]
                 /\ gen' \in Gen /\ GenFits'
                 /\ generations' \in 0 .. MaxGenerations
    BY <1>1, <1>2 DEF PlacedInv, TypeOK
  <1>5. ASSUME NEW c \in Classes, NEW direct \in Sections \cup {NoSection},
               NEW list \in CombinedRankings(c), Rank(c, direct, list)
        PROVE  /\ enrollment' = enrollment
               /\ gen' \in Gen /\ GenFits'
               /\ generations' \in 0 .. MaxGenerations
    <2>1. /\ enrollment' = enrollment
          /\ generations < MaxGenerations /\ generations' = generations + 1
          /\ gen' = [phase |-> "listed", class |-> c, direct |-> direct, list |-> list,
                     seats |-> <<>>]
      BY <1>5 DEF Rank
    <2>2. list \in Seq(Students)
      BY CombinedIsList
    <2>3. gen' \in Gen
      BY <1>3, <2>1, <2>2 DEF Gen, SeatRow
    <2>4. GenFits'
      BY <1>3, <2>1 DEF GenFits
    <2>5. QED
      BY <1>1, <2>1, <2>3, <2>4
  <1>6. ASSUME TxSections
        PROVE  /\ enrollment' = enrollment
               /\ gen' \in Gen /\ GenFits'
               /\ generations' = generations
    <2>1. PICK seats \in Seq(SeatRow) :
            /\ seats = IF gen.direct = NoSection THEN SeatsOf(gen.class) ELSE <<>>
            /\ Ascending(seats)
      BY <1>1, <1>3, SeatsOfAscending
    <2>2. gen' = [[gen EXCEPT !.phase = "read"] EXCEPT !.seats = seats]
      BY <1>1, <1>6, <2>1 DEF TxSections, Gen
    <2>3. gen' \in Gen /\ gen'.list = gen.list /\ gen'.seats = seats
      BY <1>1, <2>2 DEF Gen, SeatRow
    <2>4. GenFits'
      BY <2>1, <2>3 DEF GenFits, PlacedInv
    <2>5. QED
      BY <1>6, <2>3, <2>4 DEF TxSections
  <1>7. ASSUME TxCommit
        PROVE  /\ enrollment' \in [Students -> Enrollment]
               /\ gen' \in Gen /\ GenFits'
               /\ generations' = generations
    <2>1. ASSUME NEW s \in Students
          PROVE  (IF Live(s) /\ s \in Listed THEN Assigned(LastOf(s)) ELSE enrollment[s])
                   \in Enrollment
      <3>1. CASE s \in Listed
        <4>1. Assigned(LastOf(s)) \in Enrollment
          BY <1>1, <3>1, LastEntry, AssignedType
        <4>2. enrollment[s] \in Enrollment
          BY <1>1
        <4>3. QED
          BY <4>1, <4>2
      <3>2. CASE s \notin Listed
        BY <1>1, <3>2
      <3>3. QED
        BY <3>1, <3>2
    <2>2. enrollment' \in [Students -> Enrollment]
      BY <1>7, <2>1 DEF TxCommit
    <2>3. gen' = NoGen /\ generations' = generations
      BY <1>7 DEF TxCommit
    <2>4. NoGen \in Gen
      BY <1>3 DEF NoGen, Gen, SeatRow
    <2>5. GenFits'
      BY <1>3, <2>3 DEF GenFits, NoGen
    <2>6. QED
      BY <2>2, <2>3, <2>4, <2>5
  <1>8. ASSUME TxRollback
        PROVE  /\ enrollment' = enrollment
               /\ gen' \in Gen /\ GenFits'
               /\ generations' = generations
    <2>1. gen' = [[gen EXCEPT !.phase = "listed"] EXCEPT !.seats = <<>>]
      BY <1>1, <1>8 DEF TxRollback, Gen
    <2>2. gen' \in Gen /\ gen'.list = gen.list /\ gen'.seats = <<>>
      BY <1>1, <1>3, <2>1 DEF Gen, SeatRow
    <2>3. GenFits'
      BY <1>3, <2>2 DEF GenFits, PlacedInv
    <2>4. QED
      BY <1>8, <2>2, <2>3 DEF TxRollback
  <1>9. QED
    BY <1>1, <1>5, <1>6, <1>7, <1>8 DEF Generating

LEMMA PlacedInit == Init => PlacedInv
  <1> SUFFICES ASSUME Init PROVE PlacedInv
    OBVIOUS
  <1>1. /\ NotEnrolled \in Enrollment /\ Idle \in Task
        /\ <<>> \in Seq(Students) /\ <<>> \in Seq(SeatRow)
    BY DEF NotEnrolled, Enrollment, Idle, Task
  <1>2. NoGen \in Gen
    BY <1>1 DEF NoGen, Gen, SeatRow
  <1>3. GenFits
    BY DEF Init, GenFits, NoGen, Ascending
  <1>4. 0 \in 0 .. MaxGenerations
    BY SeatsAssumption
  <1>5. QED
    BY <1>1, <1>2, <1>3, <1>4 DEF Init, PlacedInv, TypeOK

LEMMA PlacedStep ==
  ASSUME PlacedInv, [Next]_vars
  PROVE  PlacedInv'
  <1>1. CASE UNCHANGED vars
    BY <1>1 DEF vars, PlacedInv, TypeOK, GenFits
  <1>2. QED
    BY <1>1, EnrollingKeepsType, AdministeringKeepsType, GeneratingKeepsType DEF Next

LEMMA PlacedInvariant == Spec => []PlacedInv
  <1>1. PlacedInv /\ [Next]_vars => PlacedInv'
    BY PlacedStep
  <1>2. QED
    BY <1>1, PlacedInit, PTL DEF Spec

\* Whatever overlaps, every row, task, list and place is one of its kind: the loop
\* of the roll engine ends for every list and any seats (roll.engine.ts:135).
THEOREM SeatTypeCorrect == Spec => []TypeOK
  <1>1. PlacedInv => TypeOK
    BY DEF PlacedInv
  <1>2. QED
    BY <1>1, PlacedInvariant, PTL

-----------------------------------------------------------------------------
(* What a distribution leaves                                              *)

\* A distribution that commits gives the live students of its list the places of
\* their last entries.
LEMMA CommittedPlaces ==
  ASSUME PlacedInv, [Next]_vars, Committing
  PROVE  \E p \in Places(gen.seats, Len(gen.list)) :
           \A s \in Listed :
             /\ enrollment'[s].state = "live" => Live(s)
             /\ Live(s) =>
                  /\ enrollment'[s].section = gen.seats[p[LastOf(s)].at].section
                  /\ enrollment'[s].roll = p[LastOf(s)].roll
  <1>1. /\ gen.phase = "read" /\ gen'.phase = "idle" /\ gen.seats # <<>>
        /\ TypeOK /\ gen \in Gen
    BY DEF Committing, PlacedInv, TypeOK
  <1>2. TxCommit
    <2>1. gen' # gen
      BY <1>1
    <2>2. ~ Enrolling
      BY <2>1 DEF Enrolling, CreateCheck, MoveCheck, CreateInsert, MoveWrite,
                  DeleteEnrollment
    <2>3. ~ Administering
      BY <2>1 DEF Administering, CreateSection, CapCheck, DropCheck, CapWrite, DropWrite
    <2>4. Generating
      BY <2>1, <2>2, <2>3 DEF Next, vars
    <2>5. ~ TxRollback
      BY <1>1 DEF TxRollback, Gen
    <2>6. ~ TxSections
      BY <1>1 DEF TxSections
    <2>7. QED
      BY <1>1, <2>4, <2>5, <2>6 DEF Generating, Rank
  <1>3. gen.list \in Seq(Students) /\ gen.seats \in Seq(SeatRow)
    BY <1>1 DEF Gen, SeatRow
  <1>4. PICK n \in Nat : n = Len(gen.list)
    BY <1>3
  <1>5. PICK p \in Places(gen.seats, n) : Placement(gen.seats, n) = p
    BY <1>1, <1>3, PlacesFollow DEF Places
  <1>6. ASSUME NEW s \in Listed
        PROVE  /\ enrollment'[s].state = "live" => Live(s)
               /\ Live(s) =>
                    /\ enrollment'[s].section = gen.seats[p[LastOf(s)].at].section
                    /\ enrollment'[s].roll = p[LastOf(s)].roll
    <2>1. PICK i \in DOMAIN gen.list : i = LastOf(s) /\ gen.list[i] = s /\ s \in Students
      BY <1>1, LastEntry
    <2>2. enrollment'[s] = IF Live(s) THEN Assigned(i) ELSE enrollment[s]
      BY <1>2, <2>1 DEF TxCommit
    <2>3. Assigned(i) = [enrollment[s] EXCEPT !.roll = p[i].roll,
                                    !.section = gen.seats[p[i].at].section]
      BY <1>1, <1>4, <1>5, <2>1 DEF Assigned
    <2>4. enrollment[s] \in Enrollment
      BY <1>1, <2>1 DEF TypeOK
    <2>5. /\ Assigned(i).roll = p[i].roll
          /\ Assigned(i).section = gen.seats[p[i].at].section
      BY <2>3, <2>4 DEF Enrollment
    <2>6. ~ Live(s) => enrollment'[s].state # "live"
      BY <2>2 DEF Live
    <2>7. QED
      BY <2>1, <2>2, <2>5, <2>6
  <1>7. QED
    BY <1>4, <1>5, <1>6

\* The section of a seat tells which it is.
LEMMA SeatOfSection ==
  ASSUME PlacedInv, NEW k \in DOMAIN gen.seats, NEW l \in DOMAIN gen.seats
  PROVE  /\ gen.seats[k].section \in Nat
         /\ k < l => gen.seats[k].section < gen.seats[l].section
         /\ gen.seats[k].section = gen.seats[l].section => k = l
  <1>1. gen.seats \in Seq(SeatRow) /\ Ascending(gen.seats)
    BY DEF PlacedInv, TypeOK, Gen, SeatRow, GenFits
  <1>2. gen.seats[k] \in SeatRow /\ gen.seats[l] \in SeatRow
        /\ k \in Nat /\ l \in Nat
    BY <1>1
  <1>3. gen.seats[k].section \in Nat /\ gen.seats[l].section \in Nat
    BY <1>2, SeatsAssumption DEF SeatRow
  <1>4. /\ k < l => gen.seats[k].section < gen.seats[l].section
        /\ l < k => gen.seats[l].section < gen.seats[k].section
    BY <1>1 DEF Ascending
  <1>5. gen.seats[k].section = gen.seats[l].section => k = l
    BY <1>2, <1>3, <1>4
  <1>6. QED
    BY <1>3, <1>4, <1>5

LEMMA RankedSeats ==
  ASSUME PlacedInv, [Next]_vars, Committing,
         NEW s \in Listed, NEW t \in Listed, LastOf(s) < LastOf(t),
         enrollment'[s].state = "live", enrollment'[t].state = "live"
  PROVE  Before(enrollment'[s], enrollment'[t])
  <1>1. gen.seats \in Seq(SeatRow) /\ gen.list \in Seq(Students) /\ TypeOK
    BY DEF PlacedInv, TypeOK, Gen, SeatRow
  <1>2. PICK n \in Nat : n = Len(gen.list)
    BY <1>1
  <1>3. PICK i \in 1 .. n, j \in 1 .. n : i = LastOf(s) /\ j = LastOf(t)
    BY <1>1, <1>2, LastEntry
  <1>4. PICK p \in Places(gen.seats, n) :
          \A x \in Listed :
            /\ enrollment'[x].state = "live" => Live(x)
            /\ Live(x) =>
                 /\ enrollment'[x].section = gen.seats[p[LastOf(x)].at].section
                 /\ enrollment'[x].roll = p[LastOf(x)].roll
    BY <1>2, CommittedPlaces
  <1>5. /\ enrollment'[s].section = gen.seats[p[i].at].section
        /\ enrollment'[s].roll = p[i].roll
        /\ enrollment'[t].section = gen.seats[p[j].at].section
        /\ enrollment'[t].roll = p[j].roll
    BY <1>3, <1>4
  <1>6. Sooner(p[i], p[j])
    BY <1>1, <1>3, PlacesInOrder
  <1>7. p[i].at \in DOMAIN gen.seats /\ p[j].at \in DOMAIN gen.seats
    <2>1. p[i] \in Place(gen.seats) /\ p[j] \in Place(gen.seats)
      BY <1>3 DEF Places
    <2>2. QED
      BY <1>1, <2>1 DEF Place
  <1>8. CASE p[i].at < p[j].at
    <2>1. gen.seats[p[i].at].section < gen.seats[p[j].at].section
      BY <1>7, <1>8, SeatOfSection
    <2>2. QED
      BY <1>5, <2>1 DEF Before
  <1>9. CASE p[i].at = p[j].at /\ p[i].roll < p[j].roll
    BY <1>5, <1>9 DEF Before
  <1>10. QED
    BY <1>6, <1>8, <1>9 DEF Sooner

\* A distribution keeps the order of the last entries of its list, for any sections
\* and capacities, however often a student is listed, and whatever was enrolled,
\* moved or deleted since the list was made (roll.engine.ts:135).
THEOREM SeatsAlwaysByRank == Spec => SeatsByRank
  <1>1. PlacedInv /\ [Next]_vars =>
          [Committing =>
             \A s, t \in Listed :
               LET a == enrollment'[s]
                   b == enrollment'[t]
               IN  LastOf(s) < LastOf(t) /\ a.state = "live" /\ b.state = "live" =>
                     Before(a, b)]_vars
    BY RankedSeats
  <1>2. QED
    BY <1>1, PlacedInvariant, PTL DEF Spec, SeatsByRank

LEMMA SeatsTaken ==
  ASSUME PlacedInv, [Next]_vars, Committing, NEW k \in 1 .. (Len(gen.seats) - 1)
  PROVE  Cardinality({s \in Listed :
            Live(s) /\ enrollment'[s].section = gen.seats[k].section})
          <= gen.seats[k].seats
  <1>1. /\ gen.seats \in Seq(SeatRow) /\ gen.list \in Seq(Students)
        /\ gen.seats # <<>> /\ TypeOK
    BY DEF PlacedInv, TypeOK, Gen, SeatRow, Committing
  <1>2. PICK n \in Nat : n = Len(gen.list)
    BY <1>1
  <1>3. /\ k \in DOMAIN gen.seats /\ k # Len(gen.seats)
        /\ gen.seats[k] \in SeatRow
    BY <1>1
  <1>4. PICK m \in Nat : m = gen.seats[k].seats
    BY <1>3 DEF SeatRow
  <1>5. PICK p \in Places(gen.seats, n) :
          \A s \in Listed :
            Live(s) => enrollment'[s].section = gen.seats[p[LastOf(s)].at].section
    BY <1>2, CommittedPlaces
  <1> DEFINE T == {s \in Listed :
                     Live(s) /\ enrollment'[s].section = gen.seats[k].section}
             f == [s \in T |-> p[LastOf(s)].roll]
  <1>6. ASSUME NEW s \in T
        PROVE  /\ LastOf(s) \in 1 .. n /\ gen.list[LastOf(s)] = s
               /\ p[LastOf(s)].at = k /\ p[LastOf(s)].roll \in 1 .. m
    <2>1. PICK i \in 1 .. n : i = LastOf(s) /\ gen.list[i] = s
      BY <1>1, <1>2, LastEntry
    <2>2. gen.seats[p[i].at].section = gen.seats[k].section
      BY <1>5, <2>1
    <2>3. p[i] \in Place(gen.seats)
      BY <2>1 DEF Places
    <2>4. p[i].at \in DOMAIN gen.seats /\ p[i].roll \in Nat
      BY <1>1, <2>3 DEF Place
    <2>5. p[i].at = k
      BY <1>3, <2>2, <2>4, SeatOfSection
    <2>6. /\ p[i].roll >= 1
          /\ p[i].at # Len(gen.seats) => p[i].roll <= gen.seats[p[i].at].seats
      BY <1>1, <2>1, RollsWithinSeats
    <2>7. p[i].roll >= 1 /\ p[i].roll <= m
      BY <1>3, <1>4, <2>5, <2>6
    <2>8. QED
      BY <1>4, <2>1, <2>4, <2>5, <2>7
  <1>7. f \in [T -> 1 .. m]
    BY <1>6
  <1>8. ASSUME NEW s \in T, NEW t \in T, f[s] = f[t]
        PROVE  s = t
    <2>1. PICK i \in 1 .. n, j \in 1 .. n :
            /\ i = LastOf(s) /\ j = LastOf(t)
            /\ gen.list[i] = s /\ gen.list[j] = t
      BY <1>6
    <2>2. /\ p[i].at = k /\ p[j].at = k
          /\ p[i].roll = p[j].roll /\ p[i].roll \in 1 .. m
      BY <1>6, <1>8, <2>1
    <2>3. k \in Int
      BY <1>3
    <2>4. ~ Sooner(p[i], p[j]) /\ ~ Sooner(p[j], p[i])
      BY <2>2, <2>3 DEF Sooner
    <2>5. ~ (i < j) /\ ~ (j < i)
      BY <1>1, <2>4, PlacesInOrder
    <2>6. i = j
      BY <2>5
    <2>7. QED
      BY <2>1, <2>6
  <1> HIDE DEF f, T
  <1>9. f \in Injection(T, 1 .. m)
    BY <1>7, <1>8, Fun_IsInj
  <1>10. IsFiniteSet(1 .. m) /\ Cardinality(1 .. m) = m
    <2>1. 1 \in Int /\ m \in Int /\ m >= 0
      BY <1>4
    <2>2. /\ IsFiniteSet(1 .. m)
          /\ Cardinality(1 .. m) = IF 1 > m THEN 0 ELSE m - 1 + 1
      BY <2>1, FS_Interval
    <2>3. QED
      BY <2>1, <2>2
  <1>11. Cardinality(T) <= m
    BY <1>9, <1>10, FS_Injection
  <1>12. QED
    BY <1>4, <1>11 DEF T

\* Only the last section of a class takes more students than the seats that were
\* read, for any list, sections and capacities (roll.engine.ts:135).
THEOREM OnlyTheLastOverflows == Spec => OnlyLastOverflows
  <1>1. PlacedInv /\ [Next]_vars =>
          [Committing =>
             \A k \in 1 .. (Len(gen.seats) - 1) :
               Cardinality({s \in Listed :
                   Live(s) /\ enrollment'[s].section = gen.seats[k].section})
                 <= gen.seats[k].seats]_vars
    BY SeatsTaken
  <1>2. QED
    BY <1>1, PlacedInvariant, PTL DEF Spec, OnlyLastOverflows
=============================================================================
