---------------------------- MODULE SectionSeats ----------------------------
(***************************************************************************)
(* Who sits in which section, in one academic session: the enrollment and  *)
(* section services, whose handlers check with one statement and write     *)
(* with a later one, and the roll engine, which moves a ranked list of     *)
(* students into the sections of a class.                                  *)
(***************************************************************************)
EXTENDS Integers, Sequences, FiniteSets, SequencesExt

CONSTANTS
  Students,
  Classes,
  Sections,    \* sections.id, as the numbers that order their names
  ClassOf,     \* sections.class_id
  NoSection,   \* a NULL section_id
  Keep,        \* a field the PATCH does not mention
  Capacities,  \* values of max_capacity
  Unlimited,   \* a NULL max_capacity; no class has that many students
  Requests,    \* requests in flight at a time
  AdmissionTests, \* values of admission_test_enabled
  MaxGenerations  \* bound: roll generations

ASSUME SeatsAssumption ==
  /\ IsFiniteSet(Students)
  /\ IsFiniteSet(Sections)
  /\ Sections \subseteq Nat
  /\ ClassOf \in [Sections -> Classes]
  /\ NoSection \notin Sections
  /\ Keep \notin Sections /\ Keep \notin Classes /\ Keep # NoSection
  /\ Capacities \subseteq Nat \ {0}
  /\ Unlimited \in Nat
  /\ \A c \in Capacities : c < Unlimited
  /\ Cardinality(Students) < Unlimited
  /\ IsFiniteSet(Requests)
  /\ AdmissionTests \subseteq BOOLEAN
  /\ MaxGenerations \in Nat

VARIABLES
  enrollment, \* the row of student_enrollments of each student
  section,    \* the row of sections of each section
  task,       \* what each request has checked and is about to write
  gen,        \* the roll job: its list, and the seats it has read
  generations \* counts what MaxGenerations bounds

vars == <<enrollment, section, task, gen, generations>>

-----------------------------------------------------------------------------
(* Rows                                                                    *)

\* UNIQUE (student_id, academic_session_id) counts soft-deleted rows too.
Enrollment == [state: {"none", "live", "deleted"}, class: Classes \cup {Keep},
               section: Sections \cup {NoSection}, roll: Nat]
NotEnrolled == [state |-> "none", class |-> Keep, section |-> NoSection, roll |-> 0]

Section == [state: {"none", "live", "deleted"}, cap: Capacities \cup {Unlimited}]

CreateTask == [op: {"create"}, student: Students, class: Classes,
               section: Sections \cup {NoSection}]
MoveTask == [op: {"move"}, student: Students, class: Classes \cup {Keep},
             section: Sections \cup {NoSection, Keep}]
CapTask  == [op: {"cap"}, section: Sections, cap: Capacities \cup {Unlimited}]
DropTask == [op: {"drop"}, section: Sections]
Task == CreateTask \cup MoveTask \cup CapTask \cup DropTask \cup {[op |-> "idle"]}
Idle == [op |-> "idle"]

\* A roll job: a ranked list waits, the seats are read, the rolls are written.
Gen == [phase: {"idle", "listed", "read"}, class: Classes \cup {Keep},
        direct: Sections \cup {NoSection}, list: Seq(Students),
        seats: Seq([section: Sections, seats: Nat])]
NoGen == [phase |-> "idle", class |-> Keep, direct |-> NoSection, list |-> <<>>, seats |-> <<>>]

Live(s) == enrollment[s].state = "live"
Open(x) == section[x].state = "live"
Members(x) == {s \in Students : Live(s) /\ enrollment[s].section = x}

\* sectionRepository.countEnrolledStudents, findByClassId
Enrolled(x) == Cardinality(Members(x))
SectionsOf(c) == {x \in Sections : Open(x) /\ ClassOf[x] = c}

\* Mutated Full: a section takes one student too many.
FullOffByOne(x) == Enrolled(x) > section[x].cap

\* A section with a max_capacity and no seat left.
Full(x) == section[x].cap # Unlimited /\ Enrolled(x) >= section[x].cap

Init ==
  /\ enrollment = [s \in Students |-> NotEnrolled]
  /\ section \in [Sections -> Section]
  /\ \A x \in Sections : section[x].state # "deleted"
  /\ task = [r \in Requests |-> Idle]
  /\ gen = NoGen
  /\ generations = 0

-----------------------------------------------------------------------------
(* studentEnrollmentService                                                *)

Begin(r, t) ==
  /\ task[r] = Idle
  /\ task' = [task EXCEPT ![r] = t]

End(r) == task' = [task EXCEPT ![r] = Idle]

\* create, up to the INSERT: no live row, and a section that has a seat exactly
\* when the class has sections.
CreateCheck(r, s, c, x) ==
  /\ ~ Live(s)
  /\ IF SectionsOf(c) = {} THEN x = NoSection
     ELSE x \in SectionsOf(c) /\ ~ Full(x)
  /\ Begin(r, [op |-> "create", student |-> s, class |-> c, section |-> x])
  /\ UNCHANGED <<enrollment, section, gen, generations>>

\* The INSERT; the UNIQUE constraint refuses a second row, a deleted one counts.
CreateInsert(r) ==
  LET t == task[r]
  IN  /\ t.op = "create"
      /\ IF enrollment[t.student].state = "none"
         THEN enrollment' = [enrollment EXCEPT ![t.student] =
                [state |-> "live", class |-> t.class, section |-> t.section, roll |-> 0]]
         ELSE UNCHANGED enrollment
      /\ End(r)
      /\ UNCHANGED <<section, gen, generations>>

\* Mutated MoveCheck: a transfer into a section of the class needs no seat.
MoveCheckNoSeat(r, s, c, x) ==
  LET target == IF c = Keep THEN enrollment[s].class ELSE c
  IN  /\ Live(s)
      /\ c # Keep \/ x # Keep
      /\ x \in Sections => Open(x) /\ ClassOf[x] = target
      /\ Begin(r, [op |-> "move", student |-> s, class |-> c, section |-> x])
      /\ UNCHANGED <<enrollment, section, gen, generations>>

\* update, up to the UPDATE: a given section is one of the target class and has
\* a seat, or the student is there already.
MoveCheck(r, s, c, x) ==
  LET target == IF c = Keep THEN enrollment[s].class ELSE c
  IN  /\ Live(s)
      /\ c # Keep \/ x # Keep
      /\ x \in Sections => /\ Open(x) /\ ClassOf[x] = target
                           /\ enrollment[s].section = x \/ ~ Full(x)
      /\ Begin(r, [op |-> "move", student |-> s, class |-> c, section |-> x])
      /\ UNCHANGED <<enrollment, section, gen, generations>>

\* Mutated MoveWrite: fields the PATCH does not mention are written too.
MoveWriteAllFields(r) ==
  LET t == task[r]
  IN  /\ t.op = "move"
      /\ IF Live(t.student)
         THEN enrollment' = [enrollment EXCEPT
                ![t.student].class = t.class, ![t.student].section = t.section]
         ELSE UNCHANGED enrollment
      /\ End(r)
      /\ UNCHANGED <<section, gen, generations>>

\* The UPDATE sets the given fields; roll_number stays.
MoveWrite(r) ==
  LET t == task[r]
  IN  /\ t.op = "move"
      /\ IF Live(t.student)
         THEN enrollment' = [enrollment EXCEPT
                ![t.student].class = IF t.class = Keep THEN @ ELSE t.class,
                ![t.student].section = IF t.section = Keep THEN @ ELSE t.section]
         ELSE UNCHANGED enrollment
      /\ End(r)
      /\ UNCHANGED <<section, gen, generations>>

\* delete: the UPDATE repeats the condition getById has read.
DeleteEnrollment(s) ==
  /\ Live(s)
  /\ enrollment' = [enrollment EXCEPT ![s].state = "deleted"]
  /\ UNCHANGED <<section, task, gen, generations>>

-----------------------------------------------------------------------------
(* sectionService                                                          *)

CreateSection(x, cap) ==
  /\ section[x].state = "none"
  /\ section' = [section EXCEPT ![x] = [state |-> "live", cap |-> cap]]
  /\ UNCHANGED <<enrollment, task, gen, generations>>

\* Mutated CapCheck: the enrolled students are not counted.
CapCheckUncounted(r, x, cap) ==
  /\ Open(x)
  /\ Begin(r, [op |-> "cap", section |-> x, cap |-> cap])
  /\ UNCHANGED <<enrollment, section, gen, generations>>

\* update of max_capacity, up to the UPDATE: not below the enrolled students.
CapCheck(r, x, cap) ==
  /\ Open(x)
  /\ cap # Unlimited => cap >= Enrolled(x)
  /\ Begin(r, [op |-> "cap", section |-> x, cap |-> cap])
  /\ UNCHANGED <<enrollment, section, gen, generations>>

CapWrite(r) ==
  LET t == task[r]
  IN  /\ t.op = "cap"
      /\ section' = IF Open(t.section)
                    THEN [section EXCEPT ![t.section].cap = t.cap] ELSE section
      /\ End(r)
      /\ UNCHANGED <<enrollment, gen, generations>>

\* Mutated DropCheck: only full sections are protected.
DropCheckFull(r, x) ==
  /\ Open(x)
  /\ ~ Full(x)
  /\ Begin(r, [op |-> "drop", section |-> x])
  /\ UNCHANGED <<enrollment, section, gen, generations>>

\* delete, up to the UPDATE: hasEnrollments finds nobody.
DropCheck(r, x) ==
  /\ Open(x)
  /\ Members(x) = {}
  /\ Begin(r, [op |-> "drop", section |-> x])
  /\ UNCHANGED <<enrollment, section, gen, generations>>

DropWrite(r) ==
  LET t == task[r]
  IN  /\ t.op = "drop"
      /\ section' = IF Open(t.section)
                    THEN [section EXCEPT ![t.section].state = "deleted"] ELSE section
      /\ End(r)
      /\ UNCHANGED <<enrollment, gen, generations>>

-----------------------------------------------------------------------------
(* rollEngine, on a ranked list of the class                               *)

\* Mutated NextPlace: rollInSection starts again at every entry.
NextPlaceRollReset(q, seats) ==
  LET Left(j) == IF j = q.at THEN q.left ELSE seats[j].seats
      at == CHOOSE j \in q.at .. Len(seats) :
              /\ Left(j) > 0 \/ j = Len(seats)
              /\ \A k \in q.at .. (j - 1) : Left(k) <= 0
  IN  [at |-> at, left |-> Left(at) - 1, roll |-> 1]

\* Mutated NextPlace: leaves a section one student too late.
NextPlaceOffByOne(q, seats) ==
  LET Left(j) == IF j = q.at THEN q.left ELSE seats[j].seats
      at == CHOOSE j \in q.at .. Len(seats) :
              /\ Left(j) >= 0 \/ j = Len(seats)
              /\ \A k \in q.at .. (j - 1) : Left(k) < 0
  IN  [at |-> at, left |-> Left(at) - 1,
       roll |-> IF at = q.at THEN q.roll + 1 ELSE 1]

\* The place after q: index of the section, roll number in it, and seats left
\* then.  The while loop leaves sections without seats, but never the last one.
NextPlace(q, seats) ==
  LET Left(j) == IF j = q.at THEN q.left ELSE seats[j].seats
      at == CHOOSE j \in q.at .. Len(seats) :
              /\ Left(j) > 0 \/ j = Len(seats)
              /\ \A k \in q.at .. (j - 1) : Left(k) <= 0
  IN  [at |-> at, left |-> Left(at) - 1,
       roll |-> IF at = q.at THEN q.roll + 1 ELSE 1]

\* Places of the entries 1 .. n of a list; [0] is the start of the loop.
Placement(seats, n) ==
  LET p[i \in 0 .. n] ==
        IF i = 0 THEN [at |-> 1, left |-> seats[1].seats, roll |-> 0]
        ELSE NextPlace(p[i - 1], seats)
  IN  p

\* calculateFifoRanking selects the students of the class who have no roll.
Present == {s \in Students : Live(s)}
Fresh(c) == {s \in Present : enrollment[s].class = c /\ enrollment[s].roll = 0}

\* Without admission tests the list is the merit list, then everybody without a
\* roll: until a first generation that is everybody, those with merits again.
MeritThenFifo(c) ==
  {merit \o fifo : merit \in SetToAllKPermutations(Present) \ {<<>>},
                   fifo \in SetToSeqs(Fresh(c))}

\* With them the old results and the admission results are merged by score: who
\* has results of both kinds is there twice.
Merged ==
  {list \in SeqOf(Present, 2 * Cardinality(Present)) :
     /\ list # <<>>
     /\ \A s \in Present : Cardinality({i \in DOMAIN list : list[i] = s}) <= 2}

\* buildCombinedRanking
CombinedRankings(c) ==
  UNION {IF test THEN Merged ELSE MeritThenFifo(c) : test \in AdmissionTests}

\* The ranking job hands the combined ranking over, for one section (direct) or
\* for the sections of the class.
Rank(c, direct, list) ==
  /\ gen.phase = "idle"
  /\ generations < MaxGenerations
  /\ list \in CombinedRankings(c)
  /\ gen' = [phase |-> "listed", class |-> c, direct |-> direct, list |-> list, seats |-> <<>>]
  /\ generations' = generations + 1
  /\ UNCHANGED <<enrollment, section, task>>

\* getSectionsForDistribution: sections by name, with max(0, cap - enrolled).
SeatsIn(x) ==
  IF section[x].cap = Unlimited THEN Unlimited
  ELSE IF Full(x) THEN 0 ELSE section[x].cap - Enrolled(x)

SeatsOf(c) ==
  LET open == SectionsOf(c)
      Nth(i) == CHOOSE x \in open : Cardinality({y \in open : y < x}) = i - 1
  IN  [i \in 1 .. Cardinality(open) |-> [section |-> Nth(i), seats |-> SeatsIn(Nth(i))]]

\* The transaction reads the seats, on another connection than its own.
TxSections ==
  /\ gen.phase = "listed"
  /\ gen' = [gen EXCEPT !.phase = "read",
                !.seats = IF gen.direct = NoSection THEN SeatsOf(gen.class) ELSE <<>>]
  /\ UNCHANGED <<enrollment, section, task, generations>>

\* The row that gets entry i: a direct roll is the rank, and a section only when
\* one is given; otherwise both come from the placement.
Assigned(i) ==
  LET row == enrollment[gen.list[i]]
      place == Placement(gen.seats, Len(gen.list))[i]
  IN  IF gen.seats = <<>>
      THEN [row EXCEPT !.roll = i,
              !.section = IF gen.direct = NoSection THEN @ ELSE gen.direct]
      ELSE [row EXCEPT !.roll = place.roll, !.section = gen.seats[place.at].section]

Listed == {gen.list[i] : i \in DOMAIN gen.list}
FirstOf(s) == CHOOSE i \in DOMAIN gen.list :
                gen.list[i] = s /\ \A j \in DOMAIN gen.list : gen.list[j] = s => i <= j
LastOf(s) == CHOOSE i \in DOMAIN gen.list :
               gen.list[i] = s /\ \A j \in DOMAIN gen.list : gen.list[j] = s => j <= i

\* The UPDATEs of the list in its order, which change live rows only, and COMMIT:
\* of a student who is on it twice, the later entry stays.
TxCommit ==
  /\ gen.phase = "read"
  /\ enrollment' = [s \in Students |->
       IF Live(s) /\ s \in Listed THEN Assigned(LastOf(s)) ELSE enrollment[s]]
  /\ gen' = NoGen
  /\ UNCHANGED <<section, task, generations>>

\* A failed transaction writes nothing; BullMQ runs the job again with its list.
TxRollback ==
  /\ gen.phase = "read"
  /\ gen' = [gen EXCEPT !.phase = "listed", !.seats = <<>>]
  /\ UNCHANGED <<enrollment, section, task, generations>>

-----------------------------------------------------------------------------
Enrolling ==
  \/ \E r \in Requests, s \in Students, c \in Classes, x \in Sections \cup {NoSection} :
       CreateCheck(r, s, c, x)
  \/ \E r \in Requests, s \in Students, c \in Classes \cup {Keep},
        x \in Sections \cup {NoSection, Keep} : MoveCheck(r, s, c, x)
  \/ \E r \in Requests : CreateInsert(r) \/ MoveWrite(r)
  \/ \E s \in Students : DeleteEnrollment(s)

Administering ==
  \/ \E x \in Sections, cap \in Capacities \cup {Unlimited} : CreateSection(x, cap)
  \/ \E r \in Requests, x \in Sections, cap \in Capacities \cup {Unlimited} :
       CapCheck(r, x, cap)
  \/ \E r \in Requests, x \in Sections : DropCheck(r, x)
  \/ \E r \in Requests : CapWrite(r) \/ DropWrite(r)

Generating ==
  \/ \E c \in Classes, direct \in Sections \cup {NoSection} :
       \E list \in CombinedRankings(c) : Rank(c, direct, list)
  \/ TxSections \/ TxCommit \/ TxRollback

Next == Enrolling \/ Administering \/ Generating

Spec == Init /\ [][Next]_vars

\* The same while the sections are left alone and no roll job runs.
EnrollingSpec == Init /\ [][Enrolling]_vars

-----------------------------------------------------------------------------
(* Properties                                                              *)

\* Type invariant.  A student without a row has no class yet; a task names what
\* its kind of request needs.
TypeOK ==
  /\ enrollment \in [Students -> Enrollment]
  /\ section \in [Sections -> Section]
  /\ task \in [Requests -> Task]
  /\ gen \in Gen
  /\ generations \in 0 .. MaxGenerations

\* Until a roll job moves the students, no open section holds more of them than
\* its max_capacity: the checks of create, move and capacity change together, when
\* requests are served one at a time (student-enrollment.service.ts:85,
\* section.service.ts:120).
SeatsKept ==
  generations = 0 => \A x \in Sections : Open(x) => Enrolled(x) <= section[x].cap

\* While sections are left alone and no roll job runs, concurrent requests exceed
\* a capacity by less than their number: each request in flight can take a seat
\* its check saw free once, and none can do it twice.
OvershootBounded ==
  \A x \in Sections : Open(x) =>
    Enrolled(x) <= section[x].cap + Cardinality(Requests) - 1

\* section.service.ts:143: "Cannot delete section - students are enrolled in it".
\* Until a roll job runs, no one sits in a deleted section, whatever was created,
\* moved and deleted, when requests are served one at a time.
NobodyInDeletedSection ==
  generations = 0 =>
    \A x \in Sections : section[x].state = "deleted" => Members(x) = {}

\* student-enrollment.service.ts:142: a student sits in a section of their class.
SectionOfOwnClass ==
  \A s \in Students : Live(s) /\ enrollment[s].section # NoSection =>
    ClassOf[enrollment[s].section] = enrollment[s].class

\* dev-guid.md:330: one roll number is never given to two students; numbers
\* count per class, and per section where there are sections.
RollsDistinct ==
  \A s, t \in Students :
    /\ Live(s) /\ Live(t) /\ enrollment[s].roll # 0
    /\ enrollment[s].roll = enrollment[t].roll
    /\ enrollment[s].class = enrollment[t].class
    /\ enrollment[s].section = enrollment[t].section
    => s = t

\* roll.engine.ts:135: sections are filled by capacity.  When everybody in the
\* class is on the list, and there are sections enough for one student each, no
\* section is to get more students than its capacity.
FilledByCapacity ==
  LET place == Placement(gen.seats, Len(gen.list))
  IN  /\ gen.phase = "read" /\ gen.seats # <<>>
      /\ Present \subseteq Listed
      /\ Len(gen.list) <= Len(gen.seats)
      => \A k \in 1 .. Len(gen.seats) :
           Cardinality({s \in Listed : place[LastOf(s)].at = k})
             <= section[gen.seats[k].section].cap

\* What a row says of who comes first in the class.
Before(a, b) == a.section < b.section \/ (a.section = b.section /\ a.roll < b.roll)

\* ranking.engine.ts:46: old students by merit, new students after the merit list,
\* and roll.engine.ts:38: roll and section follow the rank.  Who is ranked first
\* is to come first, with the rows the list is about to write.
RollsFollowRanks ==
  gen.phase = "read" =>
    \A s, t \in Listed : FirstOf(s) < FirstOf(t) =>
      LET a == Assigned(LastOf(s))
          b == Assigned(LastOf(t))
      IN  IF gen.seats = <<>> THEN a.roll < b.roll ELSE Before(a, b)

Committing == gen.phase = "read" /\ gen'.phase = "idle" /\ gen.seats # <<>>

\* A distribution keeps the order of the last entries of the students on its
\* list: whose last entry is later sits in the same section with a higher roll, or
\* in a later section, however often they are listed and whatever was enrolled,
\* moved or deleted since the list was made (roll.engine.ts:135).
SeatsByRank ==
  [][Committing =>
      \A s, t \in Listed :
        LET a == enrollment'[s]
            b == enrollment'[t]
        IN  LastOf(s) < LastOf(t) /\ a.state = "live" /\ b.state = "live" => Before(a, b)]_vars

\* Only the last section takes more students than the seats that were read,
\* although an entry that a later one overrules has used a seat too.
OnlyLastOverflows ==
  [][Committing =>
      \A k \in 1 .. (Len(gen.seats) - 1) :
        Cardinality({s \in Listed :
            Live(s) /\ enrollment'[s].section = gen.seats[k].section})
          <= gen.seats[k].seats]_vars
=============================================================================
