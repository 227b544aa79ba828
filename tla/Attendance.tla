------------------------------- MODULE Attendance -------------------------------
(***************************************************************************)
(* One day of attendance: the sheet of student_attendance, which a bulk      *)
(* marking writes in one transaction, and the attendance_logs of one member  *)
(* of staff, which check-in and check-out write.  Neither table has a UNIQUE  *)
(* constraint, rows are never deleted, and LIMIT 1 has no ORDER BY: it may    *)
(* return any of the rows.                                                    *)
(***************************************************************************)
EXTENDS Handlers, Sequences, SequencesExt

CONSTANTS
  Pupils,
  Entries,  \* what one marking says of its pupils: class, section and status
  MaxClock  \* bound: minutes of the day that the model looks at

ASSUME AttendanceAssumption == IsFiniteSet(Pupils) /\ Entries # {} /\ MaxClock \in Nat

VARIABLES
  sheet,       \* the rows of each pupil, in the order of their insertion
  marking,     \* what each bulk marking does next
  markOverlap, \* history: two of them have been in flight together
  logs,        \* the rows of the member of staff
  punch,       \* what each check-in or check-out does next
  punchOverlap,
  clock        \* NOW(), in minutes

sheetVars == <<sheet, marking, markOverlap>>
logVars == <<logs, punch, punchOverlap, clock>>
attendanceVars == <<sheet, marking, markOverlap, logs, punch, punchOverlap, clock>>

-----------------------------------------------------------------------------
\* A row of student_attendance is its entry, one of attendance_logs its times.
Log == [in: 0 .. MaxClock, out: 0 .. MaxClock, done: BOOLEAN]

\* total_work_minutes
WorkMinutes(log) == IF log.done /\ log.out > log.in THEN log.out - log.in ELSE 0

\* `want` is the row of the next statement and `rows` those it has locked or
\* inserted; row 0 is a new one.
Marking ==
  [pc: {"idle", "find", "write"},
   todo: Seq(Pupils),
   entry: Entries,
   want: Nat,
   rows: SUBSET (Pupils \X Nat)]

Punch == [pc: {"idle", "in", "out"}, row: Nat]

NoMarking ==
  [pc |-> "idle", todo |-> <<>>, entry |-> CHOOSE e \in Entries : TRUE,
   want |-> 0, rows |-> {}]

NoPunch == [pc |-> "idle", row |-> 0]

AttendanceInit ==
  /\ sheet = [p \in Pupils |-> <<>>]
  /\ marking = [r \in Requests |-> NoMarking]
  /\ markOverlap = FALSE
  /\ logs = <<>>
  /\ punch = [r \in Requests |-> NoPunch]
  /\ punchOverlap = FALSE
  /\ clock = 0

-----------------------------------------------------------------------------
(* Students                                                                *)

\* markStudents: class and section exist, and no pupil is in the records twice.
MarkStudents(r, todo, e) ==
  /\ marking[r].pc = "idle"
  /\ marking' = [marking EXCEPT ![r] =
                   [NoMarking EXCEPT !.pc = "find", !.todo = todo, !.entry = e]]
  /\ markOverlap' = (markOverlap \/ Meets(marking, r))
  /\ UNCHANGED <<sheet, logVars>>

\* Mutated FindStudentRecord: never finds a row.
FindNoRecord(r) ==
  /\ marking[r].pc = "find"
  /\ marking' = [marking EXCEPT ![r] = [@ EXCEPT !.pc = "write", !.want = 0]]
  /\ UNCHANGED <<sheet, markOverlap, logVars>>

\* findStudentRecord, a committed row of the pupil.
FindStudentRecord(r) ==
  LET found == DOMAIN sheet[Head(marking[r].todo)] IN
  /\ marking[r].pc = "find"
  /\ \E row \in (IF found = {} THEN {0} ELSE found) :
       marking' = [marking EXCEPT ![r] = [@ EXCEPT !.pc = "write", !.want = row]]
  /\ UNCHANGED <<sheet, markOverlap, logVars>>

\* The UPDATE waits for the transaction that has locked the row.
RowIsFree(r, p, row) ==
  row = 0 \/ \A q \in Requests \ {r} : <<p, row>> \notin marking[q].rows

\* What the sheet is when the rows of a transaction are committed.
SheetWith(rows, e) ==
  [p \in Pupils |->
     LET updated == [i \in DOMAIN sheet[p] |-> IF <<p, i>> \in rows THEN e ELSE sheet[p][i]]
     IN IF <<p, 0>> \in rows THEN Append(updated, e) ELSE updated]

\* UPDATE or INSERT of the row; after the last record, COMMIT.
WriteStudentRecord(r) ==
  LET m    == marking[r]
      p    == Head(m.todo)
      rows == m.rows \cup {<<p, m.want>>} IN
  /\ m.pc = "write"
  /\ RowIsFree(r, p, m.want)
  /\ \/ /\ Len(m.todo) > 1
        /\ marking' = [marking EXCEPT ![r] =
                         [m EXCEPT !.pc = "find", !.todo = Tail(m.todo), !.rows = rows]]
        /\ UNCHANGED sheet
     \/ /\ Len(m.todo) = 1
        /\ sheet' = SheetWith(rows, m.entry)
        /\ marking' = [marking EXCEPT ![r] = NoMarking]
  /\ UNCHANGED <<markOverlap, logVars>>

\* An error, or a dying process, rolls everything back.
MarkingAborts(r) ==
  /\ marking[r].pc # "idle"
  /\ marking' = [marking EXCEPT ![r] = NoMarking]
  /\ UNCHANGED <<sheet, markOverlap, logVars>>

-----------------------------------------------------------------------------
(* Staff                                                                   *)

PunchStep(r, from, to, row) ==
  /\ punch[r].pc = from
  /\ punch' = [punch EXCEPT ![r] = [pc |-> to, row |-> row]]

PunchCall(r, to, row) ==
  /\ PunchStep(r, "idle", to, row)
  /\ punchOverlap' = (punchOverlap \/ Meets(punch, r))
  /\ UNCHANGED <<sheetVars, logs, clock>>

\* Mutated StaffCheckIn: does not look for a log of the day.
StaffCheckInAgain(r) == PunchCall(r, "in", 0)

\* staffCheckIn: findStaffLog has found nothing.
StaffCheckIn(r) == logs = <<>> /\ PunchCall(r, "in", 0)

CreateCheckIn(r) ==
  /\ PunchStep(r, "in", "idle", 0)
  /\ logs' = Append(logs, [in |-> clock, out |-> clock, done |-> FALSE])
  /\ UNCHANGED <<sheetVars, punchOverlap, clock>>

\* staffCheckOut: findStaffLog returns a row without check_out.
StaffCheckOut(r) ==
  \E row \in DOMAIN logs : ~ logs[row].done /\ PunchCall(r, "out", row)

\* setCheckOut: the UPDATE does not look at check_out again.
SetCheckOut(r) ==
  /\ PunchStep(r, "out", "idle", 0)
  /\ logs' = [logs EXCEPT ![punch[r].row] = [@ EXCEPT !.out = clock, !.done = TRUE]]
  /\ UNCHANGED <<sheetVars, punchOverlap, clock>>

\* An error, or a dying process, before the statement.
PunchAborts(r) ==
  /\ punch[r].pc # "idle"
  /\ PunchStep(r, punch[r].pc, "idle", 0)
  /\ UNCHANGED <<sheetVars, logs, punchOverlap, clock>>

Tick ==
  /\ clock < MaxClock
  /\ clock' = clock + 1
  /\ UNCHANGED <<sheetVars, logs, punch, punchOverlap>>

-----------------------------------------------------------------------------
SheetNext ==
  \E r \in Requests :
    \/ \E pupils \in (SUBSET Pupils) \ {{}}, e \in Entries :
         \E todo \in SetToSeqs(pupils) : MarkStudents(r, todo, e)
    \/ FindStudentRecord(r) \/ WriteStudentRecord(r) \/ MarkingAborts(r)

LogNext ==
  \/ \E r \in Requests :
       \/ StaffCheckIn(r) \/ CreateCheckIn(r)
       \/ StaffCheckOut(r) \/ SetCheckOut(r) \/ PunchAborts(r)
  \/ Tick

AttendanceNext == SheetNext \/ LogNext

AttendanceSpec == AttendanceInit /\ [][AttendanceNext]_attendanceVars

-----------------------------------------------------------------------------
(* Properties                                                              *)

\* Type invariant.
AttendanceTypeOK ==
  /\ sheet \in [Pupils -> Seq(Entries)]
  /\ marking \in [Requests -> Marking]
  /\ logs \in Seq(Log)
  /\ punch \in [Requests -> Punch]
  /\ \A r \in Requests : punch[r].pc = "out" => punch[r].row \in DOMAIN logs
  /\ markOverlap \in BOOLEAN /\ punchOverlap \in BOOLEAN
  /\ clock \in 0 .. MaxClock

\* A day of a pupil is counted at most as often as there are requests at a time,
\* however often the sheet is sent, and once when they come one at a time
\* (attendance.repository.ts:69: "to prevent duplicates").
DaysCounted ==
  \A p \in Pupils : Len(sheet[p]) <= IF markOverlap THEN Cardinality(Requests) ELSE 1

\* Each log with the minutes that it is paid for, counted from one.
MinutesPaid == {x \in (DOMAIN logs) \X (1 .. MaxClock) : x[2] <= WorkMinutes(logs[x[1]])}

\* The time paid for does not exceed the time that has passed, or that of all
\* requests which overlap (attendance.service.ts:166).
HoursFitTheDay ==
  Cardinality(MinutesPaid) <= clock * IF punchOverlap THEN Cardinality(Requests) ELSE 1
=============================================================================
