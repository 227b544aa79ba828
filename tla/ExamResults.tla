------------------------------ MODULE ExamResults ------------------------------
(***************************************************************************)
(* One exam and the marks entered for it.  Marks may be written while the     *)
(* exam is a draft; publishing asks for marks and deleting for none.  Every   *)
(* handler looks at the exam in one statement and writes in a later one.      *)
(***************************************************************************)
EXTENDS Handlers, Integers

CONSTANTS
  Pairs,   \* the (student, subject) pairs of the exam
  MarkSet  \* marks that are entered, in hundredths

ASSUME ExamResultsAssumption == MarkSet \subseteq 0..10000

VARIABLES
  exam,        \* its row
  results,     \* the rows of exam_results, one for a pair (UNIQUE)
  entry,       \* what each request does next
  examOverlap, \* history: two requests have been in flight together
  early        \* history: requests in flight since before the last publication

examVars == <<exam, results, entry, examOverlap, early>>

-----------------------------------------------------------------------------
CalculateGrade(m) ==
  CASE m >= 8000 -> "A+"
    [] m \in 7000..7999 -> "A"
    [] m \in 6000..6999 -> "A-"
    [] m \in 5000..5999 -> "B"
    [] m \in 4000..4999 -> "C"
    [] m \in 3300..3999 -> "D"
    [] OTHER -> "F"

ExamStatuses == {"DRAFT", "PUBLISHED"}

ExamRow == [deleted: BOOLEAN, status: ExamStatuses, placed: BOOLEAN]

ResultRow == [row: {"none", "live", "deleted"}, marks: MarkSet \cup {0},
              grade: {"A+", "A", "A-", "B", "C", "D", "F"}]

NoResult == [row |-> "none", marks |-> 0, grade |-> "F"]

\* The columns a write of marks sets, whatever the row was before.
Marked(m) == [row |-> "live", marks |-> m, grade |-> CalculateGrade(m)]

\* op: the handler; at: the statement it has next.
Entry ==
  [pc: {"idle", "exam", "existing", "results", "write"},
   op: {"none", "create", "update", "remove", "bulk", "patch", "publish", "unpublish", "delete"},
   on: SUBSET Pairs, marks: MarkSet \cup {0}]

NoEntry == [pc |-> "idle", op |-> "none", on |-> {}, marks |-> 0]

ExamInit ==
  /\ exam \in [deleted: {FALSE}, status: {"DRAFT"}, placed: BOOLEAN]
  /\ results = [p \in Pairs |-> NoResult]
  /\ entry = [r \in Requests |-> NoEntry]
  /\ examOverlap = FALSE
  /\ early = {}

Draft == ~ exam.deleted /\ exam.status = "DRAFT"

Published == ~ exam.deleted /\ exam.status = "PUBLISHED"

HasResults == \E p \in Pairs : results[p].row = "live"

BeginEntry(r, pc, op, on, m) ==
  /\ entry[r].pc = "idle"
  /\ entry' = [entry EXCEPT ![r] = [pc |-> pc, op |-> op, on |-> on, marks |-> m]]
  /\ examOverlap' = (examOverlap \/ Meets(entry, r))
  /\ UNCHANGED <<exam, results, early>>

EntryAt(r, pc, op) == entry[r].pc = pc /\ entry[r].op = op

EntryGoes(r, pc) == entry' = [entry EXCEPT ![r] = [@ EXCEPT !.pc = pc]]

EntryOver(r) == entry' = [entry EXCEPT ![r] = NoEntry] /\ UNCHANGED examOverlap

EntryEnds(r) == EntryOver(r) /\ early' = early \ {r}

-----------------------------------------------------------------------------
(* examResultService                                                       *)

\* create: the exam first, then a live row for the pair, then the INSERT, which a
\* deleted row refuses (409).
CreateResult(r, p, m) == Draft /\ BeginEntry(r, "existing", "create", {p}, m)

FindExisting(r) ==
  /\ EntryAt(r, "existing", "create")
  /\ \A p \in entry[r].on : results[p].row # "live"
  /\ EntryGoes(r, "write")
  /\ UNCHANGED <<exam, results, examOverlap, early>>

InsertResult(r) ==
  /\ EntryAt(r, "write", "create")
  /\ results' = [p \in Pairs |->
       IF p \in entry[r].on /\ results[p].row = "none" THEN Marked(entry[r].marks) ELSE results[p]]
  /\ EntryEnds(r)
  /\ UNCHANGED exam

\* bulkCreate: one transaction of upserts that revive deleted rows.
BulkCreateResults(r, on, m) == Draft /\ BeginEntry(r, "write", "bulk", on, m)

UpsertResults(r) ==
  /\ EntryAt(r, "write", "bulk")
  /\ results' = [p \in Pairs |-> IF p \in entry[r].on THEN Marked(entry[r].marks) ELSE results[p]]
  /\ EntryEnds(r)
  /\ UNCHANGED exam

\* update and delete read the live row first and the exam after it.
UpdateResult(r, p, m) == results[p].row = "live" /\ BeginEntry(r, "exam", "update", {p}, m)

RemoveResult(r, p) == results[p].row = "live" /\ BeginEntry(r, "exam", "remove", {p}, 0)

\* exam?.status === 'PUBLISHED' refuses; a deleted exam is not found and does not.
\* Mutated FindResultExam: the status is not looked at.
FindAnyExam(r) ==
  /\ entry[r].pc = "exam"
  /\ EntryGoes(r, "write")
  /\ UNCHANGED <<exam, results, examOverlap, early>>

FindResultExam(r) ==
  /\ entry[r].pc = "exam"
  /\ ~ Published
  /\ EntryGoes(r, "write")
  /\ UNCHANGED <<exam, results, examOverlap, early>>

WriteMarks(r) ==
  /\ EntryAt(r, "write", "update")
  /\ results' = [p \in Pairs |->
       IF p \in entry[r].on /\ results[p].row = "live" THEN Marked(entry[r].marks) ELSE results[p]]
  /\ EntryEnds(r)
  /\ UNCHANGED exam

SoftDeleteResult(r) ==
  /\ EntryAt(r, "write", "remove")
  /\ results' = [p \in Pairs |->
       IF p \in entry[r].on /\ results[p].row = "live"
       THEN [results[p] EXCEPT !.row = "deleted"] ELSE results[p]]
  /\ EntryEnds(r)
  /\ UNCHANGED exam

-----------------------------------------------------------------------------
(* examService                                                             *)

\* update: class_id and academic_session_id may be set and cleared in any status.
UpdateExam(r) == ~ exam.deleted /\ BeginEntry(r, "write", "patch", {}, 0)

PatchExam(r) ==
  /\ EntryAt(r, "write", "patch")
  /\ \E b \in BOOLEAN :
       exam' = IF exam.deleted THEN exam ELSE [exam EXCEPT !.placed = b]
  /\ EntryEnds(r)
  /\ UNCHANGED results

PublishExam(r) == Draft /\ exam.placed /\ BeginEntry(r, "results", "publish", {}, 0)

UnpublishExam(r) == Published /\ BeginEntry(r, "write", "unpublish", {}, 0)

DeleteExam(r) == ~ exam.deleted /\ BeginEntry(r, "results", "delete", {}, 0)

\* hasResults: publishing needs a live row, deleting needs none.
\* Mutated CountResults: deleting does not ask.
CountNoResults(r) ==
  /\ entry[r].pc = "results"
  /\ entry[r].op = "publish" => HasResults
  /\ EntryGoes(r, "write")
  /\ UNCHANGED <<exam, results, examOverlap, early>>

CountResults(r) ==
  /\ entry[r].pc = "results"
  /\ HasResults <=> entry[r].op = "publish"
  /\ EntryGoes(r, "write")
  /\ UNCHANGED <<exam, results, examOverlap, early>>

\* setStatus and softDelete: WHERE deleted_at IS NULL.
SetExamStatus(r) ==
  /\ entry[r].pc = "write" /\ entry[r].op \in {"publish", "unpublish"}
  /\ exam' = IF exam.deleted THEN exam
             ELSE [exam EXCEPT !.status = IF entry[r].op = "publish" THEN "PUBLISHED" ELSE "DRAFT"]
  /\ early' = {q \in Requests \ {r} :
                 entry[q].pc # "idle" /\ (entry[r].op = "publish" \/ q \in early)}
  /\ EntryOver(r)
  /\ UNCHANGED results

SoftDeleteExam(r) ==
  /\ EntryAt(r, "write", "delete")
  /\ exam' = [exam EXCEPT !.deleted = TRUE]
  /\ EntryEnds(r)
  /\ UNCHANGED results

-----------------------------------------------------------------------------
\* Any check that fails, a lost connection, a student or subject that is not there.
EntryAborts(r) ==
  /\ entry[r].pc # "idle"
  /\ EntryEnds(r)
  /\ UNCHANGED <<exam, results>>

ExamNext ==
  \E r \in Requests :
    \/ \E p \in Pairs, m \in MarkSet : CreateResult(r, p, m) \/ UpdateResult(r, p, m)
    \/ \E on \in (SUBSET Pairs) \ {{}}, m \in MarkSet : BulkCreateResults(r, on, m)
    \/ \E p \in Pairs : RemoveResult(r, p)
    \/ FindExisting(r) \/ InsertResult(r) \/ UpsertResults(r)
    \/ FindResultExam(r) \/ WriteMarks(r) \/ SoftDeleteResult(r)
    \/ UpdateExam(r) \/ PatchExam(r)
    \/ PublishExam(r) \/ UnpublishExam(r) \/ DeleteExam(r)
    \/ CountResults(r) \/ SetExamStatus(r) \/ SoftDeleteExam(r)
    \/ EntryAborts(r)

ExamSpec == ExamInit /\ [][ExamNext]_examVars

-----------------------------------------------------------------------------
(* Properties                                                              *)

\* Type invariant.
ExamTypeOK ==
  /\ exam \in ExamRow
  /\ results \in [Pairs -> ResultRow]
  /\ entry \in [Requests -> Entry]
  /\ examOverlap \in BOOLEAN
  /\ early \subseteq {r \in Requests : entry[r].pc # "idle"}

\* While requests come one at a time, a published exam has a result and a deleted
\* exam has none, although marks can be removed, revived and corrected between
\* any two changes of the exam (exam.service.ts:119, exam.service.ts:156).
ResultsFollowExam ==
  ~ examOverlap =>
    /\ Published => HasResults
    /\ exam.deleted => ~ HasResults

\* The marks of a published exam move only while a request that was under way
\* before the publication is still in flight: after it they stand still until the
\* exam is a draft again, whatever overlaps
\* (exam-result.service.ts:64, exam-result.service.ts:159).
PublishedFrozen ==
  [][Published /\ results' # results => early # {}]_examVars

-----------------------------------------------------------------------------
(* What the documentation of the code says and the code does not keep       *)

\* "Once published, direct create/update is blocked"
\* (exam-result.service.ts:62): the write is a later statement than the check.
PublishedIsClosed == [][Published => UNCHANGED results]_examVars

\* "Exam must have a class and academic session before publishing"
\* (exam.service.ts:153): a PATCH clears them after it.
PublishedIsPlaced == ~ examOverlap => (Published => exam.placed)
=============================================================================
