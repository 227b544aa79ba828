------------------------------- MODULE References -------------------------------
(***************************************************************************)
(* Rows that point to rows.  Nothing but the services keeps a live row from   *)
(* pointing to a deleted one: deleted_at is not a foreign key's business.      *)
(* One link at a time, a child table and a parent table, with one row of each;  *)
(* `refers` says whether the child points to that parent or to another row.    *)
(* What else a service asks for can only end a request early.                  *)
(***************************************************************************)
EXTENDS Handlers

VARIABLES
  link,       \* <<child, parent>>, chosen once
  parent,     \* "live" or "deleted"
  child,      \* "none", "live" or "deleted"
  refers,
  edit,       \* what each request does next
  editOverlap \* history: two requests have been in flight together

referenceVars == <<link, parent, child, refers, edit, editOverlap>>

-----------------------------------------------------------------------------
(* What the services look at.                                              *)

\* The parents that create of each child has found.
SectionFinds    == {"class"}
ExamFinds       == {"class", "session"}
AssignmentFinds == {"teacher", "class", "section", "subject", "session"}
EnrollmentFinds == {"student", "class", "session"}
ResultFinds     == {"exam", "student", "subject"}
UserFinds       == {"role"}

CreateFinds ==
  [section |-> SectionFinds, exam |-> ExamFinds, assignment |-> AssignmentFinds,
   enrollment |-> EnrollmentFinds, result |-> ResultFinds, user |-> UserFinds]

\* The parents that update of a child may change, and those of them it has found.
Update(moves, finds) == [moves |-> moves, finds |-> finds]

ExamUpdate       == Update({"class", "session"}, {})
AssignmentUpdate == Update({"teacher", "class", "section", "subject", "session"}, {"teacher"})
EnrollmentUpdate == Update({"class"}, {})
UserUpdate       == Update({"role"}, {"role"})

\* update of a section or a result keeps its parents.
KeepsParents == Update({}, {})

Updating ==
  [section |-> KeepsParents, exam |-> ExamUpdate, assignment |-> AssignmentUpdate,
   enrollment |-> EnrollmentUpdate, result |-> KeepsParents, user |-> UserUpdate]

\* The children for which delete of a parent is refused.
ClassKeeps   == {"section"}
SubjectKeeps == {"assignment"}
TeacherKeeps == {"assignment"}
StudentKeeps == {"enrollment"}
ExamKeeps    == {"result"}
SectionKeeps == {"enrollment"}

DeleteKeeps ==
  [class |-> ClassKeeps, subject |-> SubjectKeeps, teacher |-> TeacherKeeps,
   student |-> StudentKeeps, exam |-> ExamKeeps, section |-> SectionKeeps,
   session |-> {}, role |-> {}]

Links == UNION {{<<c, p>> : p \in CreateFinds[c]} : c \in DOMAIN CreateFinds}

Moves == link[2] \in Updating[link[1]].moves
MoveFinds == link[2] \in Updating[link[1]].finds

\* The parent is found when a child is made or moved, and not deleted under one.
Guarded ==
  /\ Moves => MoveFinds
  /\ link[1] \in DeleteKeeps[link[2]]

-----------------------------------------------------------------------------
EditSteps == {"idle", "insert", "upsert", "move", "remove"}

Attached == child = "live" /\ refers

ReferenceInit ==
  /\ link \in Links
  /\ parent = "live"
  /\ \/ child = "none" /\ refers = FALSE
     \/ child = "live" /\ refers \in BOOLEAN
  /\ edit = [r \in Requests |-> [pc |-> "idle"]]
  /\ editOverlap = FALSE

Step(r, from, to) == edit[r].pc = from /\ edit' = [edit EXCEPT ![r] = [pc |-> to]]

Begins(r, pc) ==
  /\ Step(r, "idle", pc)
  /\ editOverlap' = (editOverlap \/ Meets(edit, r))
  /\ UNCHANGED <<link, parent, child, refers>>

Write(r, pc) == Step(r, pc, "idle") /\ UNCHANGED <<link, editOverlap>>

\* create has found the parent.
CreateChild(r) == parent = "live" /\ Begins(r, "insert")

\* The INSERT; the row of a result that was deleted is in the way, other children
\* get further rows.
InsertChild(r) ==
  /\ Write(r, "insert")
  /\ IF child = "none"
     THEN child' = "live" /\ refers' = TRUE
     ELSE UNCHANGED <<child, refers>>
  /\ UNCHANGED parent

\* bulkCreate of results finds the exam only.
BulkCreate(r) ==
  /\ link[1] = "result"
  /\ link[2] = "exam" => parent = "live"
  /\ Begins(r, "upsert")

\* INSERT ... ON CONFLICT DO UPDATE SET deleted_at = NULL: all three parents are
\* the key, so the row is one that refers.
UpsertResult(r) ==
  /\ Write(r, "upsert")
  /\ child = "none" \/ refers
  /\ child' = "live" /\ refers' = TRUE
  /\ UNCHANGED parent

\* Mutated MoveChild: update does not find the teacher.
MoveChildUnseen(r) ==
  /\ Moves
  /\ child = "live"
  /\ Begins(r, "move")

\* update of a child that is to point to the parent.
MoveChild(r) ==
  /\ Moves
  /\ child = "live"
  /\ MoveFinds => parent = "live"
  /\ Begins(r, "move")

\* UPDATE ... WHERE deleted_at IS NULL
MoveWriteChild(r) ==
  /\ Write(r, "move")
  /\ refers' = (refers \/ child = "live")
  /\ UNCHANGED <<parent, child>>

\* update of a child that is to point to another row.
MoveAway ==
  /\ Moves
  /\ Attached
  /\ refers' = FALSE
  /\ UNCHANGED <<link, parent, child, edit, editOverlap>>

DropChild ==
  /\ child = "live"
  /\ child' = "deleted"
  /\ UNCHANGED <<link, parent, refers, edit, editOverlap>>

\* delete of the parent: getById, and no live child where the service asks.
RemoveParent(r) ==
  /\ parent = "live"
  /\ link[1] \in DeleteKeeps[link[2]] => ~ Attached
  /\ Begins(r, "remove")

SoftDeleteParent(r) ==
  /\ Write(r, "remove")
  /\ parent' = "deleted"
  /\ UNCHANGED <<child, refers>>

\* Some other check fails, or the process dies.
EditAborts(r) ==
  /\ edit[r].pc # "idle"
  /\ Write(r, edit[r].pc)
  /\ UNCHANGED <<parent, child, refers>>

ReferenceNext ==
  \/ \E r \in Requests :
       \/ CreateChild(r) \/ InsertChild(r) \/ BulkCreate(r) \/ UpsertResult(r)
       \/ MoveChild(r) \/ MoveWriteChild(r)
       \/ RemoveParent(r) \/ SoftDeleteParent(r) \/ EditAborts(r)
  \/ MoveAway \/ DropChild

ReferenceSpec == ReferenceInit /\ [][ReferenceNext]_referenceVars

-----------------------------------------------------------------------------
(* Properties                                                              *)

\* Type invariant.
ReferenceTypeOK ==
  /\ link \in Links
  /\ parent \in {"live", "deleted"}
  /\ child \in {"none", "live", "deleted"}
  /\ refers \in BOOLEAN
  /\ edit \in [Requests -> [pc: EditSteps]]
  /\ editOverlap \in BOOLEAN

\* As long as requests do not overlap, no live row points to a deleted one over a
\* link that both sides look after: sections of a class, the teacher of an
\* assignment, enrollments of a student, results of an exam
\* (class.service.ts:60, teacher.service.ts:158, exam.service.ts:117).
LinkedRowsLive == ~ editOverlap /\ Guarded /\ Attached => parent = "live"

-----------------------------------------------------------------------------
(* What the documentation of the code says and the code does not keep       *)

\* class.repository.ts:126, a class with sections or enrollments is not deleted:
\* its enrollments, exams and assignments are not looked at; a subject that is
\* "assigned to one or more teachers" (subject.service.ts:85) is not deleted, but
\* an assignment can be moved to a deleted one.
KeptParentsLive ==
  ~ editOverlap /\ Attached /\ link \in {<<"enrollment", "class">>, <<"assignment", "subject">>} =>
    parent = "live"
=============================================================================
