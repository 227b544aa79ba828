-------------------------------- MODULE Patches --------------------------------
(***************************************************************************)
(* A PATCH of one row: the handler reads the row, checks the fields of the     *)
(* body, refuses a body that sets nothing and updates the columns that are     *)
(* left.  A value is what its checks, Number() and the database tell apart.    *)
(***************************************************************************)
EXTENDS Naturals, FiniteSets

CONSTANT MaxKeys  \* bound: fields of a body

ASSUME PatchesAssumption == MaxKeys \in Nat

VARIABLES
  patch,    \* the request
  patchRow, \* the row is live
  columns   \* what the UPDATE did to each column

patchVars == <<patch, patchRow, columns>>

-----------------------------------------------------------------------------
(* utils/validators.ts.  f.required and f.nullable are the options of a call.  *)
(* "absent" stands for undefined, which no UPDATE writes.                      *)

\* "empty" is "", "spaces" are blanks only, "false" stands for [] too, "bad" is
\* anything else that no check accepts, and "unfit" what its check accepts and the
\* column refuses: February 31st, an integer beyond 32 bits, text with a NUL.
Values == {"absent", "null", "empty", "spaces", "false", "true", "good", "unfit", "bad"}

IsMissing(v) == v \in {"absent", "null"}

HandleMissing(v, f) ==
  CASE v = "null" /\ f.nullable -> "null"
    [] ~ (v = "null" /\ f.nullable) /\ f.required -> "throw"
    [] OTHER -> "absent"

\* A blank string is an accident and never a null.
AssertString(v, f) ==
  CASE IsMissing(v) -> HandleMissing(v, f)
    [] v \in {"empty", "spaces"} -> IF f.required THEN "throw" ELSE "absent"
    [] v \in {"good", "unfit"} -> v
    [] OTHER -> "throw"

AssertUuid(v, f) ==
  CASE IsMissing(v) -> HandleMissing(v, f)
    [] v = "good" -> v
    [] OTHER -> "throw"

\* Of the blanks, the other checks take only "" for a missing value; for the rest
\* they ask Number() ...
Coercible == {"spaces", "false", "true"}
NumberOf(v) == IF v = "true" THEN 1 ELSE 0

AssertNumber(v, f) ==
  CASE IsMissing(v) \/ v = "empty" -> HandleMissing(v, f)
    [] v \in Coercible -> IF NumberOf(v) < f.least THEN "throw" ELSE "coerced"
    [] v = "good" -> v
    [] OTHER -> "throw"

\* ... of a number that no PATCH bounds from above, ...
AssertInteger(v, f) == IF v = "unfit" THEN v ELSE AssertNumber(v, f)

\* ... Date.parse, or the list of values.
AssertDate(v, f) ==
  CASE IsMissing(v) \/ v = "empty" -> HandleMissing(v, f)
    [] v \in {"good", "unfit"} -> v
    [] OTHER -> "throw"

AssertEnum(v, f) ==
  CASE IsMissing(v) \/ v = "empty" -> HandleMissing(v, f)
    [] v = "good" -> v
    [] OTHER -> "throw"

Checked(v, f) ==
  CASE f.check = "string" -> AssertString(v, f)
    [] f.check = "uuid" -> AssertUuid(v, f)
    [] f.check = "integer" -> AssertInteger(v, f)
    [] f.check = "number" -> AssertNumber(v, f)
    [] f.check = "date" -> AssertDate(v, f)
    [] OTHER -> AssertEnum(v, f)

-----------------------------------------------------------------------------
(* The services.  guarded: the check is under if (fields.x !== undefined).     *)
(* notNull: the column is NOT NULL in schema.sql.  least: the min of a number.  *)

Needed(check) ==
  [check |-> check, required |-> TRUE, nullable |-> FALSE, guarded |-> FALSE, notNull |-> FALSE,
   least |-> 0]

Optional(check) == [Needed(check) EXCEPT !.required = FALSE]

Clearable(check) == [Optional(check) EXCEPT !.nullable = TRUE]

\* The field is checked only when the body has it.
Given(f) == [f EXCEPT !.guarded = TRUE]

\* The column is declared NOT NULL.
Solid(f) == [f EXCEPT !.notNull = TRUE]

academicSessionUpdate ==
  [name |-> Solid(Given(Needed("string"))),
   start_date |-> Clearable("date"), end_date |-> Clearable("date")]

classUpdate == [name |-> Solid(Needed("string"))]

examUpdate ==
  [name |-> Solid(Given(Needed("string"))),
   class_id |-> Given(Clearable("uuid")), academic_session_id |-> Given(Clearable("uuid")),
   exam_date |-> Given(Clearable("date")), exam_type |-> Solid(Given(Optional("enum")))]

examResultUpdate == [marks |-> Needed("number")]

permissionUpdate == [name |-> Solid(Needed("string"))]

roleUpdate == [name |-> Solid(Needed("string"))]

sectionUpdate ==
  [name |-> Solid(Optional("string")), max_capacity |-> [Clearable("integer") EXCEPT !.least = 1]]

studentEnrollmentUpdate ==
  [class_id |-> Optional("uuid"), section_id |-> Clearable("uuid")]

studentUpdate ==
  [date_of_birth |-> Clearable("date"), guardian_name |-> Clearable("string"),
   guardian_phone |-> Clearable("string"), address |-> Clearable("string")]

subjectAssignmentUpdate ==
  LET id == Given(Needed("uuid")) IN
  [teacher_id |-> id, class_id |-> id, subject_id |-> id, academic_session_id |-> id,
   section_id |-> [id EXCEPT !.nullable = TRUE], assigned_by |-> [id EXCEPT !.nullable = TRUE]]

subjectUpdate ==
  [name |-> Solid(Optional("string")), code |-> Clearable("string")]

teacherUpdate ==
  [phone |-> Clearable("string"), designation |-> Clearable("string"),
   qualification |-> Clearable("string"), joining_date |-> Clearable("date")]

userUpdate ==
  [full_name |-> Solid(Given(Needed("string"))), email |-> Solid(Given(Needed("string"))),
   role_id |-> Given(Needed("uuid")), gender |-> Given(Optional("enum"))]

Updates ==
  {academicSessionUpdate, classUpdate, examUpdate, examResultUpdate, permissionUpdate,
   roleUpdate, sectionUpdate, studentEnrollmentUpdate, studentUpdate,
   subjectAssignmentUpdate, subjectUpdate, teacherUpdate, userUpdate}

Bodies(u) ==
  {b \in [DOMAIN u -> Values] : Cardinality({k \in DOMAIN u : b[k] # "absent"}) <= MaxKeys}

\* What the checks leave of a body.
Settled(p) ==
  [k \in DOMAIN p.fields |->
     IF p.fields[k].guarded /\ p.body[k] = "absent" THEN "absent"
     ELSE Checked(p.body[k], p.fields[k])]

\* Mutated HasUpdates: an empty body goes to the repository.
HasUpdatesUnasked(c) == TRUE

\* assertHasUpdates
HasUpdates(c) == \E k \in DOMAIN c : c[k] # "absent"

-----------------------------------------------------------------------------
NoColumns(u) == [k \in DOMAIN u |-> "kept"]

PatchInit ==
  /\ \E u \in Updates : \E b \in Bodies(u) :
       /\ patch = [pc |-> "find", fields |-> u, body |-> b, answer |-> 0]
       /\ columns = NoColumns(u)
  /\ patchRow = TRUE

AnswerPatch(status) == patch' = [patch EXCEPT !.pc = "done", !.answer = status]

\* getById
FindPatched ==
  /\ patch.pc = "find"
  /\ IF patchRow THEN patch' = [patch EXCEPT !.pc = "check"] ELSE AnswerPatch(404)
  /\ UNCHANGED <<patchRow, columns>>

\* The checks of the fields, then assertHasUpdates.  A lookup of the service (a
\* name, a role, a section) may still refuse the body: 409 stands for its answer,
\* which is a 400 or 404 of its own for some.
CheckPatch ==
  LET c == Settled(patch) IN
  /\ patch.pc = "check"
  /\ \/ /\ \A k \in DOMAIN c : c[k] # "throw"
        /\ HasUpdates(c)
        /\ patch' = [patch EXCEPT !.pc = "update"]
     \/ /\ (\E k \in DOMAIN c : c[k] = "throw") \/ ~ HasUpdates(c)
        /\ AnswerPatch(400)
     \/ AnswerPatch(409)
  /\ UNCHANGED <<patchRow, columns>>

\* repository.update: no SET clause and no such row are both null, which the
\* services answer with 404.  The database refuses a value that does not fit the
\* column (500), a null in a NOT NULL column (400), and what breaks a UNIQUE or
\* FOREIGN KEY constraint (409 stands for both answers).
UpdatePatched ==
  LET c == Settled(patch)
      unfit == \E k \in DOMAIN c : c[k] = "unfit"
      hollow == \E k \in DOMAIN c : c[k] = "null" /\ patch.fields[k].notNull
  IN
  /\ patch.pc = "update"
  /\ \/ /\ ~ patchRow \/ ~ HasUpdates(c)
        /\ AnswerPatch(404)
        /\ UNCHANGED columns
     \/ /\ patchRow /\ HasUpdates(c)
        /\ \/ unfit /\ AnswerPatch(500)
           \/ hollow /\ AnswerPatch(400)
           \/ AnswerPatch(409)
        /\ UNCHANGED columns
     \/ /\ patchRow /\ HasUpdates(c) /\ ~ unfit /\ ~ hollow
        /\ columns' = [k \in DOMAIN c |->
             CASE c[k] = "absent" -> columns[k]
               [] c[k] \in {"null", "coerced"} -> c[k]
               [] OTHER -> "set"]
        /\ AnswerPatch(200)
  /\ UNCHANGED patchRow

\* Another request deletes the row.
DeletePatched ==
  /\ patchRow /\ patch.pc # "done"
  /\ patchRow' = FALSE
  /\ UNCHANGED <<patch, columns>>

PatchNext == FindPatched \/ CheckPatch \/ UpdatePatched \/ DeletePatched

PatchSpec == PatchInit /\ [][PatchNext]_patchVars

-----------------------------------------------------------------------------
(* Properties                                                              *)

\* Type invariant.
PatchTypeOK ==
  /\ patch.pc \in {"find", "check", "update", "done"}
  /\ patch.fields \in Updates
  /\ patch.body \in Bodies(patch.fields)
  /\ patch.answer \in {0, 200, 400, 404, 409, 500}
  /\ patchRow \in BOOLEAN
  /\ columns \in [DOMAIN patch.fields -> {"kept", "set", "coerced", "null"}]

\* For every service: a PATCH is answered 404 for its row only when the row is
\* gone, 500 only for a value that does not fit its column, and 200 only when it
\* set a column; no null gets as far as a NOT NULL column; no column is touched
\* that the body leaves out, a null never leaves another value behind it, and only
\* a number is ever made out of something else (validators.ts:17, :203, :354).
PatchAnswersTrue ==
  /\ patch.answer = 404 => ~ patchRow
  /\ patch.answer = 500 => \E k \in DOMAIN columns : patch.body[k] = "unfit"
  /\ patch.answer = 200 => \E k \in DOMAIN columns : columns[k] # "kept"
  /\ patch.pc = "update" =>
       \A k \in DOMAIN columns : Settled(patch)[k] = "null" => ~ patch.fields[k].notNull
  /\ \A k \in DOMAIN columns :
       /\ columns[k] = "set" => patch.body[k] = "good"
       /\ columns[k] = "coerced" => /\ patch.body[k] \in Coercible
                                    /\ patch.fields[k].check \in {"integer", "number"}
       /\ columns[k] = "null" => patch.body[k] = "null"

-----------------------------------------------------------------------------
(* What the documentation of the code says and the code does not keep       *)

\* "That is what lets a PATCH clear a column" (validators.ts:12): a null for
\* users.gender, exams.exam_type or an enrollment's class_id is passed over in
\* silence when the body sets another column.
NullIsHeard ==
  patch.answer = 200 => \A k \in DOMAIN columns : patch.body[k] = "null" => columns[k] = "null"

\* "A blank text input is far more often an accident than an intent to erase"
\* (validators.ts:18): a blank field is to store nothing.
BlankStoresNothing ==
  \A k \in DOMAIN columns : patch.body[k] \in {"empty", "spaces"} => columns[k] = "kept"
=============================================================================
