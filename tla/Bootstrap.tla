------------------------------- MODULE Bootstrap -------------------------------
(***************************************************************************)
(* The scripts that make the database: which roles, permissions and grants   *)
(* they leave behind, in whatever order they are run, when one of their       *)
(* statements fails, and when one is cut off.  db-init sends the statements    *)
(* of a file one by one on one connection and exits at the first error; only  *)
(* seed.sql has a transaction around it.                                     *)
(***************************************************************************)
EXTENDS Sequences, Naturals

VARIABLES
  tables,   \* schema.sql has run
  migrated, \* the tables and columns of the migrations are there
  db,       \* the committed rows of roles, permissions and role_permissions
  seen,     \* the same rows as the connection of the script sees them
  open,     \* whether it is in a transaction
  script,   \* the steps that the running script has left
  command,  \* the script that ran last
  ended     \* how it ended

bootVars == <<tables, migrated, db, seen, open, script, command, ended>>

-----------------------------------------------------------------------------
Roles == {"SUPER_ADMIN", "ADMIN", "TEACHER", "STUDENT", "ACCOUNTANT", "STAFF"}

\* The permissions that seed.sql inserts.
SeedPermissions ==
  {"USER_READ", "USER_CREATE", "USER_UPDATE", "USER_DELETE",
   "ROLE_READ", "ROLE_CREATE", "ROLE_UPDATE", "ROLE_DELETE",
   "PERMISSION_READ", "PERMISSION_CREATE", "PERMISSION_UPDATE", "PERMISSION_DELETE",
   "STUDENT_READ", "STUDENT_CREATE", "STUDENT_UPDATE", "STUDENT_DELETE",
   "TEACHER_READ", "TEACHER_CREATE", "TEACHER_UPDATE", "TEACHER_DELETE",
   "CLASS_READ", "CLASS_CREATE", "CLASS_UPDATE", "CLASS_DELETE",
   "SECTION_READ", "SECTION_CREATE", "SECTION_UPDATE", "SECTION_DELETE",
   "SUBJECT_READ", "SUBJECT_CREATE", "SUBJECT_UPDATE", "SUBJECT_DELETE",
   "SUBJECT_ASSIGNMENT_READ", "SUBJECT_ASSIGNMENT_CREATE",
   "SUBJECT_ASSIGNMENT_UPDATE", "SUBJECT_ASSIGNMENT_DELETE",
   "SESSION_READ", "SESSION_CREATE", "SESSION_UPDATE", "SESSION_DELETE",
   "EXAM_READ", "EXAM_CREATE", "EXAM_UPDATE", "EXAM_DELETE",
   "ENROLLMENT_READ", "ENROLLMENT_CREATE", "ENROLLMENT_UPDATE",
   "EXAM_RESULT_READ", "EXAM_RESULT_CREATE", "EXAM_RESULT_UPDATE",
   "RANKING_READ", "RANKING_GENERATE", "RANKING_RECALCULATE", "RANKING_UNLOCK",
   "ERROR_LOG_READ", "ERROR_LOG_DELETE"}

\* What it grants by name; SUPER_ADMIN gets whatever is in permissions.
SeedGrants ==
  [role \in Roles |->
     CASE role = "ADMIN" ->
            SeedPermissions \
              {"ROLE_CREATE", "ROLE_UPDATE", "ROLE_DELETE", "PERMISSION_CREATE",
               "PERMISSION_UPDATE", "PERMISSION_DELETE", "ERROR_LOG_READ",
               "ERROR_LOG_DELETE"}
       [] role = "TEACHER" ->
            {"STUDENT_READ", "TEACHER_READ", "CLASS_READ", "SECTION_READ",
             "SUBJECT_READ", "SUBJECT_ASSIGNMENT_READ", "SESSION_READ",
             "ENROLLMENT_READ", "EXAM_READ", "RANKING_READ", "EXAM_RESULT_READ",
             "EXAM_RESULT_CREATE", "EXAM_RESULT_UPDATE"}
       [] role = "STUDENT" -> {"SESSION_READ", "EXAM_READ", "EXAM_RESULT_READ",
                               "RANKING_READ"}
       [] role = "ACCOUNTANT" -> {"USER_READ", "STUDENT_READ", "SESSION_READ"}
       [] role = "STAFF" -> {"SESSION_READ"}
       [] OTHER -> {}]

\* The permissions of 004_uploads.sql and its grants.
UploadPermissions ==
  {"UPLOAD_CREATE", "UPLOAD_READ", "UPLOAD_DELETE", "UPLOAD_RESTORE", "UPLOAD_MANAGE"}

UploadGrants ==
  {"SUPER_ADMIN", "ADMIN"} \X UploadPermissions
    \cup {"TEACHER"} \X {"UPLOAD_CREATE", "UPLOAD_READ", "UPLOAD_DELETE"}
    \cup {"STUDENT"} \X {"UPLOAD_CREATE", "UPLOAD_READ"}

\* Mutated FeeStructures: a class has one.
FeeStructuresOncePerClass == <<1, 2, 3, 4, 5>>

\* The class of each fee structure of the seed; the academic session is the same.
FeeStructures == <<1, 1, 2, 2, 3, 4, 5>>

\* UNIQUE (class_id, academic_session_id)
FeesAreUnique ==
  \A i, j \in DOMAIN FeeStructures : FeeStructures[i] = FeeStructures[j] => i = j

\* The scripts of package.json, as the steps that matter here.
Schema     == <<"schema">>
Migrations == <<"migrated_tables", "upload_permissions", "upload_grants">>
Seed       == <<"begin", "seed_names", "seed_rows">>
Truncate   == <<"truncate">>

Scripts ==
  [db_schema |-> Schema, db_migrate |-> Migrations, db_seed |-> Seed,
   db_init |-> Schema \o Migrations \o Seed,
   db_truncate |-> Truncate, db_fresh |-> Truncate \o Seed]

Nothing == [roles |-> FALSE, permission |-> {}, grant |-> {}]

BootInit ==
  /\ tables = FALSE /\ migrated = FALSE
  /\ db = Nothing /\ seen = Nothing /\ open = FALSE
  /\ script = <<>>
  /\ command = "db_schema" /\ ended = "ok"

-----------------------------------------------------------------------------
Start(name) ==
  /\ script = <<>>
  /\ script' = Scripts[name]
  /\ command' = name
  /\ ended' = "running"
  /\ UNCHANGED <<tables, migrated, db, seen, open>>

NextStep(step) == script # <<>> /\ Head(script) = step

StepDone ==
  /\ script' = Tail(script)
  /\ ended' = IF Tail(script) = <<>> THEN "ok" ELSE "running"
  /\ UNCHANGED command

\* A statement outside a transaction commits by itself.
Execute(rows) ==
  /\ seen' = rows
  /\ db' = IF open THEN db ELSE rows
  /\ UNCHANGED <<tables, migrated, open>>

\* The script is over, with its connection and the transaction that is open.
Stop(how) ==
  /\ script' = <<>>
  /\ ended' = how
  /\ seen' = db /\ open' = FALSE
  /\ UNCHANGED <<tables, migrated, db, command>>

\* CREATE TABLE IF NOT EXISTS.
RunSchema ==
  /\ NextStep("schema")
  /\ tables' = TRUE
  /\ StepDone
  /\ UNCHANGED <<migrated, db, seen, open>>

\* The tables of the migrations 001 to 004, and the columns that 001 adds.
RunMigratedTables ==
  /\ NextStep("migrated_tables") /\ tables
  /\ migrated' = TRUE
  /\ StepDone
  /\ UNCHANGED <<tables, db, seen, open>>

\* INSERT INTO permissions ... ON CONFLICT DO NOTHING
RunUploadPermissions ==
  /\ NextStep("upload_permissions") /\ tables
  /\ Execute([seen EXCEPT !.permission = @ \cup UploadPermissions])
  /\ StepDone

\* INSERT INTO role_permissions; ON CONFLICT does not help against the foreign key
\* to roles.
RunUploadGrants ==
  /\ NextStep("upload_grants") /\ tables
  /\ IF seen.roles
       THEN Execute([seen EXCEPT !.grant = @ \cup UploadGrants]) /\ StepDone
       ELSE Stop("failed")

\* BEGIN
RunBegin ==
  /\ NextStep("begin")
  /\ open' = TRUE
  /\ StepDone
  /\ UNCHANGED <<tables, migrated, db, seen>>

\* The roles, the permissions and the grants.  The rows have fixed keys: a second
\* seed violates them.
RunSeedNames ==
  LET names == seen.permission \cup SeedPermissions IN
  /\ NextStep("seed_names") /\ tables
  /\ IF seen.roles THEN Stop("failed")
     ELSE /\ Execute([roles      |-> TRUE,
                      permission |-> names,
                      grant      |-> seen.grant \cup
                        {g \in Roles \X names : g[1] = "SUPER_ADMIN" \/ g[2] \in SeedGrants[g[1]]}])
          /\ StepDone

\* The other rows, and COMMIT.  Enrollments and exams have columns of 001, and a
\* class has one fee structure per session.
RunSeedRows ==
  /\ NextStep("seed_rows")
  /\ IF migrated /\ FeesAreUnique
       THEN /\ db' = seen /\ open' = FALSE
            /\ StepDone
            /\ UNCHANGED <<tables, migrated, seen>>
       ELSE Stop("failed")

\* TRUNCATE ... CASCADE of the tables of both.
RunTruncate ==
  /\ NextStep("truncate") /\ tables /\ migrated
  /\ Execute(Nothing)
  /\ StepDone

\* A statement whose tables are not there ends the script with exit code 1.
StepFails ==
  /\ script # <<>>
  /\ \/ Head(script) \notin {"schema", "begin"} /\ ~ tables
     \/ NextStep("truncate") /\ ~ migrated
  /\ Stop("failed")

\* The connection is lost, or somebody stops the script.
CutOff == script # <<>> /\ Stop("cut_off")

BootNext ==
  \/ \E name \in DOMAIN Scripts : Start(name)
  \/ RunSchema \/ RunMigratedTables \/ RunUploadPermissions \/ RunUploadGrants
  \/ RunBegin \/ RunSeedNames \/ RunSeedRows \/ RunTruncate \/ StepFails \/ CutOff

BootSpec == BootInit /\ [][BootNext]_bootVars

-----------------------------------------------------------------------------
(* Properties                                                              *)

BootRows(rows) ==
  /\ DOMAIN rows = {"roles", "permission", "grant"}
  /\ rows.roles \in BOOLEAN
  /\ rows.permission \subseteq SeedPermissions \cup UploadPermissions
  /\ rows.grant \subseteq Roles \X rows.permission

\* Type invariant.
BootTypeOK ==
  /\ tables \in BOOLEAN /\ migrated \in BOOLEAN /\ open \in BOOLEAN
  /\ BootRows(db) /\ BootRows(seen)
  /\ script \in Seq({"schema", "migrated_tables", "upload_permissions", "upload_grants",
                     "begin", "seed_names", "seed_rows", "truncate"})
  /\ command \in DOMAIN Scripts
  /\ ended \in {"ok", "running", "failed", "cut_off"}

\* Whichever scripts run in whatever order, and wherever one fails or is cut off:
\* nothing of the seed is ever half there.  Its last rows violate a constraint
\* (seed.sql:451, schema.sql:299), so its names, which came before, go with them, no
\* migration can grant anything, and the only rows that stay are the names that
\* 004_uploads.sql inserts.
NothingOfTheSeedStays ==
  ~ db.roles /\ db.grant = {} /\ db.permission \subseteq UploadPermissions

-----------------------------------------------------------------------------
(* What the documentation of the code says and the code does not keep       *)

\* README.md:59, "Shortcut for the full bootstrap": a db:init that is not cut off
\* leaves the roles and the permissions there.
InitBootstraps == command = "db_init" /\ ended \in {"ok", "failed"} => db.roles

\* README.md:56, "default roles, permissions, super-admin": so does a db:seed after
\* db:schema and the tables of db:migrate.
SeedGivesRoles ==
  command = "db_seed" /\ ended \in {"ok", "failed"} /\ tables /\ migrated => db.roles
=============================================================================
