------------------------------- MODULE MCRecords -------------------------------
(***************************************************************************)
(* The modules of the records side by side, for TLC.  They share no variable, *)
(* so a behaviour is one of them (`part`, chosen in the initial state), and   *)
(* the other modules stand still.                                           *)
(***************************************************************************)
EXTENDS Uploads, AcademicSessions, Attendance, Accounts, RefreshTokens, References, Names,
        ExamResults, Patches, Listing, HttpApi, Bootstrap, TLC

VARIABLE part

Parts ==
  {"uploads", "sessions", "sheet", "logs", "accounts", "tokens", "passwords", "references",
   "names", "exams", "patches", "lists", "http", "bootstrap"}

\* Modules with several initial states have them in their own part only.
Init ==
  /\ part \in Parts
  /\ UploadInit /\ AttendanceInit /\ AccountInit /\ AuthInit /\ HttpInit /\ BootInit
  /\ SessionInit /\ (part # "sessions" => by = [s \in Sessions |-> CHOOSE r \in Requests : TRUE])
  /\ NameInit /\ (part # "names" => kind = "class")
  /\ ReferenceInit
  /\ part # "references" => link = <<"section", "class">> /\ child = "none"
  /\ ExamInit /\ (part # "exams" => exam.placed)
  /\ PatchInit /\ (part # "patches" => patch.fields = classUpdate /\ patch.body = [name |-> "good"])
  /\ part # "lists" => /\ listed = [i \in Rows |-> [key |-> 1, kept |-> FALSE]]
                       /\ unique = FALSE /\ ordered = TRUE
                       /\ walk = NewWalk(GetLimit(CHOOSE raw \in RawLimits : TRUE))
  /\ ListInit

Stays(p, vars) == IF part \in p THEN TRUE ELSE UNCHANGED vars

Next ==
  /\ UNCHANGED part
  /\ Stays({"uploads"}, uploadVars) /\ Stays({"sessions"}, sessionVars)
  /\ Stays({"sheet", "logs"}, attendanceVars) /\ Stays({"accounts"}, accountVars)
  /\ Stays({"tokens", "passwords"}, authVars) /\ Stays({"references"}, referenceVars)
  /\ Stays({"names"}, nameVars) /\ Stays({"exams"}, examVars)
  /\ Stays({"patches"}, patchVars) /\ Stays({"lists"}, listVars)
  /\ Stays({"http"}, httpVars) /\ Stays({"bootstrap"}, bootVars)
  /\ \/ part = "uploads" /\ UploadNext
     \/ part = "sessions" /\ SessionNext
     \/ part = "sheet" /\ SheetNext
     \/ part = "logs" /\ LogNext
     \/ part = "accounts" /\ AccountNext
     \/ part = "tokens" /\ TokenNext
     \/ part = "passwords" /\ PasswordNext
     \/ part = "references" /\ ReferenceNext
     \/ part = "names" /\ NameNext
     \/ part = "exams" /\ ExamNext
     \/ part = "patches" /\ PatchNext
     \/ part = "lists" /\ ListNext
     \/ part = "http" /\ HttpNext
     \/ part = "bootstrap" /\ BootNext

recordVars ==
  <<part, uploadVars, sessionVars, attendanceVars, accountVars, authVars, referenceVars,
    nameVars, examVars, patchVars, listVars, httpVars, bootVars>>

Spec == Init /\ [][Next]_recordVars

\* The type invariants of the modules: every variable keeps its type, and every
\* row number and lock that a request holds is one it may hold.
RecordsTypeOK ==
  /\ UploadTypeOK /\ SessionTypeOK /\ AttendanceTypeOK /\ AccountTypeOK /\ AuthTypeOK
  /\ ReferenceTypeOK /\ NameTypeOK /\ ExamTypeOK /\ PatchTypeOK /\ ListTypeOK
  /\ HttpTypeOK /\ BootTypeOK

Symmetry == Permutations(Requests)
=============================================================================
