----------------------------- MODULE RecordsProofs -----------------------------
(***************************************************************************)
(* Uploads, rows that point to rows, names, attendance, patches and lists,    *)
(* for any number of requests, rows, names, pupils, fields and pages; and all  *)
(* the modules of the records side by side.                                   *)
(***************************************************************************)
EXTENDS AccessProofs, SchoolYearProofs, MCRecords, FiniteSetTheorems, TLAPS

-----------------------------------------------------------------------------
(* Uploads                                                                 *)

\* ReadyIsStored is not inductive: a request between the look at the object and
\* the UPDATE carries what it saw.  The object changes by a PUT or a purge only;
\* after the one PUT it fits for every request or for none, so that nobody purges
\* what another one has found to fit.
SeenStored ==
  puts <= 1 =>
    /\ object # "absent" => puts = 1
    /\ file.status = "READY" => object = "fits"
    /\ \A r \in Requests :
         /\ up[r].pc = "ready" => object = "fits"
         /\ up[r].pc = "purge" => object # "fits" /\ puts = 1

UploadInv == UploadTypeOK /\ SeenStored

-----------------------------------------------------------------------------
LEMMA UploadTypeInit == UploadInit => UploadTypeOK
  <1> SUFFICES ASSUME UploadInit PROVE UploadTypeOK
    OBVIOUS
  <1>1. file \in UploadRow
    BY DEF UploadInit, UploadRow
  <1>2. up \in [Requests -> Upload]
    BY DEF UploadInit, NoUpload, Upload
  <1>3. \A r \in Requests : up[r].pc = "log" <=> up[r].log # "none"
    BY DEF UploadInit, NoUpload
  <1>4. QED
    BY <1>1, <1>2, <1>3 DEF UploadInit, UploadTypeOK, Objects

\* The requests are well typed, and write an audit row exactly when they have one.
RequestsOK ==
  /\ up \in [Requests -> Upload]
  /\ \A r \in Requests : up[r].pc = "log" <=> up[r].log # "none"

LEMMA StepRequests ==
  ASSUME RequestsOK, NEW r \in Requests, NEW from,
         NEW to \in {"idle", "head", "purge", "fail", "ready", "delete", "restore"},
         UploadStep(r, from, to)
  PROVE  /\ RequestsOK'
         /\ up[r].pc = from /\ up'[r].pc = to
         /\ \A q \in Requests \ {r} : up'[q] = up[q]
  <1>1. up' = [up EXCEPT ![r] = [pc |-> to, log |-> "none"]] /\ up \in [Requests -> Upload]
    BY DEF UploadStep, RequestsOK
  <1>2. [pc |-> to, log |-> "none"] \in Upload
    BY DEF Upload
  <1>3. up' \in [Requests -> Upload]
    BY <1>1, <1>2
  <1>4. up'[r].pc = to /\ up'[r].log = "none" /\ \A q \in Requests \ {r} : up'[q] = up[q]
    BY <1>1
  <1>5. \A q \in Requests : up'[q].pc = "log" <=> up'[q].log # "none"
    BY <1>4 DEF RequestsOK
  <1>6. QED
    BY <1>3, <1>4, <1>5 DEF RequestsOK, UploadStep

LEMMA LogRequests ==
  ASSUME RequestsOK, NEW r \in Requests, NEW from, NEW action \in UploadActions,
         UploadLog(r, from, action)
  PROVE  /\ RequestsOK'
         /\ up[r].pc = from /\ up'[r].pc = "log"
         /\ \A q \in Requests \ {r} : up'[q] = up[q]
  <1>1. up' = [up EXCEPT ![r] = [pc |-> "log", log |-> action]] /\ up \in [Requests -> Upload]
    BY DEF UploadLog, RequestsOK
  <1>2. [pc |-> "log", log |-> action] \in Upload /\ action # "none"
    BY DEF Upload, UploadActions
  <1>3. up' \in [Requests -> Upload]
    BY <1>1, <1>2
  <1>4. up'[r].pc = "log" /\ up'[r].log = action /\ \A q \in Requests \ {r} : up'[q] = up[q]
    BY <1>1
  <1>5. \A q \in Requests : up'[q].pc = "log" <=> up'[q].log # "none"
    BY <1>2, <1>4 DEF RequestsOK
  <1>6. QED
    BY <1>3, <1>4, <1>5 DEF RequestsOK, UploadLog

\* An UPDATE of the row.
LEMMA StatusRow ==
  ASSUME UploadTypeOK, NEW status \in {"PENDING", "READY", "FAILED"}, SetFileStatus(status)
  PROVE  file' \in UploadRow /\ (file'.status = file.status \/ file'.status = status)
  BY DEF UploadTypeOK, UploadRow, SetFileStatus

LEMMA DeletedRow ==
  ASSUME UploadTypeOK, NEW b \in BOOLEAN, file' = [file EXCEPT !.deleted = b]
  PROVE  file' \in UploadRow /\ file'.status = file.status
  BY DEF UploadTypeOK, UploadRow

LEMMA UploadTypeStep == UploadTypeOK /\ [UploadNext]_uploadVars => UploadTypeOK'
  <1> SUFFICES ASSUME UploadTypeOK, [UploadNext]_uploadVars
               PROVE  UploadTypeOK'
    OBVIOUS
  <1>0. RequestsOK
    BY DEF UploadTypeOK, RequestsOK
  <1>1. CASE UNCHANGED uploadVars
    BY <1>1 DEF uploadVars, UploadTypeOK
  <1>2. ASSUME NEW r \in Requests, UploadCall(r)
        PROVE  UploadTypeOK'
    <2>1. CASE GenerateUrl(r)
      <3>1. RequestsOK'
        BY <1>0, <2>1, LogRequests DEF GenerateUrl, UploadActions
      <3>2. file' \in UploadRow
        BY <2>1 DEF GenerateUrl, UploadRow
      <3>3. QED
        BY <2>1, <3>1, <3>2 DEF GenerateUrl, UploadTypeOK, RequestsOK
    <2>2. CASE Download(r)
      <3>1. RequestsOK'
        BY <1>0, <2>2, LogRequests DEF Download, UploadActions
      <3>2. QED
        BY <2>2, <3>1 DEF Download, UploadTypeOK, RequestsOK
    <2>3. CASE ConfirmFind(r) \/ DeleteFind(r) \/ RestoreFind(r)
      <3>1. RequestsOK'
        BY <1>0, <2>3, StepRequests DEF ConfirmFind, DeleteFind, RestoreFind
      <3>2. QED
        BY <2>3, <3>1 DEF ConfirmFind, DeleteFind, RestoreFind, UploadTypeOK, RequestsOK
    <2>4. QED
      BY <1>2, <2>1, <2>2, <2>3 DEF UploadCall
  <1>3. ASSUME NEW r \in Requests, UploadHandle(r)
        PROVE  UploadTypeOK'
    <2>1. CASE WriteAudit(r)
      <3>1. RequestsOK' /\ up[r].pc = "log"
        BY <1>0, <2>1, StepRequests DEF WriteAudit
      <3>2. up[r].log \in UploadActions
        BY <1>0, <3>1 DEF RequestsOK, Upload
      <3>3. QED
        BY <2>1, <3>1, <3>2 DEF WriteAudit, UploadTypeOK, RequestsOK
    <2>2. CASE ConfirmHead(r)
      <3>1. RequestsOK'
        BY <1>0, <2>2, StepRequests DEF ConfirmHead
      <3>2. QED
        BY <2>2, <3>1 DEF ConfirmHead, UploadTypeOK, RequestsOK
    <2>3. CASE Purge(r)
      <3>1. RequestsOK'
        BY <1>0, <2>3, StepRequests DEF Purge
      <3>2. QED
        BY <2>3, <3>1 DEF Purge, UploadTypeOK, RequestsOK, Objects
    <2>4. CASE MarkFailed(r)
      <3>1. RequestsOK'
        BY <1>0, <2>4, StepRequests DEF MarkFailed
      <3>2. QED
        BY <2>4, <3>1, StatusRow DEF MarkFailed, UploadTypeOK, RequestsOK
    <2>5. CASE MarkReady(r)
      <3>1. RequestsOK'
        BY <1>0, <2>5, LogRequests DEF MarkReady, UploadActions
      <3>2. QED
        BY <2>5, <3>1, StatusRow DEF MarkReady, UploadTypeOK, RequestsOK
    <2>6. CASE DeleteFile(r) \/ RestoreFile(r)
      <3>1. RequestsOK'
        BY <1>0, <2>6, LogRequests DEF DeleteFile, RestoreFile, UploadActions
      <3>2. QED
        BY <2>6, <3>1, DeletedRow DEF DeleteFile, RestoreFile, UploadTypeOK, RequestsOK
    <2>7. QED
      BY <1>3, <2>1, <2>2, <2>3, <2>4, <2>5, <2>6 DEF UploadHandle
  <1>4. ASSUME NEW r \in Requests, UploadFault(r)
        PROVE  UploadTypeOK'
    <2>1. UploadStep(r, up[r].pc, "idle")
      BY <1>4 DEF UploadFault, UploadStep, NoUpload
    <2>2. RequestsOK'
      BY <1>0, <2>1, StepRequests
    <2>3. QED
      BY <1>4, <2>2 DEF UploadFault, UploadTypeOK, RequestsOK
  <1>5. ASSUME NEW size \in {"fits", "oversize"}, PutObject(size)
        PROVE  UploadTypeOK'
    BY <1>5 DEF PutObject, UploadTypeOK, Objects
  <1>6. CASE UrlExpires
    BY <1>6 DEF UrlExpires, UploadTypeOK
  <1>7. QED
    BY <1>1, <1>2, <1>3, <1>4, <1>5, <1>6 DEF UploadNext

\* Type correctness; a request has an audit row to write exactly when that is its
\* next step.
THEOREM UploadTypeCorrect == UploadSpec => []UploadTypeOK
  BY UploadTypeInit, UploadTypeStep, PTL DEF UploadSpec

-----------------------------------------------------------------------------
(* READY rows                                                              *)

\* A step that leaves the object and the counter alone, makes no row READY, and
\* takes no request to "ready" or "purge".
LEMMA NothingSeen ==
  ASSUME SeenStored, object' = object, puts' = puts,
         file'.status = "READY" => file.status = "READY",
         \A q \in Requests : up'[q].pc \in {"ready", "purge"} => up'[q] = up[q]
  PROVE  SeenStored'
  BY DEF SeenStored

\* A request that neither looks nor purges moves on.
LEMMA OneMoves ==
  ASSUME SeenStored, NEW r \in Requests, object' = object, puts' = puts,
         file'.status = "READY" => file.status = "READY",
         up'[r].pc \notin {"ready", "purge"},
         \A q \in Requests \ {r} : up'[q] = up[q]
  PROVE  SeenStored'
  <1>1. \A q \in Requests : up'[q].pc \in {"ready", "purge"} => up'[q] = up[q]
    OBVIOUS
  <1>2. QED
    BY <1>1, NothingSeen

LEMMA SeenStoredInit == UploadInit => SeenStored
  BY DEF UploadInit, SeenStored, NoUpload

LEMMA SeenStoredStep == UploadInv /\ [UploadNext]_uploadVars => SeenStored'
  <1> SUFFICES ASSUME UploadTypeOK, SeenStored, [UploadNext]_uploadVars
               PROVE  SeenStored'
    BY DEF UploadInv
  <1>0. RequestsOK /\ puts \in Nat
    BY DEF UploadTypeOK, RequestsOK
  <1>1. CASE UNCHANGED uploadVars
    BY <1>1 DEF uploadVars, SeenStored
  <1>2. ASSUME NEW r \in Requests, UploadCall(r)
        PROVE  SeenStored'
    <2>1. CASE GenerateUrl(r)
      <3>1. up'[r].pc = "log" /\ \A q \in Requests \ {r} : up'[q] = up[q]
        BY <1>0, <2>1, LogRequests DEF GenerateUrl, UploadActions
      <3>2. file'.status = "PENDING" /\ object' = object /\ puts' = puts
        BY <2>1 DEF GenerateUrl
      <3>3. QED
        BY <3>1, <3>2, OneMoves
    <2>2. CASE Download(r)
      <3>1. up'[r].pc = "log" /\ \A q \in Requests \ {r} : up'[q] = up[q]
        BY <1>0, <2>2, LogRequests DEF Download, UploadActions
      <3>2. file' = file /\ object' = object /\ puts' = puts
        BY <2>2 DEF Download
      <3>3. QED
        BY <3>1, <3>2, OneMoves
    <2>3. CASE ConfirmFind(r) \/ DeleteFind(r) \/ RestoreFind(r)
      <3>1. up'[r].pc \in {"head", "delete", "restore"}
            /\ \A q \in Requests \ {r} : up'[q] = up[q]
        BY <1>0, <2>3, StepRequests DEF ConfirmFind, DeleteFind, RestoreFind
      <3>2. file' = file /\ object' = object /\ puts' = puts
        BY <2>3 DEF ConfirmFind, DeleteFind, RestoreFind
      <3>3. QED
        BY <3>1, <3>2, OneMoves
    <2>4. QED
      BY <1>2, <2>1, <2>2, <2>3 DEF UploadCall
  <1>3. ASSUME NEW r \in Requests, ConfirmHead(r)
        PROVE  SeenStored'
    <2> DEFINE to == CASE object = "absent"   -> "fail"
                       [] object = "oversize" -> "purge"
                       [] OTHER               -> "ready"
    <2>1. object \in {"absent", "fits", "oversize"}
      BY DEF UploadTypeOK, Objects
    <2>2. /\ to \in {"fail", "purge", "ready"}
          /\ to = "purge" => object = "oversize"
          /\ to = "ready" => object = "fits"
      BY <2>1
    <2> HIDE DEF to
    <2>3. UploadStep(r, "head", to) /\ file' = file /\ object' = object /\ puts' = puts
      BY <1>3 DEF ConfirmHead, to
    <2>4. up'[r].pc = to /\ \A q \in Requests \ {r} : up'[q] = up[q]
      BY <1>0, <2>2, <2>3, StepRequests
    <2>5. QED
      BY <2>2, <2>3, <2>4 DEF SeenStored
  <1>4. ASSUME NEW r \in Requests, Purge(r)
        PROVE  SeenStored'
    <2>1. /\ up[r].pc = "purge" /\ up'[r].pc = "fail"
          /\ \A q \in Requests \ {r} : up'[q] = up[q]
      BY <1>0, <1>4, StepRequests DEF Purge
    <2>2. file' = file /\ object' = "absent" /\ puts' = puts
      BY <1>4 DEF Purge
    <2>3. QED
      BY <2>1, <2>2 DEF SeenStored
  <1>5. ASSUME NEW r \in Requests, MarkReady(r)
        PROVE  SeenStored'
    <2>1. /\ up[r].pc = "ready" /\ up'[r].pc = "log"
          /\ \A q \in Requests \ {r} : up'[q] = up[q]
      BY <1>0, <1>5, LogRequests DEF MarkReady, UploadActions
    <2>2. object' = object /\ puts' = puts
      BY <1>5 DEF MarkReady
    <2>3. QED
      BY <2>1, <2>2 DEF SeenStored
  <1>6. ASSUME NEW r \in Requests, MarkFailed(r)
        PROVE  SeenStored'
    <2>1. up'[r].pc = "idle" /\ \A q \in Requests \ {r} : up'[q] = up[q]
      BY <1>0, <1>6, StepRequests DEF MarkFailed
    <2>2. (file'.status = "READY" => file.status = "READY") /\ object' = object /\ puts' = puts
      BY <1>6, StatusRow DEF MarkFailed
    <2>3. QED
      BY <2>1, <2>2, OneMoves
  <1>7. ASSUME NEW r \in Requests, DeleteFile(r) \/ RestoreFile(r)
        PROVE  SeenStored'
    <2>1. up'[r].pc = "log" /\ \A q \in Requests \ {r} : up'[q] = up[q]
      BY <1>0, <1>7, LogRequests DEF DeleteFile, RestoreFile, UploadActions
    <2>2. file'.status = file.status /\ object' = object /\ puts' = puts
      BY <1>7, DeletedRow DEF DeleteFile, RestoreFile
    <2>3. QED
      BY <2>1, <2>2, OneMoves
  <1>8. ASSUME NEW r \in Requests, WriteAudit(r) \/ UploadFault(r)
        PROVE  SeenStored'
    <2>1. UploadStep(r, up[r].pc, "idle")
      BY <1>8 DEF WriteAudit, UploadFault, UploadStep, NoUpload
    <2>2. up'[r].pc = "idle" /\ \A q \in Requests \ {r} : up'[q] = up[q]
      BY <1>0, <2>1, StepRequests
    <2>3. file' = file /\ object' = object /\ puts' = puts
      BY <1>8 DEF WriteAudit, UploadFault
    <2>4. QED
      BY <2>2, <2>3, OneMoves
  <1>9. ASSUME NEW size \in {"fits", "oversize"}, PutObject(size)
        PROVE  SeenStored'
    <2>1. file' = file /\ up' = up /\ puts' = puts + 1
      BY <1>9 DEF PutObject
    <2>2. SUFFICES ASSUME puts + 1 <= 1 PROVE SeenStored'
      BY <2>1 DEF SeenStored
    <2>3. puts = 0 /\ object = "absent"
      BY <1>0, <2>2 DEF SeenStored
    <2>4. /\ file.status # "READY"
          /\ \A r \in Requests : up[r].pc \notin {"ready", "purge"}
      BY <2>3 DEF SeenStored
    <2>5. QED
      BY <2>1, <2>3, <2>4 DEF SeenStored
  <1>10. CASE UrlExpires
    BY <1>10 DEF UrlExpires, SeenStored
  <1>11. QED
    BY <1>1, <1>2, <1>3, <1>4, <1>5, <1>6, <1>7, <1>8, <1>9, <1>10
    DEF UploadNext, UploadHandle

\* A file that was sent once and is READY is there and within its limit, however
\* many confirmations, deletions and restorations overlap or are cut off.
THEOREM ReadyIsStoredHolds == UploadSpec => []ReadyIsStored
  <1>1. UploadInit => UploadInv
    BY UploadTypeInit, SeenStoredInit DEF UploadInv
  <1>2. UploadInv /\ [UploadNext]_uploadVars => UploadInv'
    BY UploadTypeStep, SeenStoredStep DEF UploadInv
  <1>3. UploadInv => ReadyIsStored
    BY DEF UploadInv, SeenStored, ReadyIsStored
  <1>4. QED
    BY <1>1, <1>2, <1>3, PTL DEF UploadSpec
-----------------------------------------------------------------------------
(* Rows that point to rows                                                 *)

\* What the requests under way have found stays so as long as they are alone: who
\* is to insert, restore or move a child has found the parent, and who is to delete
\* the parent has found no child of it.
FoundStays ==
  ~ editOverlap =>
    /\ \A q, r \in Requests : edit[q].pc # "idle" /\ edit[r].pc # "idle" => q = r
    /\ Guarded =>
         /\ Attached => parent = "live"
         /\ \A r \in Requests :
              /\ edit[r].pc \in {"insert", "upsert", "move"} => parent = "live"
              /\ edit[r].pc = "remove" => ~ Attached

ReferenceInv == ReferenceTypeOK /\ FoundStays

LEMMA ReferenceInitInv == ReferenceInit => ReferenceInv
  <1> SUFFICES ASSUME ReferenceInit PROVE ReferenceInv
    OBVIOUS
  <1>1. \A r \in Requests : edit[r].pc = "idle"
    BY DEF ReferenceInit
  <1>2. ReferenceTypeOK
    BY DEF ReferenceInit, ReferenceTypeOK, EditSteps
  <1>3. FoundStays
    BY <1>1 DEF ReferenceInit, FoundStays
  <1>4. QED
    BY <1>2, <1>3 DEF ReferenceInv

\* One request moves, the others stand still.
LEMMA EditMoves ==
  ASSUME ReferenceTypeOK, NEW r \in Requests, NEW from \in EditSteps,
         NEW to \in EditSteps, Step(r, from, to)
  PROVE  /\ edit' \in [Requests -> [pc: EditSteps]]
         /\ edit[r].pc = from /\ edit'[r].pc = to
         /\ \A q \in Requests \ {r} : edit'[q] = edit[q]
  BY DEF ReferenceTypeOK, Step

\* Only bulkCreate of results restores, and what keeps one is an exam.
LEMMA ResultsOfExams ==
  ASSUME ReferenceTypeOK, link[1] = "result", Guarded
  PROVE  link[2] = "exam"
  <1>1. link[2] \in DOMAIN DeleteKeeps
    <2>1. link \in Links
      BY DEF ReferenceTypeOK
    <2>2. PICK c \in DOMAIN CreateFinds : link \in {<<c, p>> : p \in CreateFinds[c]}
      BY <2>1 DEF Links
    <2>3. PICK p \in CreateFinds[c] : link = <<c, p>>
      BY <2>2
    <2>4. link[2] \in {"exam", "student", "subject"}
      BY <2>3 DEF CreateFinds, ResultFinds
    <2>5. QED
      BY <2>4 DEF DeleteKeeps
  <1>2. "result" \in DeleteKeeps[link[2]]
    BY DEF Guarded
  <1>3. QED
    BY <1>1, <1>2 DEF DeleteKeeps, ClassKeeps, SubjectKeeps, TeacherKeeps, StudentKeeps,
                      ExamKeeps, SectionKeeps

\* A request that begins.
LEMMA EditBegins ==
  ASSUME ReferenceInv, NEW r \in Requests,
         NEW pc \in {"insert", "upsert", "move", "remove"}, Begins(r, pc),
         Guarded /\ pc \in {"insert", "upsert", "move"} => parent = "live",
         Guarded /\ pc = "remove" => ~ Attached
  PROVE  ReferenceInv'
  <1>1. /\ edit' \in [Requests -> [pc: EditSteps]]
        /\ edit[r].pc = "idle" /\ edit'[r].pc = pc
        /\ \A q \in Requests \ {r} : edit'[q] = edit[q]
    BY EditMoves DEF Begins, ReferenceInv, EditSteps
  <1>2. /\ UNCHANGED <<link, parent, child, refers>>
        /\ editOverlap' = (editOverlap \/ Meets(edit, r))
    BY DEF Begins
  <1>3. ReferenceTypeOK'
    BY <1>1, <1>2 DEF ReferenceInv, ReferenceTypeOK, Meets
  <1>4. (Attached' <=> Attached) /\ (Guarded' <=> Guarded)
    BY <1>2 DEF Attached, Guarded, Moves, MoveFinds
  <1>5. ASSUME ~ editOverlap'
        PROVE  ~ editOverlap /\ \A q \in Requests \ {r} : edit'[q].pc = "idle"
    BY <1>1, <1>2, <1>5 DEF Meets
  <1>6. FoundStays'
    BY <1>1, <1>2, <1>4, <1>5 DEF ReferenceInv, FoundStays
  <1>7. QED
    BY <1>3, <1>6 DEF ReferenceInv

\* A request that ends: the others, if it was alone, are idle.
LEMMA WriteStep ==
  ASSUME ReferenceInv, NEW r \in Requests, NEW pc \in EditSteps, pc # "idle", Write(r, pc),
         parent' \in {"live", "deleted"}, child' \in {"none", "live", "deleted"},
         refers' \in BOOLEAN,
         ~ editOverlap /\ Guarded /\ Attached' => parent' = "live"
  PROVE  ReferenceInv'
  <1>1. /\ edit' \in [Requests -> [pc: EditSteps]]
        /\ edit[r].pc = pc /\ edit'[r].pc = "idle"
        /\ \A q \in Requests \ {r} : edit'[q] = edit[q]
    BY EditMoves DEF Write, ReferenceInv, EditSteps
  <1>2. UNCHANGED <<link, editOverlap>>
    BY DEF Write
  <1>3. ReferenceTypeOK'
    BY <1>1, <1>2 DEF ReferenceInv, ReferenceTypeOK
  <1>4. Guarded' <=> Guarded
    BY <1>2 DEF Guarded, Moves, MoveFinds
  <1>5. ~ editOverlap => \A q \in Requests : edit'[q].pc = "idle"
    BY <1>1 DEF ReferenceInv, FoundStays
  <1>6. FoundStays'
    BY <1>2, <1>4, <1>5 DEF FoundStays
  <1>7. QED
    BY <1>3, <1>6 DEF ReferenceInv

LEMMA ReferenceStep == ReferenceInv /\ [ReferenceNext]_referenceVars => ReferenceInv'
  <1> SUFFICES ASSUME ReferenceInv, [ReferenceNext]_referenceVars PROVE ReferenceInv'
    OBVIOUS
  <1> USE DEF EditSteps
  <1>0. /\ parent \in {"live", "deleted"} /\ child \in {"none", "live", "deleted"}
        /\ refers \in BOOLEAN
    BY DEF ReferenceInv, ReferenceTypeOK
  <1>1. ASSUME NEW r \in Requests, CreateChild(r) PROVE ReferenceInv'
    BY <1>1, EditBegins DEF CreateChild
  <1>2. ASSUME NEW r \in Requests, InsertChild(r) PROVE ReferenceInv'
    <2>1. /\ Write(r, "insert") /\ parent' = parent
          /\ child' \in {"none", "live", "deleted"} /\ refers' \in BOOLEAN
      BY <1>0, <1>2 DEF InsertChild
    <2>2. edit[r].pc = "insert"
      BY <2>1 DEF Write, Step
    <2>3. ~ editOverlap /\ Guarded => parent = "live"
      BY <2>2 DEF ReferenceInv, FoundStays
    <2>4. QED
      BY <1>0, <2>1, <2>3, WriteStep
  <1>3. ASSUME NEW r \in Requests, BulkCreate(r) PROVE ReferenceInv'
    <2>1. Guarded => parent = "live"
      BY <1>3, ResultsOfExams DEF BulkCreate, ReferenceInv
    <2>2. QED
      BY <1>3, <2>1, EditBegins DEF BulkCreate
  <1>4. ASSUME NEW r \in Requests, UpsertResult(r) PROVE ReferenceInv'
    <2>1. /\ Write(r, "upsert") /\ parent' = parent
          /\ child' = "live" /\ refers' = TRUE
      BY <1>4 DEF UpsertResult
    <2>2. edit[r].pc = "upsert"
      BY <2>1 DEF Write, Step
    <2>3. ~ editOverlap /\ Guarded => parent = "live"
      BY <2>2 DEF ReferenceInv, FoundStays
    <2>4. QED
      BY <1>0, <2>1, <2>3, WriteStep
  <1>5. ASSUME NEW r \in Requests, MoveChild(r) PROVE ReferenceInv'
    <2>1. Guarded => parent = "live"
      BY <1>5 DEF MoveChild, Guarded
    <2>2. QED
      BY <1>5, <2>1, EditBegins DEF MoveChild
  <1>6. ASSUME NEW r \in Requests, MoveWriteChild(r) PROVE ReferenceInv'
    <2>1. /\ Write(r, "move") /\ parent' = parent /\ child' = child
          /\ refers' \in BOOLEAN
      BY <1>0, <1>6 DEF MoveWriteChild
    <2>2. edit[r].pc = "move"
      BY <2>1 DEF Write, Step
    <2>3. ~ editOverlap /\ Guarded => parent = "live"
      BY <2>2 DEF ReferenceInv, FoundStays
    <2>4. QED
      BY <1>0, <2>1, <2>3, WriteStep
  <1>7. ASSUME NEW r \in Requests, RemoveParent(r) PROVE ReferenceInv'
    <2>1. Guarded => ~ Attached
      BY <1>7 DEF RemoveParent, Guarded
    <2>2. QED
      BY <1>7, <2>1, EditBegins DEF RemoveParent
  <1>8. ASSUME NEW r \in Requests, SoftDeleteParent(r) PROVE ReferenceInv'
    <2>1. /\ Write(r, "remove") /\ parent' = "deleted"
          /\ child' = child /\ refers' = refers
      BY <1>8 DEF SoftDeleteParent
    <2>2. edit[r].pc = "remove" /\ (Attached' <=> Attached)
      BY <2>1 DEF Write, Step, Attached
    <2>3. ~ editOverlap /\ Guarded => ~ Attached
      BY <2>2 DEF ReferenceInv, FoundStays
    <2>4. QED
      BY <1>0, <2>1, <2>2, <2>3, WriteStep
  <1>9. ASSUME NEW r \in Requests, EditAborts(r) PROVE ReferenceInv'
    <2>1. /\ edit[r].pc # "idle" /\ edit[r].pc \in EditSteps /\ Write(r, edit[r].pc)
          /\ UNCHANGED <<parent, child, refers>>
      BY <1>9 DEF EditAborts, ReferenceInv, ReferenceTypeOK
    <2>2. Attached' <=> Attached
      BY <2>1 DEF Attached
    <2>3. ~ editOverlap /\ Guarded /\ Attached => parent = "live"
      BY DEF ReferenceInv, FoundStays
    <2>4. QED
      BY <1>0, <2>1, <2>2, <2>3, WriteStep
  <1>10. CASE MoveAway \/ DropChild
    <2>1. /\ UNCHANGED <<link, parent, edit, editOverlap>> /\ ~ Attached'
          /\ child' \in {"none", "live", "deleted"} /\ refers' \in BOOLEAN
      BY <1>0, <1>10 DEF MoveAway, DropChild, Attached
    <2>2. Guarded' <=> Guarded
      BY <2>1 DEF Guarded, Moves, MoveFinds
    <2>3. ReferenceTypeOK'
      BY <2>1 DEF ReferenceInv, ReferenceTypeOK
    <2>4. FoundStays'
      BY <2>1, <2>2 DEF ReferenceInv, FoundStays
    <2>5. QED
      BY <2>3, <2>4 DEF ReferenceInv
  <1>11. CASE UNCHANGED referenceVars
    BY <1>11 DEF referenceVars, ReferenceInv, ReferenceTypeOK, FoundStays, Guarded, Moves,
                 MoveFinds, Attached
  <1>12. QED
    BY <1>1, <1>2, <1>3, <1>4, <1>5, <1>6, <1>7, <1>8, <1>9, <1>10, <1>11 DEF ReferenceNext

LEMMA ReferenceInvariant == ReferenceSpec => []ReferenceInv
  BY ReferenceInitInv, ReferenceStep, PTL DEF ReferenceSpec

\* Type correctness of the two rows and the requests.
THEOREM ReferenceTypeCorrect == ReferenceSpec => []ReferenceTypeOK
  <1>1. ReferenceInv => ReferenceTypeOK
    BY DEF ReferenceInv
  <1>2. QED
    BY <1>1, ReferenceInvariant, PTL

\* Requests one at a time leave no live row pointing to a deleted one over a link
\* that both sides look after (class.service.ts:60, exam.service.ts:117).
THEOREM LinkedRowsLiveHolds == ReferenceSpec => []LinkedRowsLive
  <1>1. ReferenceInv => LinkedRowsLive
    BY DEF ReferenceInv, FoundStays, LinkedRowsLive
  <1>2. QED
    BY <1>1, ReferenceInvariant, PTL
-----------------------------------------------------------------------------
(* Names                                                                   *)

InsertersIn(h, n) == {r \in Requests : h[r].pc = "insert" /\ h[r].name = n}
RenamersIn(h, n)  == {r \in Requests : h[r].pc = "rename" /\ h[r].name = n}
SoughtIn(h, n)    == {h[r].row : r \in RenamersIn(h, n)}

\* The rows that have the name n, or are to have it.
Taken(n) == LiveNamed(n) \cup SoughtIn(naming, n)

\* What NamesApart says of rows with a name is not inductive: a row may lose the
\* name and get it back from a rename that is under way.  Those rows count, and so
\* do the rows still to be inserted.
RoomForAll ==
  \A n \in NameSet :
    Cardinality(Taken(n)) + Cardinality(InsertersIn(naming, n)) <= Cardinality(Requests)

\* With the constraint no two rows have one name, not even deleted ones; ...
NoTwoRows ==
  Unique[kind] =>
    \A i, j \in DOMAIN named : named[i].name = named[j].name => i = j

\* ... without it what a lonely request has found stays so.
LonelyName ==
  ~ nameOverlap =>
    /\ \A q, r \in Requests : naming[q].pc # "idle" /\ naming[r].pc # "idle" => q = r
    /\ \A n \in NameSet : \A i, j \in LiveNamed(n) : i = j
    /\ \A r \in Requests, n \in NameSet : naming[r].name = n =>
         /\ naming[r].pc = "insert" => LiveNamed(n) = {}
         /\ naming[r].pc = "rename" => LiveNamed(n) \subseteq {naming[r].row}

NameInv == NameTypeOK /\ RoomForAll /\ NoTwoRows /\ LonelyName

\* Every row that is sought is sought by a request of its own.
LEMMA SoughtFits ==
  ASSUME NEW h, NEW n
  PROVE  /\ IsFiniteSet(SoughtIn(h, n)) /\ IsFiniteSet(InsertersIn(h, n))
         /\ Cardinality(SoughtIn(h, n)) + Cardinality(InsertersIn(h, n))
              <= Cardinality(Requests)
  <1> DEFINE R == RenamersIn(h, n)
             I == InsertersIn(h, n)
             f == [r \in R |-> h[r].row]
  <1>1. R \subseteq Requests /\ I \subseteq Requests /\ R \cap I = {}
    BY DEF RenamersIn, InsertersIn
  <1>2. IsFiniteSet(R) /\ IsFiniteSet(I) /\ IsFiniteSet(Requests)
    BY <1>1, HandlersAssumption, FS_Subset
  <1>3. f \in Surjection(R, SoughtIn(h, n))
    BY DEF Surjection, SoughtIn
  <1> HIDE DEF f
  <1>4. /\ IsFiniteSet(SoughtIn(h, n))
        /\ Cardinality(SoughtIn(h, n)) <= Cardinality(R)
    BY <1>2, <1>3, FS_Surjection
  <1> HIDE DEF R, I
  <1>5. Cardinality(R \cup I) = Cardinality(R) + Cardinality(I)
    <2>1. Cardinality(R \cap I) = 0
      BY <1>1, FS_EmptySet
    <2>2. Cardinality(R \cup I) = Cardinality(R) + Cardinality(I) - Cardinality(R \cap I)
      BY <1>2, FS_Union
    <2>3. Cardinality(R) \in Nat /\ Cardinality(I) \in Nat
      BY <1>2, FS_CardinalityType
    <2>4. QED
      BY <2>1, <2>2, <2>3
  <1>6. Cardinality(R \cup I) <= Cardinality(Requests)
    <2>1. R \cup I \subseteq Requests
      BY <1>1
    <2>2. QED
      BY <1>2, <2>1, FS_Subset
  <1>7. /\ Cardinality(R) \in Nat /\ Cardinality(I) \in Nat /\ Cardinality(Requests) \in Nat
        /\ Cardinality(SoughtIn(h, n)) \in Nat
    BY <1>2, <1>4, FS_CardinalityType
  <1>8. Cardinality(SoughtIn(h, n)) + Cardinality(I) <= Cardinality(Requests)
    BY <1>4, <1>5, <1>6, <1>7
  <1>9. QED
    BY <1>2, <1>4, <1>8 DEF I

LEMMA NameRows ==
  ASSUME NameTypeOK
  PROVE  /\ DOMAIN named = 1 .. Len(named) /\ Len(named) \in Nat
         /\ \A i \in DOMAIN named : named[i] \in NamedRow
         /\ \A n : LiveNamed(n) \subseteq DOMAIN named /\ Taken(n) \subseteq DOMAIN named
         /\ \A n : IsFiniteSet(Taken(n)) /\ IsFiniteSet(LiveNamed(n))
  <1>1. named \in Seq(NamedRow)
    BY DEF NameTypeOK
  <1>2. DOMAIN named = 1 .. Len(named) /\ Len(named) \in Nat
    BY <1>1
  <1>3. \A i \in DOMAIN named : named[i] \in NamedRow
    BY <1>1
  <1>4. \A n : LiveNamed(n) \subseteq DOMAIN named /\ Taken(n) \subseteq DOMAIN named
    BY DEF LiveNamed, Taken, SoughtIn, RenamersIn, NameTypeOK
  <1>5. IsFiniteSet(DOMAIN named)
    BY <1>2, FS_Interval
  <1>6. \A n : IsFiniteSet(Taken(n)) /\ IsFiniteSet(LiveNamed(n))
    BY <1>4, <1>5, FS_Subset
  <1>7. QED
    BY <1>2, <1>3, <1>4, <1>6

LEMMA NoNamingType == NoNaming \in Naming /\ NoNaming.pc = "idle"
  <1>1. (CHOOSE n \in NameSet : TRUE) \in NameSet
    BY NamesAssumption
  <1>2. QED
    BY <1>1 DEF NoNaming, Naming

\* One request moves, the others stand still.
LEMMA NamingMoves ==
  ASSUME NameTypeOK, NEW r \in Requests, NEW m, naming' = [naming EXCEPT ![r] = m],
         m \in Naming
  PROVE  /\ naming' \in [Requests -> Naming] /\ naming'[r] = m
         /\ \A q \in Requests \ {r} : naming'[q] = naming[q]
  BY DEF NameTypeOK

\* Fewer rows and requests for a name leave as much room.
LEMMA RoomStays ==
  ASSUME NameTypeOK, RoomForAll, NEW n \in NameSet, Taken(n)' \subseteq Taken(n),
         InsertersIn(naming', n) \subseteq InsertersIn(naming, n)
  PROVE  Cardinality(Taken(n)') + Cardinality(InsertersIn(naming', n))
           <= Cardinality(Requests)
  <1> DEFINE T == Taken(n)
             U == Taken(n)'
             I == InsertersIn(naming, n)
             J == InsertersIn(naming', n)
  <1>1. IsFiniteSet(T) /\ IsFiniteSet(I) /\ U \subseteq T /\ J \subseteq I
    BY NameRows, SoughtFits
  <1>2. Cardinality(T) + Cardinality(I) <= Cardinality(Requests)
    BY DEF RoomForAll
  <1> HIDE DEF T, U, I, J
  <1>3. /\ IsFiniteSet(U) /\ IsFiniteSet(J)
        /\ Cardinality(U) <= Cardinality(T) /\ Cardinality(J) <= Cardinality(I)
    BY <1>1, FS_Subset
  <1>4. /\ Cardinality(T) \in Nat /\ Cardinality(I) \in Nat /\ Cardinality(U) \in Nat
        /\ Cardinality(J) \in Nat /\ Cardinality(Requests) \in Nat
    BY <1>1, <1>3, HandlersAssumption, FS_CardinalityType
  <1>5. Cardinality(U) + Cardinality(J) <= Cardinality(Requests)
    BY <1>2, <1>3, <1>4
  <1>6. QED
    BY <1>5 DEF U, J

LEMMA NameInitInv == NameInit => NameInv
  <1> SUFFICES ASSUME NameInit PROVE NameInv
    OBVIOUS
  <1>1. \A r \in Requests : naming[r].pc = "idle"
    BY NoNamingType DEF NameInit
  <1>2. NameTypeOK
    <2>1. naming \in [Requests -> Naming]
      BY NoNamingType DEF NameInit
    <2>2. named \in Seq(NamedRow) /\ kind \in DOMAIN Unique /\ nameOverlap \in BOOLEAN
      <3>1. <<>> \in Seq(NamedRow)
        OBVIOUS
      <3>2. QED
        BY <3>1 DEF NameInit
    <2>3. QED
      BY <1>1, <2>1, <2>2 DEF NameTypeOK
  <1>3. \A n : LiveNamed(n) = {}
    BY DEF NameInit, LiveNamed
  <1>4. RoomForAll
    <2>1. ASSUME NEW n \in NameSet
          PROVE  Taken(n) = SoughtIn(naming, n)
      BY <1>3 DEF Taken
    <2>2. QED
      BY <2>1, SoughtFits DEF RoomForAll
  <1>5. NoTwoRows
    BY DEF NameInit, NoTwoRows
  <1>6. LonelyName
    BY <1>1, <1>3 DEF LonelyName
  <1>7. QED
    BY <1>2, <1>4, <1>5, <1>6 DEF NameInv

\* A request that begins has found the name free, or in the row it is to rename.
LEMMA NameCallStep ==
  ASSUME NameInv, NEW r \in Requests, NEW pc \in {"insert", "rename"},
         NEW n \in NameSet, NEW i \in Nat, NameCall(r, pc, n, i),
         pc = "insert" => LiveNamed(n) = {},
         pc = "rename" => i \in DOMAIN named /\ LiveNamed(n) \subseteq {i}
  PROVE  NameInv'
  <1> DEFINE m == [pc |-> pc, name |-> n, row |-> i]
  <1>1. /\ naming[r].pc = "idle" /\ naming' = [naming EXCEPT ![r] = m]
        /\ nameOverlap' = (nameOverlap \/ Meets(naming, r))
        /\ kind' = kind /\ named' = named
    BY DEF NameCall
  <1>2. m \in Naming /\ m.pc = pc /\ m.name = n /\ m.row = i
    BY DEF Naming
  <1> HIDE DEF m
  <1>3. /\ naming' \in [Requests -> Naming] /\ naming'[r] = m
        /\ \A q \in Requests \ {r} : naming'[q] = naming[q]
    BY <1>1, <1>2, NamingMoves DEF NameInv
  <1>4. NameTypeOK'
    BY <1>1, <1>2, <1>3 DEF NameInv, NameTypeOK, Meets
  <1>5. \A x : LiveNamed(x)' = LiveNamed(x)
    BY <1>1 DEF LiveNamed
  <1>6. ASSUME NEW x \in NameSet
        PROVE  Cardinality(Taken(x)') + Cardinality(InsertersIn(naming', x))
                 <= Cardinality(Requests)
    <2>1. CASE x = n
      <3>1. pc = "rename" => i \in SoughtIn(naming', x)
        BY <1>2, <1>3, <2>1 DEF SoughtIn, RenamersIn
      <3>2. LiveNamed(x) \subseteq SoughtIn(naming', x)
        BY <2>1, <3>1
      <3>3. Taken(x)' = SoughtIn(naming', x)
        BY <1>5, <3>2 DEF Taken
      <3>4. QED
        BY <3>3, SoughtFits
    <2>2. CASE x # n
      <3>1. /\ InsertersIn(naming', x) \subseteq InsertersIn(naming, x)
            /\ RenamersIn(naming', x) \subseteq RenamersIn(naming, x)
        BY <1>2, <1>3, <2>2 DEF InsertersIn, RenamersIn
      <3>2. SoughtIn(naming', x) \subseteq SoughtIn(naming, x)
        BY <1>2, <1>3, <2>2, <3>1 DEF SoughtIn, RenamersIn
      <3>3. Taken(x)' \subseteq Taken(x)
        BY <1>5, <3>2 DEF Taken
      <3>4. QED
        BY <3>1, <3>3, RoomStays DEF NameInv
    <2>3. QED
      BY <2>1, <2>2
  <1>7. RoomForAll'
    BY <1>6 DEF RoomForAll
  <1>8. NoTwoRows'
    BY <1>1 DEF NameInv, NoTwoRows
  <1>9. ASSUME ~ nameOverlap'
        PROVE  ~ nameOverlap /\ \A q \in Requests \ {r} : naming'[q].pc = "idle"
    BY <1>1, <1>3, <1>9 DEF Meets
  <1>10. LonelyName'
    BY <1>2, <1>3, <1>5, <1>9 DEF NameInv, LonelyName
  <1>11. QED
    BY <1>4, <1>7, <1>8, <1>10 DEF NameInv

\* A request that ends, having written or not: what it does to the rows.
LEMMA NameEndStep ==
  ASSUME NameInv, NEW r \in Requests, naming[r].pc # "idle", NameEnd(r),
         UNCHANGED <<kind, nameOverlap>>, named' \in Seq(NamedRow),
         DOMAIN named \subseteq DOMAIN named',
         \A n \in NameSet :
           Cardinality(Taken(n)') + Cardinality(InsertersIn(naming', n))
             <= Cardinality(Requests),
         NoTwoRows',
         ~ nameOverlap => \A n \in NameSet : \A i, j \in LiveNamed(n)' : i = j
  PROVE  NameInv'
  <1>1. /\ naming' \in [Requests -> Naming] /\ naming'[r] = NoNaming
        /\ \A q \in Requests \ {r} : naming'[q] = naming[q]
    BY NoNamingType, NamingMoves DEF NameInv, NameEnd
  <1>2. \A q \in Requests : naming'[q].pc = "rename" => naming'[q].row \in DOMAIN named'
    BY <1>1, NoNamingType DEF NameInv, NameTypeOK
  <1>3. NameTypeOK'
    BY <1>1, <1>2 DEF NameInv, NameTypeOK
  <1>4. RoomForAll'
    BY DEF RoomForAll
  <1>5. ~ nameOverlap => \A q \in Requests : naming'[q].pc = "idle"
    BY <1>1, NoNamingType DEF NameInv, LonelyName
  <1>6. LonelyName'
    BY <1>5 DEF LonelyName
  <1>7. QED
    BY <1>3, <1>4, <1>6 DEF NameInv

\* The requests that are still under way after that.
LEMMA NameEndSets ==
  ASSUME NameInv, NEW r \in Requests, NameEnd(r), NEW n
  PROVE  /\ InsertersIn(naming', n) = InsertersIn(naming, n) \ {r}
         /\ RenamersIn(naming', n) = RenamersIn(naming, n) \ {r}
         /\ SoughtIn(naming', n) \subseteq SoughtIn(naming, n)
  <1>1. /\ naming'[r] = NoNaming
        /\ \A q \in Requests \ {r} : naming'[q] = naming[q]
    BY NoNamingType, NamingMoves DEF NameInv, NameEnd
  <1>2. /\ InsertersIn(naming', n) = InsertersIn(naming, n) \ {r}
        /\ RenamersIn(naming', n) = RenamersIn(naming, n) \ {r}
    BY <1>1, NoNamingType DEF InsertersIn, RenamersIn
  <1>3. SoughtIn(naming', n) \subseteq SoughtIn(naming, n)
    <2>1. ASSUME NEW q \in RenamersIn(naming', n)
          PROVE  naming'[q].row = naming[q].row /\ q \in RenamersIn(naming, n)
      BY <1>1, <1>2 DEF RenamersIn
    <2>2. QED
      BY <2>1 DEF SoughtIn
  <1>4. QED
    BY <1>2, <1>3

LEMMA QuietNameEnd ==
  ASSUME NameInv, NEW r \in Requests, naming[r].pc # "idle", NameEnd(r),
         UNCHANGED <<kind, named, nameOverlap>>
  PROVE  NameInv'
  <1>1. named' \in Seq(NamedRow) /\ \A n : LiveNamed(n)' = LiveNamed(n)
    BY DEF NameInv, NameTypeOK, LiveNamed
  <1>2. ASSUME NEW n \in NameSet
        PROVE  Cardinality(Taken(n)') + Cardinality(InsertersIn(naming', n))
                 <= Cardinality(Requests)
    <2>1. /\ Taken(n)' \subseteq Taken(n)
          /\ InsertersIn(naming', n) \subseteq InsertersIn(naming, n)
      BY <1>1, NameEndSets DEF Taken
    <2>2. QED
      BY <2>1, RoomStays DEF NameInv
  <1>3. NoTwoRows'
    BY DEF NameInv, NoTwoRows
  <1>4. ~ nameOverlap => \A n \in NameSet : \A i, j \in LiveNamed(n)' : i = j
    BY <1>1 DEF NameInv, LonelyName
  <1>5. QED
    BY <1>1, <1>2, <1>3, <1>4, NameEndStep

LEMMA InsertNamedStep ==
  ASSUME NameInv, NEW r \in Requests, InsertNamed(r)
  PROVE  NameInv'
  <1>0. PICK n \in NameSet : n = naming[r].name
    BY DEF NameInv, NameTypeOK, Naming
  <1>1. /\ naming[r].pc = "insert" /\ NameEnd(r) /\ UNCHANGED <<kind, nameOverlap>>
        /\ n \in NameSet
    BY DEF InsertNamed
  <1>2a. PICK last : last = Len(named) + 1
    OBVIOUS
  <1> DEFINE row == [name |-> n, deleted |-> FALSE]
  <1>2. CASE named' = named
    BY <1>1, <1>2, QuietNameEnd
  <1>3. CASE named' = Append(named, row) /\ ~ (Unique[kind] /\ AnyNamed(n) # {})
    <2>1. named \in Seq(NamedRow) /\ row \in NamedRow
      BY DEF NameInv, NameTypeOK, NamedRow
    <2>2. row.name = n /\ row.deleted = FALSE
      OBVIOUS
    <2> HIDE DEF row
    <2>3. /\ named' \in Seq(NamedRow)
          /\ DOMAIN named = 1 .. Len(named) /\ Len(named) \in Nat
          /\ DOMAIN named' = 1 .. last
          /\ \A i \in DOMAIN named : named'[i] = named[i]
          /\ named'[last] = row
      BY <1>3, <1>2a, <2>1
    <2>4. /\ DOMAIN named' = DOMAIN named \cup {last} /\ last \notin DOMAIN named
      BY <1>2a, <2>3
    <2>5. /\ \A x : x # n => LiveNamed(x)' = LiveNamed(x)
          /\ LiveNamed(n)' = LiveNamed(n) \cup {last}
      BY <2>2, <2>3, <2>4 DEF LiveNamed
    <2>6. r \in InsertersIn(naming, n)
      BY <1>0, <1>1 DEF InsertersIn
    <2>7. ASSUME NEW x \in NameSet
          PROVE  Cardinality(Taken(x)') + Cardinality(InsertersIn(naming', x))
                   <= Cardinality(Requests)
      <3>1. CASE x # n
        <4>1. /\ Taken(x)' \subseteq Taken(x)
              /\ InsertersIn(naming', x) \subseteq InsertersIn(naming, x)
          BY <1>1, <2>5, <3>1, NameEndSets DEF Taken
        <4>2. QED
          BY <4>1, RoomStays DEF NameInv
      <3>2. CASE x = n
        <4> DEFINE T == Taken(n)
                   U == Taken(n)'
                   I == InsertersIn(naming, n)
                   J == InsertersIn(naming', n)
        <4>1. U \subseteq T \cup {last} /\ J = I \ {r} /\ r \in I
          BY <1>1, <2>5, <2>6, NameEndSets DEF Taken
        <4>2. IsFiniteSet(T) /\ IsFiniteSet(I)
          BY NameRows, SoughtFits DEF NameInv
        <4>3. Cardinality(T) + Cardinality(I) <= Cardinality(Requests)
          BY DEF NameInv, RoomForAll
        <4> HIDE DEF T, U, I, J
        <4>4. /\ IsFiniteSet(T \cup {last})
              /\ Cardinality(T \cup {last}) <= Cardinality(T) + 1
          <5>1. Cardinality(T) \in Nat
            BY <4>2, FS_CardinalityType
          <5>2. /\ IsFiniteSet(T \cup {last})
                /\ \/ Cardinality(T \cup {last}) = Cardinality(T)
                   \/ Cardinality(T \cup {last}) = Cardinality(T) + 1
            BY <4>2, FS_AddElement, Zenon
          <5>3. QED
            BY <5>1, <5>2
        <4>5. Cardinality(J) = Cardinality(I) - 1
          BY <4>1, <4>2, FS_RemoveElement
        <4>6. IsFiniteSet(U) /\ Cardinality(U) <= Cardinality(T \cup {last})
          BY <4>1, <4>4, FS_Subset
        <4>7. /\ Cardinality(T) \in Nat /\ Cardinality(I) \in Nat /\ Cardinality(U) \in Nat
              /\ Cardinality(T \cup {last}) \in Nat /\ Cardinality(Requests) \in Nat
          BY <4>2, <4>4, <4>6, HandlersAssumption, FS_CardinalityType
        <4>8. Cardinality(U) + Cardinality(J) <= Cardinality(Requests)
          BY <4>3, <4>4, <4>5, <4>6, <4>7
        <4>9. QED
          BY <3>2, <4>8 DEF U, J
      <3>3. QED
        BY <3>1, <3>2
    <2>8. NoTwoRows'
      <3>1. ASSUME Unique[kind], NEW i \in DOMAIN named
            PROVE  named[i].name # n
        BY <1>3, <3>1 DEF AnyNamed
      <3>2. QED
        BY <1>1, <2>2, <2>3, <2>4, <3>1 DEF NameInv, NoTwoRows
    <2>9. ~ nameOverlap => \A x \in NameSet : \A i, j \in LiveNamed(x)' : i = j
      <3>1. ~ nameOverlap => LiveNamed(n) = {}
        BY <1>0, <1>1 DEF NameInv, LonelyName
      <3>2. ASSUME ~ nameOverlap, NEW x \in NameSet, NEW i \in LiveNamed(x)',
                   NEW j \in LiveNamed(x)'
            PROVE  i = j
        <4>1. CASE x = n
          BY <2>5, <3>1, <3>2, <4>1
        <4>2. CASE x # n
          BY <2>5, <3>2, <4>2 DEF NameInv, LonelyName
        <4>3. QED
          BY <4>1, <4>2
      <3>3. QED
        BY <3>2
    <2>10. QED
      BY <1>1, <2>3, <2>4, <2>7, <2>8, <2>9, NameEndStep
  <1>4. QED
    BY <1>0, <1>2, <1>3 DEF InsertNamed

LEMMA RenameRowStep ==
  ASSUME NameInv, NEW r \in Requests, RenameRow(r)
  PROVE  NameInv'
  <1>1. naming[r].pc = "rename" /\ NameEnd(r) /\ UNCHANGED <<kind, nameOverlap>>
    BY DEF RenameRow
  <1>0. PICK n \in NameSet, i \in DOMAIN named : n = naming[r].name /\ i = naming[r].row
    BY <1>1 DEF NameInv, NameTypeOK, Naming
  <1>2. CASE named' = named
    BY <1>1, <1>2, QuietNameEnd
  <1>3. CASE /\ named' = [named EXCEPT ![i] = [named[i] EXCEPT !.name = n]]
             /\ ~ named[i].deleted
             /\ ~ (Unique[kind] /\ ~ (AnyNamed(n) \subseteq {i}))
    <2>1. /\ named \in Seq(NamedRow) /\ named[i] \in NamedRow
          /\ DOMAIN named = 1 .. Len(named) /\ Len(named) \in Nat
      BY NameRows DEF NameInv, NameTypeOK
    <2> DEFINE row == [named[i] EXCEPT !.name = n]
    <2>2. row \in NamedRow /\ row.name = n /\ row.deleted = FALSE
      BY <1>3, <2>1 DEF NamedRow
    <2> HIDE DEF row
    <2>3. /\ named' = [named EXCEPT ![i] = row]
      BY <1>3 DEF row
    <2>4. /\ DOMAIN named' = DOMAIN named /\ named'[i] = row
          /\ \A j \in DOMAIN named \ {i} : named'[j] = named[j]
      BY <2>3
    <2>5. named' \in Seq(NamedRow)
      BY <2>1, <2>2, <2>3
    <2>6. /\ \A x : x # n => LiveNamed(x)' = LiveNamed(x) \ {i}
          /\ LiveNamed(n)' = LiveNamed(n) \cup {i}
      BY <2>2, <2>4 DEF LiveNamed
    <2>7. i \in SoughtIn(naming, n)
      BY <1>0, <1>1 DEF SoughtIn, RenamersIn
    <2>8. ASSUME NEW x \in NameSet
          PROVE  Cardinality(Taken(x)') + Cardinality(InsertersIn(naming', x))
                   <= Cardinality(Requests)
      <3>1. /\ InsertersIn(naming', x) \subseteq InsertersIn(naming, x)
            /\ SoughtIn(naming', x) \subseteq SoughtIn(naming, x)
        BY <1>1, NameEndSets
      <3>2. Taken(x)' \subseteq Taken(x)
        <4>1. CASE x = n
          BY <2>6, <2>7, <3>1, <4>1 DEF Taken
        <4>2. CASE x # n
          BY <2>6, <3>1, <4>2 DEF Taken
        <4>3. QED
          BY <4>1, <4>2
      <3>3. QED
        BY <3>1, <3>2, RoomStays DEF NameInv
    <2>9. NoTwoRows'
      <3>1. ASSUME Unique[kind], NEW j \in DOMAIN named \ {i}
            PROVE  named[j].name # n
        BY <1>3, <3>1 DEF AnyNamed
      <3>2. QED
        BY <1>1, <2>2, <2>4, <3>1 DEF NameInv, NoTwoRows
    <2>10. ~ nameOverlap => \A x \in NameSet : \A j, k \in LiveNamed(x)' : j = k
      <3>1. ~ nameOverlap => LiveNamed(n) \subseteq {i}
        BY <1>0, <1>1 DEF NameInv, LonelyName
      <3>2. ASSUME ~ nameOverlap, NEW x \in NameSet, NEW j \in LiveNamed(x)',
                   NEW k \in LiveNamed(x)'
            PROVE  j = k
        <4>1. CASE x = n
          BY <2>6, <3>1, <3>2, <4>1
        <4>2. CASE x # n
          BY <2>6, <3>2, <4>2 DEF NameInv, LonelyName
        <4>3. QED
          BY <4>1, <4>2
      <3>3. QED
        BY <3>2
    <2>11. QED
      BY <1>1, <2>4, <2>5, <2>8, <2>9, <2>10, NameEndStep
  <1>4. QED
    BY <1>0, <1>2, <1>3 DEF RenameRow

LEMMA DeleteNamedStep ==
  ASSUME NameInv, NEW i \in DOMAIN named, DeleteNamed(i)
  PROVE  NameInv'
  <1> DEFINE row == [named[i] EXCEPT !.deleted = TRUE]
  <1>1. /\ named' = [named EXCEPT ![i] = row]
        /\ UNCHANGED <<kind, naming, nameOverlap>>
    BY DEF DeleteNamed
  <1>2. /\ named \in Seq(NamedRow) /\ named[i] \in NamedRow
        /\ DOMAIN named = 1 .. Len(named) /\ Len(named) \in Nat
    BY NameRows DEF NameInv, NameTypeOK
  <1>3. row \in NamedRow /\ row.name = named[i].name /\ row.deleted
    BY <1>2 DEF NamedRow
  <1> HIDE DEF row
  <1>4. /\ DOMAIN named' = DOMAIN named /\ named'[i] = row
        /\ \A j \in DOMAIN named \ {i} : named'[j] = named[j]
    BY <1>1
  <1>5. named' \in Seq(NamedRow)
    BY <1>1, <1>2, <1>3
  <1>6. \A n : LiveNamed(n)' \subseteq LiveNamed(n)
    BY <1>3, <1>4 DEF LiveNamed
  <1>7. NameTypeOK'
    BY <1>1, <1>4, <1>5 DEF NameInv, NameTypeOK
  <1>8. RoomForAll'
    <2>1. ASSUME NEW n \in NameSet
          PROVE  Cardinality(Taken(n)') + Cardinality(InsertersIn(naming', n))
                   <= Cardinality(Requests)
      <3>1. Taken(n)' \subseteq Taken(n)
        BY <1>1, <1>6 DEF Taken
      <3>2. QED
        BY <1>1, <3>1, RoomStays DEF NameInv
    <2>2. QED
      BY <2>1 DEF RoomForAll
  <1>9. NoTwoRows'
    BY <1>1, <1>3, <1>4 DEF NameInv, NoTwoRows
  <1>10. LonelyName'
    <2> SUFFICES ASSUME ~ nameOverlap
                 PROVE  /\ \A q, r \in Requests :
                             naming[q].pc # "idle" /\ naming[r].pc # "idle" => q = r
                        /\ \A n \in NameSet : \A j, k \in LiveNamed(n)' : j = k
                        /\ \A r \in Requests, n \in NameSet : naming[r].name = n =>
                             /\ naming[r].pc = "insert" => LiveNamed(n)' = {}
                             /\ naming[r].pc = "rename" =>
                                  LiveNamed(n)' \subseteq {naming[r].row}
      BY <1>1 DEF LonelyName
    <2>1. QED
      BY <1>6 DEF NameInv, LonelyName
  <1>11. QED
    BY <1>7, <1>8, <1>9, <1>10 DEF NameInv

LEMMA CreateNamedStep ==
  ASSUME NameInv, NEW r \in Requests, NEW n \in NameSet, CreateNamed(r, n)
  PROVE  NameInv'
  <1>1. NameCall(r, "insert", n, 0) /\ LiveNamed(n) = {}
    BY DEF CreateNamed
  <1>2. 0 \in Nat /\ "insert" \in {"insert", "rename"} /\ "insert" # "rename"
    OBVIOUS
  <1>3. QED
    BY <1>1, <1>2, NameCallStep

LEMMA UpdateNamedStep ==
  ASSUME NameInv, NEW r \in Requests, NEW n \in NameSet, NEW i \in DOMAIN named,
         UpdateNamed(r, i, n)
  PROVE  NameInv'
  <1>1. NameCall(r, "rename", n, i) /\ LiveNamed(n) \subseteq {i}
    BY DEF UpdateNamed
  <1>2. i \in Nat
    <2>1. DOMAIN named = 1 .. Len(named) /\ Len(named) \in Nat
      BY NameRows DEF NameInv
    <2>2. QED
      BY <2>1
  <1>3. "rename" \in {"insert", "rename"} /\ "insert" # "rename"
    OBVIOUS
  <1>4. QED
    BY <1>1, <1>2, <1>3, NameCallStep

\* What each kind of step does is the same for every table.
LEMMA NameSteps ==
  ASSUME NameNext
  PROVE  \/ \E r \in Requests, n \in NameSet : CreateNamed(r, n)
         \/ \E r \in Requests, n \in NameSet, i \in DOMAIN named : UpdateNamed(r, i, n)
         \/ \E r \in Requests : InsertNamed(r)
         \/ \E r \in Requests : RenameRow(r)
         \/ \E r \in Requests : NamingAborts(r)
         \/ \E i \in DOMAIN named : DeleteNamed(i)
  <1>1. CASE \E r \in Requests, n \in NameSet :
               \/ ClassCreate(r, n) \/ SessionCreate(r, n) \/ SectionCreate(r, n)
               \/ SubjectCreate(r, n) \/ RoleCreate(r, n) \/ PermissionCreate(r, n)
    BY <1>1 DEF ClassCreate, SessionCreate, SectionCreate, SubjectCreate, RoleCreate,
                PermissionCreate
  <1>2. CASE \E r \in Requests, n \in NameSet, i \in DOMAIN named :
               \/ ClassUpdate(r, i, n) \/ SessionUpdate(r, i, n) \/ SectionUpdate(r, i, n)
               \/ SubjectUpdate(r, i, n) \/ RoleUpdate(r, i, n) \/ PermissionUpdate(r, i, n)
    BY <1>2 DEF ClassUpdate, SessionUpdate, SectionUpdate, SubjectUpdate, RoleUpdate,
                PermissionUpdate
  <1>3. QED
    BY <1>1, <1>2 DEF NameNext

LEMMA NameStepInv == NameInv /\ [NameNext]_nameVars => NameInv'
  <1> SUFFICES ASSUME NameInv, [NameNext]_nameVars PROVE NameInv'
    OBVIOUS
  <1>1. ASSUME NEW r \in Requests, NEW n \in NameSet, CreateNamed(r, n)
        PROVE  NameInv'
    BY <1>1, CreateNamedStep
  <1>2. ASSUME NEW r \in Requests, NEW n \in NameSet, NEW i \in DOMAIN named,
               UpdateNamed(r, i, n)
        PROVE  NameInv'
    BY <1>2, UpdateNamedStep
  <1>3. ASSUME NEW r \in Requests, InsertNamed(r)
        PROVE  NameInv'
    BY <1>3, InsertNamedStep
  <1>4. ASSUME NEW r \in Requests, RenameRow(r)
        PROVE  NameInv'
    BY <1>4, RenameRowStep
  <1>5. ASSUME NEW r \in Requests, NamingAborts(r)
        PROVE  NameInv'
    <2>1. /\ naming[r].pc # "idle" /\ NameEnd(r)
          /\ UNCHANGED <<kind, named, nameOverlap>>
      BY <1>5 DEF NamingAborts
    <2>2. QED
      BY <2>1, QuietNameEnd
  <1>6. ASSUME NEW i \in DOMAIN named, DeleteNamed(i)
        PROVE  NameInv'
    BY <1>6, DeleteNamedStep
  <1>7. CASE UNCHANGED nameVars
    BY <1>7 DEF nameVars, NameInv, NameTypeOK, RoomForAll, NoTwoRows, LonelyName, Taken,
                LiveNamed
  <1>8. CASE NameNext
    BY <1>1, <1>2, <1>3, <1>4, <1>5, <1>6, <1>8, NameSteps
  <1>9. QED
    BY <1>7, <1>8

\* A request that renames knows a row of the table, whatever happens to it meanwhile
\* (class.repository.ts, section.repository.ts: rows are never removed).
THEOREM NameTypeCorrect == NameSpec => []NameTypeOK
  <1>1. NameInv => NameTypeOK
    BY DEF NameInv
  <1>2. QED
    BY <1>1, NameInitInv, NameStepInv, PTL DEF NameSpec

LEMMA NameInvApart == NameInv => NamesApart
  <1> SUFFICES ASSUME NameInv, NEW n \in NameSet
               PROVE  Cardinality(LiveNamed(n)) <=
                        IF Unique[kind] \/ ~ nameOverlap THEN 1 ELSE Cardinality(Requests)
    BY DEF NamesApart
  <1>1. IsFiniteSet(LiveNamed(n)) /\ IsFiniteSet(Taken(n))
    BY NameRows DEF NameInv
  <1>2. CASE Unique[kind] \/ ~ nameOverlap
    <2>1. \A i, j \in LiveNamed(n) : i = j
      <3>1. CASE Unique[kind]
        BY <3>1 DEF NameInv, NoTwoRows, LiveNamed
      <3>2. CASE ~ nameOverlap
        BY <3>2 DEF NameInv, LonelyName
      <3>3. QED
        BY <1>2, <3>1, <3>2
    <2>2. Cardinality(LiveNamed(n)) <= 1
      <3>1. CASE LiveNamed(n) = {}
        BY <3>1, FS_EmptySet
      <3>2. ASSUME NEW i \in LiveNamed(n)
            PROVE  Cardinality(LiveNamed(n)) <= 1
        <4>1. LiveNamed(n) = {i}
          BY <2>1, <3>2
        <4>2. Cardinality({i}) = 1
          BY FS_Singleton
        <4>3. QED
          BY <4>1, <4>2
      <3>3. QED
        BY <3>1, <3>2
    <2>3. QED
      BY <1>2, <2>2
  <1>3. CASE ~ (Unique[kind] \/ ~ nameOverlap)
    <2> DEFINE L == LiveNamed(n)
               T == Taken(n)
               I == InsertersIn(naming, n)
    <2>1. L \subseteq T /\ IsFiniteSet(I) /\ IsFiniteSet(T)
      BY <1>1, SoughtFits DEF Taken
    <2>2. Cardinality(T) + Cardinality(I) <= Cardinality(Requests)
      BY DEF NameInv, RoomForAll
    <2> HIDE DEF L, T, I
    <2>3. IsFiniteSet(L) /\ Cardinality(L) <= Cardinality(T)
      BY <2>1, FS_Subset
    <2>4. /\ Cardinality(L) \in Nat /\ Cardinality(T) \in Nat /\ Cardinality(I) \in Nat
          /\ Cardinality(Requests) \in Nat
      BY <2>1, <2>3, HandlersAssumption, FS_CardinalityType
    <2>5. Cardinality(L) <= Cardinality(Requests)
      BY <2>2, <2>3, <2>4
    <2>6. QED
      BY <1>3, <2>5 DEF L
  <1>4. QED
    BY <1>2, <1>3

\* However often rows are renamed and deleted, a name is that of one live row where
\* a constraint or the calm guards it, and of at most one row a request otherwise
\* (class.service.ts:16, section.service.ts:57, subject.service.ts:28).
THEOREM NamesApartHolds == NameSpec => []NamesApart
  <1>1. NameInit => NameInv
    BY NameInitInv
  <1>2. NameInv /\ [NameNext]_nameVars => NameInv'
    BY NameStepInv
  <1>3. NameInv => NamesApart
    BY NameInvApart
  <1>4. QED
    BY <1>1, <1>2, <1>3, PTL DEF NameSpec


-----------------------------------------------------------------------------
(* Attendance: the sheet                                                   *)

\* The requests that have inserted a row of p and not committed, or are to insert it.
Inserts(m, p) ==
  \/ <<p, 0>> \in m.rows
  \/ m.pc = "write" /\ m.want = 0 /\ Head(m.todo) = p

Inserters(h, p) == {r \in Requests : Inserts(h[r], p)}

\* A row still to be inserted counts: the request that inserts it found no row, when
\* there were only the other requests to insert one.
RoomOnSheet ==
  \A p \in Pupils : Len(sheet[p]) + Cardinality(Inserters(marking, p)) <= Cardinality(Requests)

\* What a lonely marking has found stays so.
LonelyMarking ==
  ~ markOverlap =>
    /\ \A q, r \in Requests : marking[q].pc # "idle" /\ marking[r].pc # "idle" => q = r
    /\ \A p \in Pupils : Len(sheet[p]) <= 1
    /\ \A p \in Pupils : Inserters(marking, p) # {} => Len(sheet[p]) = 0

MarkingTyped ==
  /\ sheet \in [Pupils -> Seq(Entries)]
  /\ marking \in [Requests -> Marking]
  /\ markOverlap \in BOOLEAN
  /\ \A r \in Requests : IF marking[r].pc = "idle" THEN marking[r].rows = {}
                         ELSE marking[r].todo # <<>>

SheetInv == MarkingTyped /\ RoomOnSheet /\ LonelyMarking

LEMMA NoMarkingType ==
  /\ NoMarking \in Marking /\ NoMarking.pc = "idle" /\ NoMarking.rows = {}
  /\ NoMarking.want = 0
  <1>1. (CHOOSE e \in Entries : TRUE) \in Entries /\ <<>> \in Seq(Pupils) /\ 0 \in Nat
    BY AttendanceAssumption
  <1>2. QED
    BY <1>1 DEF NoMarking, Marking

LEMMA InsertersFinite ==
  ASSUME NEW m, NEW p
  PROVE  /\ IsFiniteSet(Inserters(m, p))
         /\ Cardinality(Inserters(m, p)) \in Nat
         /\ Cardinality(Inserters(m, p)) <= Cardinality(Requests)
         /\ Cardinality(Requests) \in Nat
  <1>1. Inserters(m, p) \subseteq Requests
    BY DEF Inserters
  <1>2. QED
    BY <1>1, HandlersAssumption, FS_Subset, FS_CardinalityType

\* One marking moves, the others stand still.
LEMMA MarkingMoves ==
  ASSUME MarkingTyped, NEW r \in Requests, NEW m \in Marking,
         marking' = [marking EXCEPT ![r] = m]
  PROVE  /\ marking' \in [Requests -> Marking] /\ marking'[r] = m
         /\ \A q \in Requests \ {r} : marking'[q] = marking[q]
         /\ \A p : Inserters(marking', p) \subseteq Inserters(marking, p) \cup {r}
         /\ \A p : ~ Inserts(m, p) => Inserters(marking', p) = Inserters(marking, p) \ {r}
  <1>1. /\ marking' \in [Requests -> Marking] /\ marking'[r] = m
        /\ \A q \in Requests \ {r} : marking'[q] = marking[q]
    BY DEF MarkingTyped
  <1>2. QED
    BY <1>1 DEF Inserters

LEMMA SheetInitInv == AttendanceInit => SheetInv
  <1> SUFFICES ASSUME AttendanceInit PROVE SheetInv
    OBVIOUS
  <1>1. \A r \in Requests : marking[r] = NoMarking
    BY DEF AttendanceInit
  <1>2. \A p : Inserters(marking, p) = {}
    BY <1>1, NoMarkingType DEF Inserters, Inserts
  <1>3. \A p \in Pupils : sheet[p] = <<>> /\ Len(sheet[p]) = 0
    BY DEF AttendanceInit
  <1>4. MarkingTyped
    <2>1. marking \in [Requests -> Marking]
      BY NoMarkingType DEF AttendanceInit
    <2>2. sheet \in [Pupils -> Seq(Entries)] /\ markOverlap \in BOOLEAN
      <3>1. <<>> \in Seq(Entries)
        OBVIOUS
      <3>2. QED
        BY <3>1 DEF AttendanceInit
    <2>3. QED
      BY <1>1, <2>1, <2>2, NoMarkingType DEF MarkingTyped
  <1>5. RoomOnSheet
    BY <1>2, <1>3, InsertersFinite DEF RoomOnSheet
  <1>6. LonelyMarking
    BY <1>1, <1>2, <1>3, NoMarkingType DEF LonelyMarking
  <1>7. QED
    BY <1>4, <1>5, <1>6 DEF SheetInv

\* A step that writes nothing and takes no row away.
LEMMA QuietMarking ==
  ASSUME SheetInv, NEW r \in Requests, NEW m \in Marking,
         marking' = [marking EXCEPT ![r] = m], sheet' = sheet,
         markOverlap' \in BOOLEAN, markOverlap => markOverlap',
         IF m.pc = "idle" THEN m.rows = {} ELSE m.todo # <<>>,
         marking[r].pc = "idle" /\ ~ markOverlap' =>
           \A q \in Requests \ {r} : marking[q].pc = "idle",
         \A p \in Pupils :
           \/ Inserters(marking', p) \subseteq Inserters(marking, p)
           \/ Len(sheet[p]) = 0
  PROVE  SheetInv'
  <1>1. /\ marking' \in [Requests -> Marking] /\ marking'[r] = m
        /\ \A q \in Requests \ {r} : marking'[q] = marking[q]
    BY MarkingMoves DEF SheetInv
  <1>2. MarkingTyped'
    BY <1>1 DEF SheetInv, MarkingTyped
  <1>3. \A p \in Pupils : Len(sheet[p]) \in Nat
    BY DEF SheetInv, MarkingTyped
  <1>4. ASSUME NEW p \in Pupils
        PROVE  Len(sheet[p]) + Cardinality(Inserters(marking', p)) <= Cardinality(Requests)
    <2>1. CASE Len(sheet[p]) = 0
      BY <2>1, InsertersFinite
    <2>2. CASE Inserters(marking', p) \subseteq Inserters(marking, p)
      <3>1. Cardinality(Inserters(marking', p)) <= Cardinality(Inserters(marking, p))
        BY <2>2, InsertersFinite, FS_Subset
      <3>2. Len(sheet[p]) + Cardinality(Inserters(marking, p)) <= Cardinality(Requests)
        BY DEF SheetInv, RoomOnSheet
      <3>3. QED
        BY <1>3, <3>1, <3>2, InsertersFinite
    <2>3. QED
      BY <2>1, <2>2
  <1>5. RoomOnSheet'
    BY <1>4 DEF RoomOnSheet
  <1>6. LonelyMarking'
    <2> SUFFICES ASSUME ~ markOverlap' PROVE LonelyMarking'
      BY DEF LonelyMarking
    <2>1. ~ markOverlap
      OBVIOUS
    <2>2. \A p \in Pupils : Len(sheet'[p]) <= 1
      BY <2>1 DEF SheetInv, LonelyMarking
    <2>3. ASSUME NEW p \in Pupils, Inserters(marking', p) # {}
          PROVE  Len(sheet'[p]) = 0
      BY <2>1, <2>3 DEF SheetInv, LonelyMarking
    <2>4. \A q, k \in Requests : marking'[q].pc # "idle" /\ marking'[k].pc # "idle" => q = k
      <3>1. \A q \in Requests \ {r} : marking[r].pc # "idle" => marking[q].pc = "idle"
        BY <2>1 DEF SheetInv, LonelyMarking
      <3>2. \A q \in Requests \ {r} : marking'[q].pc = "idle"
        BY <1>1, <3>1
      <3>3. QED
        BY <3>2
    <2>5. QED
      BY <2>2, <2>3, <2>4 DEF LonelyMarking
  <1>7. QED
    BY <1>2, <1>5, <1>6 DEF SheetInv

LEMMA MarkStudentsStep ==
  ASSUME SheetInv, NEW r \in Requests, NEW pupils \in (SUBSET Pupils) \ {{}}, NEW e \in Entries,
         NEW todo \in SetToSeqs(pupils), MarkStudents(r, todo, e)
  PROVE  SheetInv'
  <1>1. todo \in Seq(Pupils) /\ todo # <<>>
    <2>1. IsFiniteSet(pupils)
      BY AttendanceAssumption, FS_Subset
    <2>2. Cardinality(pupils) \in Nat /\ Cardinality(pupils) # 0
      BY <2>1, FS_CardinalityType, FS_EmptySet
    <2>3. todo \in [1 .. Cardinality(pupils) -> pupils]
      BY DEF SetToSeqs
    <2>4. todo \in Seq(pupils) /\ Len(todo) = Cardinality(pupils)
      BY <2>2, <2>3
    <2>5. todo \in Seq(Pupils)
      BY <2>2, <2>3
    <2>6. QED
      BY <2>2, <2>4, <2>5
  <1> DEFINE a == [NoMarking EXCEPT !.pc = "find"]
             b == [a EXCEPT !.todo = todo]
             m == [b EXCEPT !.entry = e]
  <1>2. /\ m \in Marking /\ m.pc = "find" /\ m.rows = {} /\ m.todo = todo
    <2>1. a \in Marking /\ a.pc = "find" /\ a.rows = {}
      BY NoMarkingType DEF Marking
    <2> HIDE DEF a
    <2>2. b \in Marking /\ b.pc = "find" /\ b.rows = {} /\ b.todo = todo
      BY <1>1, <2>1 DEF Marking
    <2> HIDE DEF b
    <2>3. QED
      BY <2>2 DEF Marking
  <1>3. m = [NoMarking EXCEPT !.pc = "find", !.todo = todo, !.entry = e]
    OBVIOUS
  <1>4. /\ marking[r].pc = "idle" /\ marking' = [marking EXCEPT ![r] = m]
        /\ markOverlap' = (markOverlap \/ Meets(marking, r)) /\ sheet' = sheet
    BY <1>3 DEF MarkStudents
  <1> HIDE DEF m
  <1>5. \A p : Inserters(marking', p) \subseteq Inserters(marking, p)
    <2>1. \A p : ~ Inserts(m, p)
      BY <1>2 DEF Inserts
    <2>2. \A p : Inserters(marking', p) = Inserters(marking, p) \ {r}
      BY <1>2, <1>4, <2>1, MarkingMoves DEF SheetInv
    <2>3. QED
      BY <2>2
  <1>6. /\ markOverlap' \in BOOLEAN
        /\ ~ markOverlap' => ~ markOverlap /\ \A q \in Requests \ {r} : marking[q].pc = "idle"
    BY <1>4 DEF SheetInv, MarkingTyped, Meets
  <1>7. QED
    BY <1>1, <1>2, <1>4, <1>5, <1>6, QuietMarking

LEMMA FindStudentRecordStep ==
  ASSUME SheetInv, NEW r \in Requests, FindStudentRecord(r)
  PROVE  SheetInv'
  <1>0. PICK h \in Marking : h = marking[r]
    BY DEF SheetInv, MarkingTyped
  <1>1. h.todo \in Seq(Pupils) /\ h.todo # <<>> /\ h.pc = "find"
    BY <1>0 DEF SheetInv, MarkingTyped, FindStudentRecord, Marking
  <1>2. Head(h.todo) \in Pupils
    BY <1>1
  <1>3. PICK p \in Pupils : p = Head(h.todo)
    BY <1>2
  <1>4. PICK found : found = DOMAIN sheet[p]
    OBVIOUS
  <1>5. PICK row \in (IF found = {} THEN {0} ELSE found) :
          marking' = [marking EXCEPT ![r] = [h EXCEPT !.pc = "write", !.want = row]]
    BY <1>0, <1>3, <1>4 DEF FindStudentRecord
  <1>6. sheet[p] \in Seq(Entries) /\ found = 1 .. Len(sheet[p]) /\ Len(sheet[p]) \in Nat
    BY <1>4 DEF SheetInv, MarkingTyped
  <1>7. row \in Nat /\ (row = 0 => Len(sheet[p]) = 0)
    <2>1. CASE found = {}
      <3>1. row = 0
        BY <1>5, <2>1
      <3>2. Len(sheet[p]) = 0
        BY <1>6, <2>1
      <3>3. QED
        BY <3>1, <3>2
    <2>2. CASE found # {}
      <3>1. row \in found
        BY <1>5, <2>2
      <3>2. QED
        BY <1>6, <3>1
    <2>3. QED
      BY <2>1, <2>2
  <1> DEFINE a == [h EXCEPT !.pc = "write"]
             m == [a EXCEPT !.want = row]
  <1>8. /\ m \in Marking /\ m.pc = "write" /\ m.rows = h.rows /\ m.todo = h.todo
        /\ m.want = row
    <2>1. a \in Marking /\ a.pc = "write" /\ a.rows = h.rows /\ a.todo = h.todo
      BY DEF Marking
    <2> HIDE DEF a
    <2>2. QED
      BY <1>7, <2>1 DEF Marking
  <1>9. m = [h EXCEPT !.pc = "write", !.want = row]
    OBVIOUS
  <1>10. marking' = [marking EXCEPT ![r] = m]
    BY <1>5, <1>9
  <1> HIDE DEF m
  <1>11. ASSUME NEW x \in Pupils
         PROVE  \/ Inserters(marking', x) \subseteq Inserters(marking, x)
                \/ Len(sheet[x]) = 0
    <2>1. CASE row = 0 /\ x = p
      BY <1>7, <2>1
    <2>2. CASE <<x, 0>> \in h.rows
      <3>1. r \in Inserters(marking, x)
        BY <1>0, <2>2 DEF Inserters, Inserts
      <3>2. Inserters(marking', x) \subseteq Inserters(marking, x) \cup {r}
        BY <1>8, <1>10, MarkingMoves DEF SheetInv
      <3>3. QED
        BY <3>1, <3>2
    <2>3. CASE <<x, 0>> \notin h.rows /\ ~ (row = 0 /\ x = p)
      <3>1. ~ Inserts(m, x)
        BY <1>3, <1>8, <2>3 DEF Inserts
      <3>2. Inserters(marking', x) = Inserters(marking, x) \ {r}
        BY <1>8, <1>10, <3>1, MarkingMoves DEF SheetInv
      <3>3. QED
        BY <3>2
    <2>4. QED
      BY <2>1, <2>2, <2>3
  <1>12. sheet' = sheet /\ markOverlap' = markOverlap /\ markOverlap \in BOOLEAN
    BY DEF FindStudentRecord, SheetInv, MarkingTyped
  <1>13. marking[r].pc # "idle"
    BY <1>0, <1>1
  <1>14. QED
    BY <1>1, <1>8, <1>10, <1>11, <1>12, <1>13, QuietMarking

LEMMA TailStays ==
  ASSUME NEW t \in Seq(Pupils), Len(t) > 1
  PROVE  Tail(t) \in Seq(Pupils) /\ Tail(t) # <<>>
  <1>1. t # <<>>
    OBVIOUS
  <1>2. Tail(t) \in Seq(Pupils) /\ Len(Tail(t)) = Len(t) - 1 /\ Len(t) \in Nat
    BY <1>1
  <1>3. Len(Tail(t)) # 0
    <2>1. PICK n \in Nat : n = Len(t)
      BY <1>2
    <2>2. n > 1 /\ Len(Tail(t)) = n - 1
      BY <1>2, <2>1
    <2>3. n - 1 # 0
      BY <2>1, <2>2
    <2>4. QED
      BY <2>2, <2>3
  <1>4. Len(<<>>) = 0
    OBVIOUS
  <1>5. Tail(t) # <<>>
    BY <1>3, <1>4, Zenon
  <1>6. QED
    BY <1>2, <1>5

LEMMA MarkingAbortsStep ==
  ASSUME SheetInv, NEW r \in Requests, MarkingAborts(r)
  PROVE  SheetInv'
  <1>1. /\ marking[r].pc # "idle" /\ marking' = [marking EXCEPT ![r] = NoMarking]
        /\ sheet' = sheet /\ markOverlap' = markOverlap
    BY DEF MarkingAborts
  <1>2. \A p : ~ Inserts(NoMarking, p)
    BY NoMarkingType DEF Inserts
  <1>3. \A p : Inserters(marking', p) = Inserters(marking, p) \ {r}
    BY <1>1, <1>2, NoMarkingType, MarkingMoves DEF SheetInv
  <1>4. markOverlap \in BOOLEAN
    BY DEF SheetInv, MarkingTyped
  <1>5. QED
    BY <1>1, <1>3, <1>4, NoMarkingType, QuietMarking

\* What a commit does to the rows of one pupil.
LEMMA SheetWithRows ==
  ASSUME MarkingTyped, NEW rows, NEW e \in Entries
  PROVE  /\ SheetWith(rows, e) \in [Pupils -> Seq(Entries)]
         /\ \A p \in Pupils :
              /\ <<p, 0>> \in rows => Len(SheetWith(rows, e)[p]) = Len(sheet[p]) + 1
              /\ <<p, 0>> \notin rows => Len(SheetWith(rows, e)[p]) = Len(sheet[p])
  <1> DEFINE w(p) == [i \in DOMAIN sheet[p] |-> IF <<p, i>> \in rows THEN e ELSE sheet[p][i]]
             s(p) == IF <<p, 0>> \in rows THEN Append(w(p), e) ELSE w(p)
  <1>1. SheetWith(rows, e) = [p \in Pupils |-> s(p)]
    BY DEF SheetWith
  <1>2. ASSUME NEW p \in Pupils
        PROVE  /\ s(p) \in Seq(Entries)
               /\ <<p, 0>> \in rows => Len(s(p)) = Len(sheet[p]) + 1
               /\ <<p, 0>> \notin rows => Len(s(p)) = Len(sheet[p])
    <2>1. sheet[p] \in Seq(Entries) /\ Len(sheet[p]) \in Nat
      BY DEF MarkingTyped
    <2>2. w(p) \in [1 .. Len(sheet[p]) -> Entries]
      BY <2>1
    <2> HIDE DEF w
    <2>3. PICK v \in [1 .. Len(sheet[p]) -> Entries] : v = w(p)
      BY <2>2
    <2>4. v \in Seq(Entries) /\ Len(v) = Len(sheet[p])
      BY <2>1
    <2>5. /\ Append(v, e) \in Seq(Entries)
          /\ Len(Append(v, e)) = Len(sheet[p]) + 1
      BY <2>4
    <2>6. CASE <<p, 0>> \in rows
      BY <2>3, <2>5, <2>6
    <2>7. CASE <<p, 0>> \notin rows
      BY <2>3, <2>4, <2>7
    <2>8. QED
      BY <2>6, <2>7
  <1> HIDE DEF s
  <1>3. QED
    BY <1>1, <1>2

\* The commit appends only rows that have been counted.
LEMMA CommitStep ==
  ASSUME SheetInv, NEW r \in Requests, NEW rows, NEW e \in Entries,
         marking[r].pc # "idle", sheet' = SheetWith(rows, e),
         marking' = [marking EXCEPT ![r] = NoMarking], markOverlap' = markOverlap,
         \A p \in Pupils : <<p, 0>> \in rows => r \in Inserters(marking, p)
  PROVE  SheetInv'
  <1>1. /\ marking' \in [Requests -> Marking] /\ marking'[r] = NoMarking
        /\ \A q \in Requests \ {r} : marking'[q] = marking[q]
    BY NoMarkingType, MarkingMoves DEF SheetInv
  <1>2. \A p : Inserters(marking', p) = Inserters(marking, p) \ {r}
    <2>1. \A p : ~ Inserts(NoMarking, p)
      BY NoMarkingType DEF Inserts
    <2>2. QED
      BY <2>1, NoMarkingType, MarkingMoves DEF SheetInv
  <1>3. /\ sheet' \in [Pupils -> Seq(Entries)]
        /\ \A p \in Pupils :
             /\ <<p, 0>> \in rows => Len(sheet'[p]) = Len(sheet[p]) + 1
             /\ <<p, 0>> \notin rows => Len(sheet'[p]) = Len(sheet[p])
    BY SheetWithRows DEF SheetInv
  <1>4. \A p \in Pupils : Len(sheet[p]) \in Nat
    BY DEF SheetInv, MarkingTyped
  <1>5. MarkingTyped'
    BY <1>1, <1>3, NoMarkingType DEF SheetInv, MarkingTyped
  <1>6. ASSUME NEW p \in Pupils
        PROVE  Len(sheet'[p]) + Cardinality(Inserters(marking', p)) <= Cardinality(Requests)
    <2>1. Len(sheet[p]) + Cardinality(Inserters(marking, p)) <= Cardinality(Requests)
      BY DEF SheetInv, RoomOnSheet
    <2>2. CASE <<p, 0>> \in rows
      <3>1. Cardinality(Inserters(marking', p)) = Cardinality(Inserters(marking, p)) - 1
        BY <1>2, <2>2, InsertersFinite, FS_RemoveElement
      <3>2. Len(sheet'[p]) = Len(sheet[p]) + 1
        BY <1>3, <2>2
      <3>3. QED
        BY <1>4, <2>1, <3>1, <3>2, InsertersFinite
    <2>3. CASE <<p, 0>> \notin rows
      <3>1. Inserters(marking', p) \subseteq Inserters(marking, p)
        BY <1>2
      <3>2. Cardinality(Inserters(marking', p)) <= Cardinality(Inserters(marking, p))
        BY <3>1, InsertersFinite, FS_Subset
      <3>3. Len(sheet'[p]) = Len(sheet[p])
        BY <1>3, <1>4, <2>3
      <3>4. QED
        BY <1>4, <2>1, <3>2, <3>3, InsertersFinite
    <2>4. QED
      BY <2>2, <2>3
  <1>7. RoomOnSheet'
    BY <1>6 DEF RoomOnSheet
  <1>8. LonelyMarking'
    <2> SUFFICES ASSUME ~ markOverlap PROVE LonelyMarking'
      BY DEF LonelyMarking
    <2>1. \A q \in Requests \ {r} : marking[q].pc = "idle"
      BY DEF SheetInv, LonelyMarking
    <2>2. \A q \in Requests : marking'[q].pc = "idle"
      BY <1>1, <2>1, NoMarkingType
    <2>3. \A p \in Pupils : Inserters(marking', p) = {}
      <3>1. \A q \in Requests \ {r} : marking[q].rows = {}
        BY <2>1 DEF SheetInv, MarkingTyped
      <3>2. \A q \in Requests \ {r}, p \in Pupils : ~ Inserts(marking[q], p)
        BY <2>1, <3>1 DEF Inserts
      <3>3. \A p \in Pupils : Inserters(marking, p) \subseteq {r}
        BY <3>2 DEF Inserters
      <3>4. QED
        BY <1>2, <3>3
    <2>4. ASSUME NEW p \in Pupils
          PROVE  Len(sheet'[p]) <= 1
      <3>1. CASE <<p, 0>> \in rows
        <4>1. Len(sheet[p]) = 0
          BY <3>1 DEF SheetInv, LonelyMarking
        <4>2. QED
          BY <1>3, <3>1, <4>1
      <3>2. CASE <<p, 0>> \notin rows
        <4>1. Len(sheet[p]) <= 1
          BY DEF SheetInv, LonelyMarking
        <4>2. Len(sheet'[p]) = Len(sheet[p])
          BY <1>3, <1>4, <3>2
        <4>3. QED
          BY <4>1, <4>2
      <3>3. QED
        BY <3>1, <3>2
    <2>5. QED
      BY <2>2, <2>3, <2>4 DEF LonelyMarking
  <1>9. QED
    BY <1>5, <1>7, <1>8 DEF SheetInv

LEMMA WriteStudentRecordStep ==
  ASSUME SheetInv, NEW r \in Requests, WriteStudentRecord(r)
  PROVE  SheetInv'
  <1>0. PICK h \in Marking : h = marking[r]
    BY DEF SheetInv, MarkingTyped
  <1>1. h.todo \in Seq(Pupils) /\ h.todo # <<>> /\ h.pc = "write" /\ h.want \in Nat
    BY <1>0 DEF SheetInv, MarkingTyped, WriteStudentRecord, Marking
  <1>2. Head(h.todo) \in Pupils
    BY <1>1
  <1>3. PICK p \in Pupils : p = Head(h.todo)
    BY <1>2
  <1>4. PICK rows : rows = h.rows \cup {<<p, h.want>>}
    OBVIOUS
  <1>5. ASSUME NEW x \in Pupils, <<x, 0>> \in rows
        PROVE  Inserts(h, x)
    BY <1>1, <1>3, <1>4, <1>5 DEF Inserts
  <1>6. rows \in SUBSET (Pupils \X Nat)
    BY <1>1, <1>4 DEF Marking
  <1>7. markOverlap' = markOverlap /\ markOverlap \in BOOLEAN /\ marking[r].pc # "idle"
    BY <1>0, <1>1 DEF WriteStudentRecord, SheetInv, MarkingTyped
  <1>8. CASE /\ Len(h.todo) > 1 /\ sheet' = sheet
             /\ marking' = [marking EXCEPT ![r] =
                              [h EXCEPT !.pc = "find", !.todo = Tail(h.todo), !.rows = rows]]
    <2> DEFINE a == [h EXCEPT !.pc = "find"]
               b == [a EXCEPT !.todo = Tail(h.todo)]
               m == [b EXCEPT !.rows = rows]
    <2>1. Tail(h.todo) \in Seq(Pupils) /\ Tail(h.todo) # <<>>
      <3>1. h.todo \in Seq(Pupils) /\ Len(h.todo) > 1
        BY <1>1, <1>8
      <3>2. QED
        BY <3>1, TailStays
    <2>2. /\ m \in Marking /\ m.pc = "find" /\ m.rows = rows /\ m.todo = Tail(h.todo)
      <3>1. a \in Marking /\ a.pc = "find"
        BY DEF Marking
      <3> HIDE DEF a
      <3>2. b \in Marking /\ b.pc = "find" /\ b.todo = Tail(h.todo)
        BY <2>1, <3>1 DEF Marking
      <3> HIDE DEF b
      <3>3. QED
        BY <1>6, <3>2 DEF Marking
    <2>3. m = [h EXCEPT !.pc = "find", !.todo = Tail(h.todo), !.rows = rows]
      OBVIOUS
    <2>4. marking' = [marking EXCEPT ![r] = m]
      BY <1>8, <2>3
    <2> HIDE DEF m
    <2>5. ASSUME NEW x \in Pupils
          PROVE  Inserters(marking', x) \subseteq Inserters(marking, x)
      <3>1. CASE <<x, 0>> \in rows
        <4>1. r \in Inserters(marking, x)
          BY <1>0, <1>5, <3>1 DEF Inserters
        <4>2. Inserters(marking', x) \subseteq Inserters(marking, x) \cup {r}
          BY <2>2, <2>4, MarkingMoves DEF SheetInv
        <4>3. QED
          BY <4>1, <4>2
      <3>2. CASE <<x, 0>> \notin rows
        <4>1. ~ Inserts(m, x)
          BY <2>2, <3>2 DEF Inserts
        <4>2. Inserters(marking', x) = Inserters(marking, x) \ {r}
          BY <2>2, <2>4, <4>1, MarkingMoves DEF SheetInv
        <4>3. QED
          BY <4>2
      <3>3. QED
        BY <3>1, <3>2
    <2>6. QED
      BY <1>7, <1>8, <2>1, <2>2, <2>4, <2>5, QuietMarking
  <1>9. CASE sheet' = SheetWith(rows, h.entry) /\ marking' = [marking EXCEPT ![r] = NoMarking]
    <2>1. h.entry \in Entries
      BY DEF Marking
    <2>2. \A x \in Pupils : <<x, 0>> \in rows => r \in Inserters(marking, x)
      BY <1>0, <1>5 DEF Inserters
    <2>3. QED
      BY <1>7, <1>9, <2>1, <2>2, CommitStep
  <1>10. QED
    BY <1>0, <1>3, <1>4, <1>8, <1>9 DEF WriteStudentRecord

LEMMA SheetStepInv == SheetInv /\ [AttendanceNext]_attendanceVars => SheetInv'
  <1> SUFFICES ASSUME SheetInv, [AttendanceNext]_attendanceVars PROVE SheetInv'
    OBVIOUS
  <1>1. CASE UNCHANGED sheetVars
    BY <1>1 DEF sheetVars, SheetInv, MarkingTyped, RoomOnSheet, LonelyMarking
  <1>2. CASE LogNext
    <2>1. UNCHANGED sheetVars
      BY <1>2 DEF LogNext, StaffCheckIn, CreateCheckIn, StaffCheckOut, SetCheckOut, PunchAborts,
                  Tick, PunchCall
    <2>2. QED
      BY <1>1, <2>1
  <1>3. CASE UNCHANGED attendanceVars
    BY <1>1, <1>3 DEF attendanceVars, sheetVars
  <1>4. ASSUME NEW r \in Requests, NEW pupils \in (SUBSET Pupils) \ {{}}, NEW e \in Entries,
               NEW todo \in SetToSeqs(pupils), MarkStudents(r, todo, e)
        PROVE  SheetInv'
    BY <1>4, MarkStudentsStep
  <1>5. ASSUME NEW r \in Requests, FindStudentRecord(r)
        PROVE  SheetInv'
    BY <1>5, FindStudentRecordStep
  <1>6. ASSUME NEW r \in Requests, WriteStudentRecord(r)
        PROVE  SheetInv'
    BY <1>6, WriteStudentRecordStep
  <1>7. ASSUME NEW r \in Requests, MarkingAborts(r)
        PROVE  SheetInv'
    BY <1>7, MarkingAbortsStep
  <1>8. CASE SheetNext
    BY <1>4, <1>5, <1>6, <1>7, <1>8 DEF SheetNext
  <1>9. QED
    BY <1>2, <1>3, <1>8 DEF AttendanceNext

\* However often the sheet is sent, a day of a pupil is counted at most once per
\* request in flight, and once when requests come one at a time
\* (attendance.repository.ts:69, attendance.service.ts: markStudents).
THEOREM DaysCountedHolds == AttendanceSpec => []DaysCounted
  <1>1. AttendanceInit => SheetInv
    BY SheetInitInv
  <1>2. SheetInv /\ [AttendanceNext]_attendanceVars => SheetInv'
    BY SheetStepInv
  <1>3. SheetInv => DaysCounted
    <2> SUFFICES ASSUME SheetInv, NEW p \in Pupils
                 PROVE  Len(sheet[p]) <= IF markOverlap THEN Cardinality(Requests) ELSE 1
      BY DEF DaysCounted
    <2>1. Len(sheet[p]) + Cardinality(Inserters(marking, p)) <= Cardinality(Requests)
      BY DEF SheetInv, RoomOnSheet
    <2>2. Len(sheet[p]) \in Nat
      BY DEF SheetInv, MarkingTyped
    <2>3. Len(sheet[p]) <= Cardinality(Requests)
      BY <2>1, <2>2, InsertersFinite
    <2>4. ~ markOverlap => Len(sheet[p]) <= 1
      BY DEF SheetInv, LonelyMarking
    <2>5. QED
      BY <2>3, <2>4
  <1>4. QED
    BY <1>1, <1>2, <1>3, PTL DEF AttendanceSpec

-----------------------------------------------------------------------------
(* Attendance: the logs                                                    *)

ArrivalsIn(h) == {r \in Requests : h[r].pc = "in"}

PunchTyped ==
  /\ logs \in Seq(Log)
  /\ punch \in [Requests -> Punch]
  /\ punchOverlap \in BOOLEAN
  /\ clock \in 0 .. MaxClock
  /\ \A r \in Requests : punch[r].pc = "out" => punch[r].row \in DOMAIN logs

\* A check-in has found no log, when there were only the other requests to write one.
RoomForLogs == Len(logs) + Cardinality(ArrivalsIn(punch)) <= Cardinality(Requests)

LonelyPunch ==
  ~ punchOverlap =>
    /\ \A q, r \in Requests : punch[q].pc # "idle" /\ punch[r].pc # "idle" => q = r
    /\ Len(logs) <= 1
    /\ ArrivalsIn(punch) # {} => logs = <<>>

\* Nothing ends later than now.
NoneAfterNow == \A i \in DOMAIN logs : logs[i].out <= clock

PunchInv == PunchTyped /\ RoomForLogs /\ LonelyPunch /\ NoneAfterNow

LEMMA ArrivalsFinite ==
  ASSUME NEW h
  PROVE  /\ IsFiniteSet(ArrivalsIn(h))
         /\ Cardinality(ArrivalsIn(h)) \in Nat
         /\ Cardinality(ArrivalsIn(h)) <= Cardinality(Requests)
         /\ Cardinality(Requests) \in Nat
  <1>1. ArrivalsIn(h) \subseteq Requests
    BY DEF ArrivalsIn
  <1>2. QED
    BY <1>1, HandlersAssumption, FS_Subset, FS_CardinalityType

LEMMA LogRows ==
  ASSUME PunchTyped
  PROVE  /\ DOMAIN logs = 1 .. Len(logs) /\ Len(logs) \in Nat
         /\ \A i \in DOMAIN logs : logs[i] \in Log
         /\ clock \in Nat /\ MaxClock \in Nat
  <1>1. logs \in Seq(Log)
    BY DEF PunchTyped
  <1>2. DOMAIN logs = 1 .. Len(logs) /\ Len(logs) \in Nat
    BY <1>1
  <1>3. \A i \in DOMAIN logs : logs[i] \in Log
    BY <1>1
  <1>4. clock \in Nat /\ MaxClock \in Nat
    BY AttendanceAssumption DEF PunchTyped
  <1>5. QED
    BY <1>2, <1>3, <1>4

\* One request moves, the others stand still.
LEMMA PunchMoves ==
  ASSUME PunchTyped, NEW r \in Requests, NEW from \in {"idle", "in", "out"},
         NEW to \in {"idle", "in", "out"}, NEW row \in Nat, PunchStep(r, from, to, row)
  PROVE  /\ punch[r].pc = from
         /\ punch' \in [Requests -> Punch] /\ punch'[r].pc = to /\ punch'[r].row = row
         /\ \A q \in Requests \ {r} : punch'[q] = punch[q]
         /\ to # "in" => ArrivalsIn(punch') = ArrivalsIn(punch) \ {r}
         /\ from = "in" => r \in ArrivalsIn(punch)
  <1> DEFINE m == [pc |-> to, row |-> row]
  <1>1. m \in Punch /\ m.pc = to /\ m.row = row
    BY DEF Punch
  <1>2. punch[r].pc = from /\ punch' = [punch EXCEPT ![r] = m]
    BY DEF PunchStep
  <1> HIDE DEF m
  <1>3. /\ punch' \in [Requests -> Punch] /\ punch'[r] = m
        /\ \A q \in Requests \ {r} : punch'[q] = punch[q]
    BY <1>1, <1>2 DEF PunchTyped
  <1>4. to # "in" => ArrivalsIn(punch') = ArrivalsIn(punch) \ {r}
    BY <1>1, <1>3 DEF ArrivalsIn
  <1>5. from = "in" => r \in ArrivalsIn(punch)
    BY <1>2 DEF ArrivalsIn
  <1>6. QED
    BY <1>1, <1>2, <1>3, <1>4, <1>5

LEMMA PunchInitInv == AttendanceInit => PunchInv
  <1> SUFFICES ASSUME AttendanceInit PROVE PunchInv
    OBVIOUS
  <1>1. \A r \in Requests : punch[r] = NoPunch
    BY DEF AttendanceInit
  <1>2. NoPunch \in Punch /\ NoPunch.pc = "idle"
    BY DEF NoPunch, Punch
  <1>3. ArrivalsIn(punch) = {}
    BY <1>1, <1>2 DEF ArrivalsIn
  <1>4. logs = <<>> /\ logs \in Seq(Log) /\ Len(logs) = 0 /\ DOMAIN logs = {}
    <2>1. logs = <<>>
      BY DEF AttendanceInit
    <2>2. <<>> \in Seq(Log) /\ Len(<<>>) = 0 /\ DOMAIN <<>> = {}
      OBVIOUS
    <2>3. QED
      BY <2>1, <2>2
  <1>5. PunchTyped
    <2>1. punch \in [Requests -> Punch]
      BY <1>2 DEF AttendanceInit
    <2>2. clock \in 0 .. MaxClock /\ punchOverlap \in BOOLEAN
      <3>1. 0 \in 0 .. MaxClock
        BY AttendanceAssumption
      <3>2. clock = 0 /\ punchOverlap = FALSE
        BY DEF AttendanceInit
      <3>3. QED
        BY <3>1, <3>2
    <2>3. QED
      BY <1>1, <1>2, <1>4, <2>1, <2>2 DEF PunchTyped
  <1>6. RoomForLogs
    BY <1>4, ArrivalsFinite DEF RoomForLogs
  <1>7. LonelyPunch
    BY <1>1, <1>2, <1>3, <1>4 DEF LonelyPunch
  <1>8. NoneAfterNow
    BY <1>4 DEF NoneAfterNow
  <1>9. QED
    BY <1>5, <1>6, <1>7, <1>8 DEF PunchInv

\* A call, or a request that ends without writing.
LEMMA QuietPunch ==
  ASSUME PunchInv, NEW r \in Requests, NEW from \in {"idle", "in", "out"},
         NEW to \in {"idle", "in", "out"}, NEW row \in Nat, PunchStep(r, from, to, row), UNCHANGED <<logs, clock>>,
         punchOverlap' \in BOOLEAN, punchOverlap => punchOverlap',
         from = "idle" /\ ~ punchOverlap' => \A q \in Requests \ {r} : punch[q].pc = "idle",
         to = "in" => logs = <<>>,
         to = "out" => row \in DOMAIN logs
  PROVE  PunchInv'
  <1>0. /\ PunchTyped /\ PunchStep(r, from, to, row)
        /\ to \in {"idle", "in", "out"} /\ row \in Nat
    BY DEF PunchInv
  <1>1. /\ punch[r].pc = from
        /\ punch' \in [Requests -> Punch] /\ punch'[r].pc = to /\ punch'[r].row = row
        /\ \A q \in Requests \ {r} : punch'[q] = punch[q]
        /\ to # "in" => ArrivalsIn(punch') = ArrivalsIn(punch) \ {r}
    BY <1>0, PunchMoves
  <1>2. PunchTyped'
    BY <1>1 DEF PunchInv, PunchTyped
  <1>3. Len(logs) \in Nat
    BY LogRows DEF PunchInv
  <1>4. Len(logs) + Cardinality(ArrivalsIn(punch')) <= Cardinality(Requests)
    <2>1. CASE to = "in"
      <3>1. Len(logs) = 0
        <4>1. logs = <<>> /\ Len(<<>>) = 0
          BY <2>1
        <4>2. QED
          BY <4>1
      <3>2. QED
        BY <3>1, ArrivalsFinite
    <2>2. CASE to # "in"
      <3>1. ArrivalsIn(punch') \subseteq ArrivalsIn(punch)
        BY <1>1, <2>2
      <3>2. Cardinality(ArrivalsIn(punch')) <= Cardinality(ArrivalsIn(punch))
        BY <3>1, ArrivalsFinite, FS_Subset
      <3>3. Len(logs) + Cardinality(ArrivalsIn(punch)) <= Cardinality(Requests)
        BY DEF PunchInv, RoomForLogs
      <3>4. QED
        BY <1>3, <3>2, <3>3, ArrivalsFinite
    <2>3. QED
      BY <2>1, <2>2
  <1>5. RoomForLogs'
    BY <1>4 DEF RoomForLogs
  <1>6. LonelyPunch'
    <2> SUFFICES ASSUME ~ punchOverlap' PROVE LonelyPunch'
      BY DEF LonelyPunch
    <2>1. ~ punchOverlap
      OBVIOUS
    <2>2. \A q \in Requests \ {r} : punch'[q].pc = "idle"
      <3>1. punch[r].pc # "idle" => \A q \in Requests \ {r} : punch[q].pc = "idle"
        BY <2>1 DEF PunchInv, LonelyPunch
      <3>2. QED
        BY <1>1, <3>1
    <2>3. Len(logs') <= 1
      BY <2>1 DEF PunchInv, LonelyPunch
    <2>4. ArrivalsIn(punch') # {} => logs' = <<>>
      <3>1. CASE to = "in"
        BY <3>1
      <3>2. CASE to # "in"
        <4>1. ArrivalsIn(punch') \subseteq ArrivalsIn(punch)
          BY <1>1, <3>2
        <4>2. ArrivalsIn(punch) # {} => logs = <<>>
          BY <2>1 DEF PunchInv, LonelyPunch
        <4>3. QED
          BY <4>1, <4>2
      <3>3. QED
        BY <3>1, <3>2
    <2>5. QED
      BY <2>2, <2>3, <2>4 DEF LonelyPunch
  <1>7. NoneAfterNow'
    BY DEF PunchInv, NoneAfterNow
  <1>8. QED
    BY <1>2, <1>5, <1>6, <1>7 DEF PunchInv

LEMMA PunchCallStep ==
  ASSUME PunchInv, NEW r \in Requests, NEW to \in {"in", "out"}, NEW row \in Nat,
         PunchCall(r, to, row), to = "in" => logs = <<>>, to = "out" => row \in DOMAIN logs
  PROVE  PunchInv'
  <1>1. /\ PunchStep(r, "idle", to, row) /\ UNCHANGED <<logs, clock>>
        /\ punchOverlap' = (punchOverlap \/ Meets(punch, r))
        /\ to \in {"idle", "in", "out"} /\ "idle" \in {"idle", "in", "out"}
    BY DEF PunchCall
  <1>2. /\ punchOverlap' \in BOOLEAN /\ (punchOverlap => punchOverlap')
        /\ ~ punchOverlap' => \A q \in Requests \ {r} : punch[q].pc = "idle"
    BY <1>1 DEF PunchInv, PunchTyped, Meets
  <1>3. QED
    BY <1>1, <1>2, QuietPunch

LEMMA CreateCheckInStep ==
  ASSUME PunchInv, NEW r \in Requests, CreateCheckIn(r)
  PROVE  PunchInv'
  <1>1. PICK log : log = [in |-> clock, out |-> clock, done |-> FALSE]
    OBVIOUS
  <1>2. log \in Log /\ log.out = clock
    BY <1>1 DEF PunchInv, PunchTyped, Log
  <1>3. /\ PunchStep(r, "in", "idle", 0) /\ logs' = Append(logs, log)
        /\ punchOverlap' = punchOverlap /\ clock' = clock
    BY <1>1 DEF CreateCheckIn
  <1>4. /\ punch[r].pc = "in" /\ punch'[r].pc = "idle"
        /\ punch' \in [Requests -> Punch]
        /\ \A q \in Requests \ {r} : punch'[q] = punch[q]
        /\ ArrivalsIn(punch') = ArrivalsIn(punch) \ {r}
        /\ r \in ArrivalsIn(punch)
    <2>1. /\ "idle" \in {"idle", "in", "out"} /\ "in" \in {"idle", "in", "out"}
          /\ "out" \in {"idle", "in", "out"} /\ "idle" # "in" /\ 0 \in Nat
      OBVIOUS
    <2>2. QED
      BY <1>3, <2>1, PunchMoves DEF PunchInv
  <1>5. /\ logs \in Seq(Log) /\ Len(logs) \in Nat /\ DOMAIN logs = 1 .. Len(logs)
    BY LogRows DEF PunchInv, PunchTyped
  <1>6. /\ logs' \in Seq(Log) /\ Len(logs') = Len(logs) + 1
        /\ DOMAIN logs' = 1 .. Len(logs) + 1
        /\ \A i \in DOMAIN logs : logs'[i] = logs[i]
        /\ logs'[Len(logs) + 1] = log
    BY <1>2, <1>3, <1>5
  <1>7. DOMAIN logs' = DOMAIN logs \cup {Len(logs) + 1}
    BY <1>5, <1>6
  <1>8. PunchTyped'
    BY <1>3, <1>4, <1>6, <1>7 DEF PunchInv, PunchTyped
  <1>9. RoomForLogs'
    <2>1. Cardinality(ArrivalsIn(punch')) = Cardinality(ArrivalsIn(punch)) - 1
      BY <1>4, ArrivalsFinite, FS_RemoveElement
    <2>2. Len(logs) + Cardinality(ArrivalsIn(punch)) <= Cardinality(Requests)
      BY DEF PunchInv, RoomForLogs
    <2>3. Len(logs') + Cardinality(ArrivalsIn(punch')) <= Cardinality(Requests)
      BY <1>5, <1>6, <2>1, <2>2, ArrivalsFinite
    <2>4. QED
      BY <2>3 DEF RoomForLogs
  <1>10. LonelyPunch'
    <2> SUFFICES ASSUME ~ punchOverlap PROVE LonelyPunch'
      BY <1>3 DEF LonelyPunch
    <2>1. \A q \in Requests : punch'[q].pc = "idle"
      BY <1>4 DEF PunchInv, LonelyPunch
    <2>2. Len(logs') = 1
      <3>1. logs = <<>> /\ Len(<<>>) = 0
        BY <1>4 DEF PunchInv, LonelyPunch
      <3>2. Len(logs) = 0
        BY <3>1
      <3>3. QED
        BY <1>6, <3>2
    <2>3. ArrivalsIn(punch') = {}
      BY <2>1 DEF ArrivalsIn
    <2>4. QED
      BY <2>1, <2>2, <2>3 DEF LonelyPunch
  <1>11. NoneAfterNow'
    <2>1. clock <= clock
      BY LogRows DEF PunchInv
    <2>2. ASSUME NEW i \in DOMAIN logs'
          PROVE  logs'[i].out <= clock
      BY <1>2, <1>6, <1>7, <2>1 DEF PunchInv, NoneAfterNow
    <2>3. QED
      BY <1>3, <2>2 DEF NoneAfterNow
  <1>12. QED
    BY <1>8, <1>9, <1>10, <1>11 DEF PunchInv

LEMMA SetCheckOutStep ==
  ASSUME PunchInv, NEW r \in Requests, SetCheckOut(r)
  PROVE  PunchInv'
  <1>1. PunchStep(r, "out", "idle", 0) /\ punchOverlap' = punchOverlap /\ clock' = clock
    BY DEF SetCheckOut
  <1>2. /\ punch[r].pc = "out" /\ punch'[r].pc = "idle"
        /\ punch' \in [Requests -> Punch]
        /\ \A q \in Requests \ {r} : punch'[q] = punch[q]
        /\ ArrivalsIn(punch') = ArrivalsIn(punch) \ {r}
    <2>1. /\ "idle" \in {"idle", "in", "out"} /\ "in" \in {"idle", "in", "out"}
          /\ "out" \in {"idle", "in", "out"} /\ "idle" # "in" /\ 0 \in Nat
      OBVIOUS
    <2>2. QED
      BY <1>1, <2>1, PunchMoves DEF PunchInv
  <1>3. PICK i \in DOMAIN logs : i = punch[r].row
    BY <1>2 DEF PunchInv, PunchTyped
  <1>4. logs' = [logs EXCEPT ![i] = [logs[i] EXCEPT !.out = clock, !.done = TRUE]]
    BY <1>3 DEF SetCheckOut
  <1>5. /\ logs \in Seq(Log) /\ Len(logs) \in Nat /\ DOMAIN logs = 1 .. Len(logs)
        /\ logs[i] \in Log
    BY LogRows DEF PunchInv, PunchTyped
  <1> DEFINE a == [logs[i] EXCEPT !.out = clock]
             b == [a EXCEPT !.done = TRUE]
  <1>6. b \in Log /\ b.out = clock
    <2>1. a \in Log /\ a.out = clock
      BY <1>5 DEF Log, PunchInv, PunchTyped
    <2> HIDE DEF a
    <2>2. QED
      BY <2>1 DEF Log
  <1>7. b = [logs[i] EXCEPT !.out = clock, !.done = TRUE]
    OBVIOUS
  <1>8. logs' = [logs EXCEPT ![i] = b]
    BY <1>4, <1>7
  <1> HIDE DEF b
  <1>9. /\ logs' \in Seq(Log) /\ Len(logs') = Len(logs) /\ DOMAIN logs' = DOMAIN logs
        /\ logs'[i] = b /\ \A j \in DOMAIN logs \ {i} : logs'[j] = logs[j]
    BY <1>5, <1>6, <1>8
  <1>10. PunchTyped'
    BY <1>1, <1>2, <1>9 DEF PunchInv, PunchTyped
  <1>11. RoomForLogs'
    <2>1. Cardinality(ArrivalsIn(punch')) <= Cardinality(ArrivalsIn(punch))
      BY <1>2, ArrivalsFinite, FS_Subset
    <2>2. Len(logs) + Cardinality(ArrivalsIn(punch)) <= Cardinality(Requests)
      BY DEF PunchInv, RoomForLogs
    <2>3. Len(logs') + Cardinality(ArrivalsIn(punch')) <= Cardinality(Requests)
      BY <1>5, <1>9, <2>1, <2>2, ArrivalsFinite
    <2>4. QED
      BY <2>3 DEF RoomForLogs
  <1>12. LonelyPunch'
    <2> SUFFICES ASSUME ~ punchOverlap PROVE LonelyPunch'
      BY <1>1 DEF LonelyPunch
    <2>1. \A q \in Requests : punch'[q].pc = "idle"
      BY <1>2 DEF PunchInv, LonelyPunch
    <2>2. Len(logs') <= 1
      BY <1>9 DEF PunchInv, LonelyPunch
    <2>3. ArrivalsIn(punch') = {}
      BY <2>1 DEF ArrivalsIn
    <2>4. QED
      BY <2>1, <2>2, <2>3 DEF LonelyPunch
  <1>13. NoneAfterNow'
    <2>1. clock <= clock
      BY LogRows DEF PunchInv
    <2>2. ASSUME NEW j \in DOMAIN logs'
          PROVE  logs'[j].out <= clock
      BY <1>6, <1>9, <2>1 DEF PunchInv, NoneAfterNow
    <2>3. QED
      BY <1>1, <2>2 DEF NoneAfterNow
  <1>14. QED
    BY <1>10, <1>11, <1>12, <1>13 DEF PunchInv

LEMMA PunchAbortsStep ==
  ASSUME PunchInv, NEW r \in Requests, PunchAborts(r)
  PROVE  PunchInv'
  <1>1. PICK from \in {"idle", "in", "out"} : from = punch[r].pc
    BY DEF PunchInv, PunchTyped, Punch
  <1>2. /\ from # "idle" /\ PunchStep(r, from, "idle", 0)
        /\ UNCHANGED <<logs, clock>> /\ punchOverlap' = punchOverlap
    BY <1>1 DEF PunchAborts
  <1>3. /\ "idle" \in {"idle", "in", "out"} /\ "idle" # "in" /\ "idle" # "out" /\ 0 \in Nat
    OBVIOUS
  <1>4. punchOverlap \in BOOLEAN
    BY DEF PunchInv, PunchTyped
  <1>5. QED
    BY <1>2, <1>3, <1>4, QuietPunch

LEMMA TickStep == PunchInv /\ Tick => PunchInv'
  <1> SUFFICES ASSUME PunchInv, Tick PROVE PunchInv'
    OBVIOUS
  <1>1. clock < MaxClock /\ clock' = clock + 1 /\ UNCHANGED <<logs, punch, punchOverlap>>
    BY DEF Tick
  <1>2. clock \in Nat /\ MaxClock \in Nat
    BY LogRows DEF PunchInv
  <1>3. PunchTyped'
    BY <1>1, <1>2 DEF PunchInv, PunchTyped
  <1>4. RoomForLogs' /\ LonelyPunch'
    BY <1>1 DEF PunchInv, RoomForLogs, LonelyPunch
  <1>5. NoneAfterNow'
    <2>1. ASSUME NEW i \in DOMAIN logs
          PROVE  logs[i].out <= clock + 1
      <3>1. logs[i].out \in Nat
        BY <1>2, LogRows DEF PunchInv, Log
      <3>2. logs[i].out <= clock
        BY DEF PunchInv, NoneAfterNow
      <3>3. QED
        BY <1>2, <3>1, <3>2
    <2>2. QED
      BY <1>1, <2>1 DEF NoneAfterNow
  <1>6. QED
    BY <1>3, <1>4, <1>5 DEF PunchInv

LEMMA PunchStepInv == PunchInv /\ [AttendanceNext]_attendanceVars => PunchInv'
  <1> SUFFICES ASSUME PunchInv, [AttendanceNext]_attendanceVars PROVE PunchInv'
    OBVIOUS
  <1>1. CASE UNCHANGED logVars
    BY <1>1 DEF logVars, PunchInv, PunchTyped, RoomForLogs, LonelyPunch, NoneAfterNow
  <1>2. CASE SheetNext
    <2>1. UNCHANGED logVars
      BY <1>2 DEF SheetNext, MarkStudents, FindStudentRecord, WriteStudentRecord, MarkingAborts
    <2>2. QED
      BY <1>1, <2>1
  <1>3. CASE UNCHANGED attendanceVars
    BY <1>1, <1>3 DEF attendanceVars, logVars
  <1>4. ASSUME NEW r \in Requests, StaffCheckIn(r)
        PROVE  PunchInv'
    <2>1. logs = <<>> /\ PunchCall(r, "in", 0) /\ "in" \in {"in", "out"} /\ "in" # "out"
          /\ 0 \in Nat
      BY <1>4 DEF StaffCheckIn
    <2>2. QED
      BY <2>1, PunchCallStep
  <1>5. ASSUME NEW r \in Requests, StaffCheckOut(r)
        PROVE  PunchInv'
    <2>1. PICK row \in DOMAIN logs : PunchCall(r, "out", row)
      BY <1>5 DEF StaffCheckOut
    <2>2. row \in Nat /\ "out" \in {"in", "out"} /\ "in" # "out"
      BY LogRows DEF PunchInv
    <2>3. QED
      BY <2>1, <2>2, PunchCallStep
  <1>6. ASSUME NEW r \in Requests, CreateCheckIn(r)
        PROVE  PunchInv'
    BY <1>6, CreateCheckInStep
  <1>7. ASSUME NEW r \in Requests, SetCheckOut(r)
        PROVE  PunchInv'
    BY <1>7, SetCheckOutStep
  <1>8. ASSUME NEW r \in Requests, PunchAborts(r)
        PROVE  PunchInv'
    BY <1>8, PunchAbortsStep
  <1>9. CASE Tick
    BY <1>9, TickStep
  <1>10. CASE LogNext
    BY <1>4, <1>5, <1>6, <1>7, <1>8, <1>9, <1>10 DEF LogNext
  <1>11. QED
    BY <1>2, <1>3, <1>10 DEF AttendanceNext

\* No check-out loses its log, and every row is a row of the tables
\* (attendance.repository.ts: rows are never deleted).
THEOREM AttendanceTypeCorrect == AttendanceSpec => []AttendanceTypeOK
  <1>1. AttendanceInit => SheetInv /\ PunchInv
    BY SheetInitInv, PunchInitInv
  <1>2. SheetInv /\ PunchInv /\ [AttendanceNext]_attendanceVars => SheetInv' /\ PunchInv'
    BY SheetStepInv, PunchStepInv
  <1>3. SheetInv /\ PunchInv => AttendanceTypeOK
    BY DEF SheetInv, MarkingTyped, PunchInv, PunchTyped, AttendanceTypeOK
  <1>4. QED
    BY <1>1, <1>2, <1>3, PTL DEF AttendanceSpec

LEMMA ProductGrows ==
  ASSUME NEW a \in Nat, NEW b \in Nat, NEW c \in Nat, a <= b
  PROVE  a * c <= c * b
  OBVIOUS

LEMMA HoursBounded == PunchInv => HoursFitTheDay
  <1> SUFFICES ASSUME PunchInv PROVE HoursFitTheDay
    OBVIOUS
  <1>1. PICK k \in Nat : k = IF punchOverlap THEN Cardinality(Requests) ELSE 1
    BY ArrivalsFinite
  <1>2. /\ DOMAIN logs = 1 .. Len(logs) /\ Len(logs) \in Nat
        /\ clock \in Nat /\ MaxClock \in Nat
    BY LogRows DEF PunchInv
  <1>3. Len(logs) <= k
    <2>1. Len(logs) + Cardinality(ArrivalsIn(punch)) <= Cardinality(Requests)
      BY DEF PunchInv, RoomForLogs
    <2>2. Len(logs) <= Cardinality(Requests)
      BY <1>2, <2>1, ArrivalsFinite
    <2>3. ~ punchOverlap => Len(logs) <= 1
      BY DEF PunchInv, LonelyPunch
    <2>4. QED
      BY <1>1, <2>2, <2>3
  <1>4. ASSUME NEW i \in DOMAIN logs, NEW t \in 1 .. MaxClock, t <= WorkMinutes(logs[i])
        PROVE  t \in 1 .. clock
    <2>1. logs[i].out \in Nat /\ logs[i].in \in Nat
      BY <1>2, LogRows DEF PunchInv, Log
    <2>2. logs[i].out <= clock
      BY DEF PunchInv, NoneAfterNow
    <2>3. WorkMinutes(logs[i]) <= clock /\ WorkMinutes(logs[i]) \in Nat
      BY <1>2, <2>1, <2>2 DEF WorkMinutes
    <2>4. QED
      BY <1>2, <1>4, <2>3
  <1> DEFINE D == DOMAIN logs
             C == 1 .. clock
  <1>5. MinutesPaid \subseteq D \X C
    BY <1>4 DEF MinutesPaid
  <1>6. /\ IsFiniteSet(D) /\ Cardinality(D) = Len(logs)
        /\ IsFiniteSet(C) /\ Cardinality(C) = clock
    <2>1. IsFiniteSet(1 .. Len(logs)) /\ Cardinality(1 .. Len(logs)) = Len(logs)
      <3>1. \A n \in Nat : IsFiniteSet(1 .. n) /\ Cardinality(1 .. n) = n
        BY FS_Interval
      <3>2. QED
        BY <1>2, <3>1
    <2>2. IsFiniteSet(1 .. clock) /\ Cardinality(1 .. clock) = clock
      BY <1>2, FS_Interval
    <2>3. QED
      BY <1>2, <2>1, <2>2
  <1> HIDE DEF D, C
  <1>7. IsFiniteSet(D \X C) /\ Cardinality(D \X C) = Len(logs) * clock
    BY <1>6, FS_Product
  <1>8. /\ Cardinality(MinutesPaid) <= Len(logs) * clock
        /\ Cardinality(MinutesPaid) \in Nat
    <2>1. IsFiniteSet(MinutesPaid) /\ Cardinality(MinutesPaid) <= Cardinality(D \X C)
      BY <1>5, <1>7, FS_Subset
    <2>2. QED
      BY <1>7, <2>1, FS_CardinalityType
  <1>9. Len(logs) * clock <= clock * k /\ Len(logs) * clock \in Nat /\ clock * k \in Nat
    BY <1>2, <1>3, ProductGrows
  <1>10. Cardinality(MinutesPaid) <= clock * k
    <2>1. PICK x \in Nat, y \in Nat, z \in Nat :
            x = Cardinality(MinutesPaid) /\ y = Len(logs) * clock /\ z = clock * k
      BY <1>8, <1>9
    <2>2. x <= y /\ y <= z
      BY <1>8, <1>9, <2>1
    <2>3. QED
      BY <2>1, <2>2
  <1>11. QED
    BY <1>1, <1>10 DEF HoursFitTheDay

\* The time paid for is bounded by the clock, however check-ins and check-outs
\* interleave (attendance.service.ts:166).
THEOREM HoursFitTheDayHolds == AttendanceSpec => []HoursFitTheDay
  <1>1. AttendanceInit => PunchInv
    BY PunchInitInv
  <1>2. PunchInv /\ [AttendanceNext]_attendanceVars => PunchInv'
    BY PunchStepInv
  <1>3. PunchInv => HoursFitTheDay
    BY HoursBounded
  <1>4. QED
    BY <1>1, <1>2, <1>3, PTL DEF AttendanceSpec

-----------------------------------------------------------------------------
(* A PATCH                                                                 *)

Checks == {"string", "uuid", "integer", "number", "date", "enum"}

Field ==
  [check: Checks, required: BOOLEAN, nullable: BOOLEAN, guarded: BOOLEAN, notNull: BOOLEAN,
   least: {0, 1}]

\* No call lets a null through to a column that is NOT NULL.
FieldOK(f) == f \in Field /\ ~ (f.notNull /\ f.nullable)

PatchRecord ==
  [pc: {"find", "check", "update", "done"}, fields: Updates,
   body: UNION {Bodies(u) : u \in Updates}, answer: {0, 200, 400, 404, 409, 500}]

\* Nothing is written and nothing answered before the UPDATE, which is only reached
\* with a value to set and none refused.
PatchInv ==
  /\ patch \in PatchRecord
  /\ PatchTypeOK
  /\ patch.pc # "done" => columns = NoColumns(patch.fields) /\ patch.answer = 0
  /\ patch.pc = "update" =>
       /\ \A k \in DOMAIN Settled(patch) : Settled(patch)[k] # "throw"
       /\ HasUpdates(Settled(patch))
  /\ PatchAnswersTrue

LEMMA FieldMakers ==
  ASSUME NEW c \in Checks
  PROVE  /\ FieldOK(Needed(c)) /\ FieldOK(Optional(c)) /\ FieldOK(Clearable(c))
         /\ Needed(c).nullable = FALSE /\ Optional(c).nullable = FALSE
         /\ Clearable(c).notNull = FALSE /\ Needed(c).notNull = FALSE
  <1>1. FieldOK(Needed(c)) /\ Needed(c).nullable = FALSE /\ Needed(c).notNull = FALSE
    BY DEF FieldOK, Needed, Field
  <1>2. PICK n : n = Needed(c)
    OBVIOUS
  <1>3. Optional(c) = [n EXCEPT !.required = FALSE]
    BY <1>2 DEF Optional
  <1>4. /\ FieldOK(Optional(c)) /\ Optional(c).nullable = FALSE
        /\ Optional(c).notNull = FALSE
    BY <1>1, <1>2, <1>3 DEF FieldOK, Field
  <1>5. PICK o : o = Optional(c)
    OBVIOUS
  <1>6. Clearable(c) = [o EXCEPT !.nullable = TRUE]
    BY <1>5 DEF Clearable
  <1>7. FieldOK(Clearable(c)) /\ Clearable(c).notNull = FALSE
    BY <1>4, <1>5, <1>6 DEF FieldOK, Field
  <1>8. QED
    BY <1>1, <1>4, <1>7

LEMMA GivenField ==
  ASSUME NEW f, FieldOK(f)
  PROVE  /\ FieldOK(Given(f)) /\ Given(f).nullable = f.nullable
         /\ Given(f).notNull = f.notNull
  BY DEF FieldOK, Field, Given

LEMMA SolidField ==
  ASSUME NEW f, FieldOK(f), f.nullable = FALSE
  PROVE  FieldOK(Solid(f))
  BY DEF FieldOK, Field, Solid

\* Every field of every service.
LEMMA FieldsAreOK ==
  ASSUME NEW c \in Checks
  PROVE  /\ FieldOK(Needed(c)) /\ FieldOK(Optional(c)) /\ FieldOK(Clearable(c))
         /\ FieldOK(Given(Needed(c))) /\ FieldOK(Given(Optional(c)))
         /\ FieldOK(Given(Clearable(c)))
         /\ FieldOK(Solid(Needed(c))) /\ FieldOK(Solid(Optional(c)))
         /\ FieldOK(Solid(Given(Needed(c)))) /\ FieldOK(Solid(Given(Optional(c))))
         /\ FieldOK([Given(Needed(c)) EXCEPT !.nullable = TRUE])
  <1>1. PICK n, o, l : n = Needed(c) /\ o = Optional(c) /\ l = Clearable(c)
    OBVIOUS
  <1>2. /\ FieldOK(n) /\ FieldOK(o) /\ FieldOK(l)
        /\ n.nullable = FALSE /\ o.nullable = FALSE /\ n.notNull = FALSE
    BY <1>1, FieldMakers
  <1>3. PICK gn, go : gn = Given(n) /\ go = Given(o)
    OBVIOUS
  <1>4. /\ FieldOK(gn) /\ FieldOK(go) /\ FieldOK(Given(l))
        /\ gn.nullable = FALSE /\ go.nullable = FALSE /\ gn.notNull = FALSE
    BY <1>2, <1>3, GivenField
  <1>5. FieldOK(Solid(n)) /\ FieldOK(Solid(o)) /\ FieldOK(Solid(gn)) /\ FieldOK(Solid(go))
    BY <1>2, <1>4, SolidField
  <1>6. FieldOK([gn EXCEPT !.nullable = TRUE])
    BY <1>4 DEF FieldOK, Field
  <1>7. QED
    BY <1>1, <1>2, <1>3, <1>4, <1>5, <1>6

FieldsOK(u) == \A k \in DOMAIN u : FieldOK(u[k])

LEMMA UpdatesAreOK == \A u \in Updates : FieldsOK(u)
  <1>1. {"string", "uuid", "integer", "number", "date", "enum"} = Checks
    BY DEF Checks
  <1>2. /\ FieldOK(Clearable("date"))
        /\ FieldOK(Given(Clearable("date")))
    <2>1. "date" \in Checks
      BY DEF Checks
    <2>2. QED
      BY <2>1, FieldsAreOK
  <1>3. FieldOK([Clearable("integer") EXCEPT !.least = 1])
    <2>1. "integer" \in Checks
      BY DEF Checks
    <2>2. FieldOK(Clearable("integer"))
      BY <2>1, FieldsAreOK
    <2>3. PICK f : f = Clearable("integer")
      OBVIOUS
    <2>4. FieldOK([f EXCEPT !.least = 1])
      BY <2>2, <2>3 DEF FieldOK, Field
    <2>5. QED
      BY <2>3, <2>4
  <1>4. /\ FieldOK(Clearable("string"))
        /\ FieldOK(Solid(Given(Needed("string"))))
        /\ FieldOK(Solid(Needed("string")))
        /\ FieldOK(Solid(Optional("string")))
    <2>1. "string" \in Checks
      BY DEF Checks
    <2>2. QED
      BY <2>1, FieldsAreOK
  <1>5. /\ FieldOK(Clearable("uuid"))
        /\ FieldOK(Given(Clearable("uuid")))
        /\ FieldOK(Given(Needed("uuid")))
        /\ FieldOK(Optional("uuid"))
        /\ FieldOK([Given(Needed("uuid")) EXCEPT !.nullable = TRUE])
    <2>1. "uuid" \in Checks
      BY DEF Checks
    <2>2. QED
      BY <2>1, FieldsAreOK
  <1>6. /\ FieldOK(Given(Optional("enum")))
        /\ FieldOK(Solid(Given(Optional("enum"))))
    <2>1. "enum" \in Checks
      BY DEF Checks
    <2>2. QED
      BY <2>1, FieldsAreOK
  <1>7. FieldOK(Needed("number"))
    <2>1. "number" \in Checks
      BY DEF Checks
    <2>2. QED
      BY <2>1, FieldsAreOK
  <1>8. FieldsOK(academicSessionUpdate)
    BY <1>2, <1>4 DEF academicSessionUpdate, FieldsOK
  <1>9. FieldsOK(classUpdate)
    BY <1>4 DEF classUpdate, FieldsOK
  <1>10. FieldsOK(examUpdate)
    BY <1>2, <1>4, <1>5, <1>6 DEF examUpdate, FieldsOK
  <1>11. FieldsOK(examResultUpdate)
    BY <1>7 DEF examResultUpdate, FieldsOK
  <1>12. FieldsOK(permissionUpdate)
    BY <1>4 DEF permissionUpdate, FieldsOK
  <1>13. FieldsOK(roleUpdate)
    BY <1>4 DEF roleUpdate, FieldsOK
  <1>14. FieldsOK(sectionUpdate)
    BY <1>3, <1>4 DEF sectionUpdate, FieldsOK
  <1>15. FieldsOK(studentEnrollmentUpdate)
    BY <1>5 DEF studentEnrollmentUpdate, FieldsOK
  <1>16. FieldsOK(studentUpdate)
    BY <1>2, <1>4 DEF studentUpdate, FieldsOK
  <1>17. FieldsOK(subjectAssignmentUpdate)
    <2>1. PICK g : g = Given(Needed("uuid"))
      OBVIOUS
    <2>2. PICK n : n = [g EXCEPT !.nullable = TRUE]
      OBVIOUS
    <2>3. FieldOK(g) /\ FieldOK(n)
      BY <1>5, <2>1, <2>2
    <2>4. subjectAssignmentUpdate =
            [teacher_id |-> g, class_id |-> g, subject_id |-> g, academic_session_id |-> g,
             section_id |-> n, assigned_by |-> n]
      BY <2>1, <2>2 DEF subjectAssignmentUpdate
    <2>5. QED
      BY <2>3, <2>4 DEF FieldsOK
  <1>18. FieldsOK(subjectUpdate)
    BY <1>4 DEF subjectUpdate, FieldsOK
  <1>19. FieldsOK(teacherUpdate)
    BY <1>2, <1>4 DEF teacherUpdate, FieldsOK
  <1>20. FieldsOK(userUpdate)
    BY <1>4, <1>5, <1>6 DEF userUpdate, FieldsOK
  <1>21. QED
    BY <1>8, <1>9, <1>10, <1>11, <1>12, <1>13, <1>14, <1>15, <1>16, <1>17, <1>18, <1>19, <1>20 DEF Updates

\* What the checks of validators.ts make of a value.
Outcomes == {"absent", "null", "throw", "good", "unfit", "coerced"}

\* What an outcome says of the value it comes from.
Tells(x, v, f) ==
  /\ x \in Outcomes
  /\ x = "null" => v = "null" /\ f.notNull = FALSE
  /\ x = "good" => v = "good"
  /\ x = "unfit" => v = "unfit"
  /\ x = "coerced" => v \in Coercible /\ f.check \in {"integer", "number"}

LEMMA CheckedValue ==
  ASSUME NEW v \in Values, NEW f, FieldOK(f)
  PROVE  Tells(Checked(v, f), v, f)
  <1> DEFINE H == HandleMissing(v, f)
  <1>1. /\ f.nullable \in BOOLEAN /\ f.required \in BOOLEAN /\ f.notNull \in BOOLEAN
        /\ ~ (f.notNull /\ f.nullable) /\ f.check \in Checks
    BY DEF FieldOK, Field
  <1>2. /\ H \in {"absent", "null", "throw"}
        /\ H = "null" => v = "null" /\ f.notNull = FALSE
    BY <1>1 DEF HandleMissing
  <1> HIDE DEF H
  <1>3. Tells(AssertString(v, f), v, f)
    BY <1>2 DEF AssertString, H, Tells, Outcomes
  <1>4. Tells(AssertUuid(v, f), v, f)
    BY <1>2 DEF AssertUuid, H, Tells, Outcomes
  <1>5. Tells(AssertDate(v, f), v, f)
    BY <1>2 DEF AssertDate, H, Tells, Outcomes
  <1>6. Tells(AssertEnum(v, f), v, f)
    BY <1>2 DEF AssertEnum, H, Tells, Outcomes
  <1>7. ASSUME f.check \in {"integer", "number"}
        PROVE  Tells(AssertNumber(v, f), v, f) /\ Tells(AssertInteger(v, f), v, f)
    <2>1. Tells(AssertNumber(v, f), v, f)
      BY <1>2, <1>7 DEF AssertNumber, H, Tells, Outcomes
    <2>2. QED
      BY <2>1 DEF AssertInteger, Tells, Outcomes
  <1>8. \/ Checked(v, f) \in {AssertString(v, f), AssertUuid(v, f), AssertDate(v, f),
                             AssertEnum(v, f)}
        \/ /\ f.check \in {"integer", "number"}
           /\ Checked(v, f) \in {AssertInteger(v, f), AssertNumber(v, f)}
    BY DEF Checked
  <1>9. QED
    BY <1>3, <1>4, <1>5, <1>6, <1>7, <1>8

\* What the checks leave of a body.
LEMMA SettledValues ==
  ASSUME patch \in PatchRecord, PatchTypeOK
  PROVE  /\ DOMAIN Settled(patch) = DOMAIN patch.fields
         /\ \A k \in DOMAIN patch.fields :
              Tells(Settled(patch)[k], patch.body[k], patch.fields[k])
  <1>1. DOMAIN Settled(patch) = DOMAIN patch.fields
    BY DEF Settled
  <1>2. ASSUME NEW k \in DOMAIN patch.fields
        PROVE  Tells(Settled(patch)[k], patch.body[k], patch.fields[k])
    <2>1. PICK v \in Values : v = patch.body[k]
      BY DEF PatchTypeOK, Bodies
    <2>2. PICK f : f = patch.fields[k]
      OBVIOUS
    <2>3. FieldOK(f)
      BY <2>2, UpdatesAreOK DEF PatchTypeOK, FieldsOK
    <2>4. Settled(patch)[k] = IF f.guarded /\ v = "absent" THEN "absent" ELSE Checked(v, f)
      BY <2>1, <2>2 DEF Settled
    <2>5. Settled(patch)[k] = "absent" \/ Settled(patch)[k] = Checked(v, f)
      BY <2>4
    <2>6. Tells("absent", v, f)
      BY DEF Tells, Outcomes
    <2>7. QED
      BY <2>1, <2>2, <2>3, <2>5, <2>6, CheckedValue
  <1>3. QED
    BY <1>1, <1>2

LEMMA PatchInitInv == PatchInit => PatchInv
  <1> SUFFICES ASSUME PatchInit PROVE PatchInv
    OBVIOUS
  <1>1. PICK u \in Updates : \E b \in Bodies(u) :
          /\ patch = [pc |-> "find", fields |-> u, body |-> b, answer |-> 0]
          /\ columns = NoColumns(u)
    BY DEF PatchInit
  <1>2. PICK b \in Bodies(u) :
          /\ patch = [pc |-> "find", fields |-> u, body |-> b, answer |-> 0]
          /\ columns = NoColumns(u)
    BY <1>1
  <1>3. patch \in PatchRecord
    <2>1. b \in UNION {Bodies(x) : x \in Updates}
      OBVIOUS
    <2>2. QED
      BY <1>2, <2>1 DEF PatchRecord
  <1>4. patch.pc = "find" /\ patch.fields = u /\ patch.body = b /\ patch.answer = 0
    BY <1>2
  <1>5. /\ columns \in [DOMAIN u -> {"kept", "set", "coerced", "null"}]
        /\ DOMAIN columns = DOMAIN u /\ \A k \in DOMAIN u : columns[k] = "kept"
    BY <1>2 DEF NoColumns
  <1>6. PatchTypeOK
    BY <1>4, <1>5 DEF PatchInit, PatchTypeOK
  <1>7. PatchAnswersTrue
    BY <1>4, <1>5 DEF PatchAnswersTrue
  <1>8. QED
    BY <1>2, <1>3, <1>4, <1>6, <1>7 DEF PatchInv

LEMMA PatchMoves ==
  ASSUME patch \in PatchRecord, NEW p \in {"find", "check", "update", "done"},
         patch' = [patch EXCEPT !.pc = p]
  PROVE  /\ patch' \in PatchRecord /\ patch'.pc = p /\ patch'.fields = patch.fields
         /\ patch'.body = patch.body /\ patch'.answer = patch.answer
         /\ Settled(patch') = Settled(patch)
  <1>1. /\ patch' \in PatchRecord /\ patch'.pc = p /\ patch'.fields = patch.fields
        /\ patch'.body = patch.body /\ patch'.answer = patch.answer
    BY DEF PatchRecord
  <1>2. QED
    BY <1>1 DEF Settled

LEMMA PatchEnds ==
  ASSUME patch \in PatchRecord, NEW s \in {200, 400, 404, 409, 500}, AnswerPatch(s)
  PROVE  /\ patch' \in PatchRecord /\ patch'.pc = "done" /\ patch'.fields = patch.fields
         /\ patch'.body = patch.body /\ patch'.answer = s
  <1> DEFINE a == [patch EXCEPT !.pc = "done"]
             b == [a EXCEPT !.answer = s]
  <1>1. a \in PatchRecord /\ a.pc = "done" /\ a.fields = patch.fields /\ a.body = patch.body
    BY DEF PatchRecord
  <1>2. b = [patch EXCEPT !.pc = "done", !.answer = s]
    OBVIOUS
  <1>3. patch' = b
    BY <1>2 DEF AnswerPatch
  <1> HIDE DEF a
  <1>4. QED
    BY <1>1, <1>3 DEF PatchRecord

\* An answer before the UPDATE leaves every column as it was.
LEMMA PatchRefused ==
  ASSUME PatchInv, NEW s \in {400, 404, 409}, AnswerPatch(s), patch.pc # "done",
         UNCHANGED <<patchRow, columns>>, s = 404 => ~ patchRow
  PROVE  PatchInv'
  <1>1. /\ patch' \in PatchRecord /\ patch'.pc = "done" /\ patch'.fields = patch.fields
        /\ patch'.body = patch.body /\ patch'.answer = s
    BY PatchEnds DEF PatchInv
  <1>2. columns = NoColumns(patch.fields)
    BY DEF PatchInv
  <1>3. PatchTypeOK'
    BY <1>1 DEF PatchInv, PatchTypeOK
  <1>4. \A k \in DOMAIN columns : columns[k] = "kept"
    BY <1>2 DEF NoColumns
  <1>5. PatchAnswersTrue'
    BY <1>1, <1>4 DEF PatchAnswersTrue
  <1>6. QED
    BY <1>1, <1>3, <1>5 DEF PatchInv

LEMMA FindPatchedStep == PatchInv /\ FindPatched => PatchInv'
  <1> SUFFICES ASSUME PatchInv, FindPatched PROVE PatchInv'
    OBVIOUS
  <1>1. CASE patchRow
    <2>1. /\ patch' = [patch EXCEPT !.pc = "check"] /\ patch.pc = "find"
          /\ UNCHANGED <<patchRow, columns>>
      BY <1>1 DEF FindPatched
    <2>2. /\ patch' \in PatchRecord /\ patch'.pc = "check" /\ patch'.fields = patch.fields
          /\ patch'.body = patch.body /\ patch'.answer = patch.answer
      BY <2>1, PatchMoves DEF PatchInv
    <2>3. PatchTypeOK'
      BY <2>1, <2>2 DEF PatchInv, PatchTypeOK
    <2>4. PatchAnswersTrue'
      BY <2>1, <2>2 DEF PatchInv, PatchAnswersTrue
    <2>5. QED
      BY <2>1, <2>2, <2>3, <2>4 DEF PatchInv
  <1>2. CASE ~ patchRow
    <2>1. AnswerPatch(404) /\ patch.pc # "done" /\ UNCHANGED <<patchRow, columns>>
      BY <1>2 DEF FindPatched
    <2>2. QED
      BY <1>2, <2>1, PatchRefused
  <1>3. QED
    BY <1>1, <1>2

LEMMA CheckPatchStep == PatchInv /\ CheckPatch => PatchInv'
  <1> SUFFICES ASSUME PatchInv, CheckPatch PROVE PatchInv'
    OBVIOUS
  <1>1. patch.pc = "check" /\ UNCHANGED <<patchRow, columns>>
    BY DEF CheckPatch
  <1>2. CASE /\ \A k \in DOMAIN Settled(patch) : Settled(patch)[k] # "throw"
             /\ HasUpdates(Settled(patch))
             /\ patch' = [patch EXCEPT !.pc = "update"]
    <2>1. /\ patch' \in PatchRecord /\ patch'.pc = "update" /\ patch'.fields = patch.fields
          /\ patch'.body = patch.body /\ patch'.answer = patch.answer
          /\ Settled(patch') = Settled(patch)
      BY <1>2, PatchMoves DEF PatchInv
    <2>2. PatchTypeOK'
      BY <1>1, <2>1 DEF PatchInv, PatchTypeOK
    <2>3. \A k \in DOMAIN columns : Settled(patch)[k] = "null" => ~ patch.fields[k].notNull
      <3>1. DOMAIN columns = DOMAIN patch.fields
        BY DEF PatchInv, PatchTypeOK
      <3>2. QED
        BY <3>1, SettledValues DEF PatchInv, Tells
    <2>4. PatchAnswersTrue'
      BY <1>1, <2>1, <2>3 DEF PatchInv, PatchAnswersTrue
    <2>5. /\ \A k \in DOMAIN Settled(patch') : Settled(patch')[k] # "throw"
          /\ HasUpdates(Settled(patch'))
      BY <1>2, <2>1
    <2>6. columns' = NoColumns(patch'.fields) /\ patch'.answer = 0
      BY <1>1, <2>1 DEF PatchInv
    <2>7. QED
      BY <2>1, <2>2, <2>4, <2>5, <2>6 DEF PatchInv
  <1>3. CASE AnswerPatch(400)
    BY <1>1, <1>3, PatchRefused
  <1>4. CASE AnswerPatch(409)
    BY <1>1, <1>4, PatchRefused
  <1>5. QED
    BY <1>2, <1>3, <1>4 DEF CheckPatch

LEMMA UpdatePatchedStep == PatchInv /\ UpdatePatched => PatchInv'
  <1> SUFFICES ASSUME PatchInv, UpdatePatched PROVE PatchInv'
    OBVIOUS
  <1>1. PICK c : c = Settled(patch)
    OBVIOUS
  <1>2. patch.pc = "update" /\ patchRow' = patchRow
    BY DEF UpdatePatched
  <1>3. /\ DOMAIN c = DOMAIN patch.fields /\ DOMAIN columns = DOMAIN c
        /\ \A k \in DOMAIN c :
             c[k] # "throw" /\ Tells(c[k], patch.body[k], patch.fields[k])
        /\ HasUpdates(c)
        /\ columns = NoColumns(patch.fields)
    BY <1>1, <1>2, SettledValues DEF PatchInv, PatchTypeOK
  <1>4. CASE AnswerPatch(404) /\ ~ patchRow /\ columns' = columns
    BY <1>2, <1>4, PatchRefused
  <1>5. CASE (AnswerPatch(400) \/ AnswerPatch(409)) /\ columns' = columns
    BY <1>2, <1>5, PatchRefused
  <1>6. CASE (\E k \in DOMAIN c : c[k] = "unfit") /\ AnswerPatch(500) /\ columns' = columns
    <2>1. /\ patch' \in PatchRecord /\ patch'.pc = "done" /\ patch'.fields = patch.fields
          /\ patch'.body = patch.body /\ patch'.answer = 500
      BY <1>6, PatchEnds DEF PatchInv
    <2>2. \E k \in DOMAIN columns : patch.body[k] = "unfit"
      BY <1>3, <1>6 DEF Tells
    <2>3. PatchTypeOK'
      BY <1>2, <1>6, <2>1 DEF PatchInv, PatchTypeOK
    <2>4. \A k \in DOMAIN columns : columns[k] = "kept"
      BY <1>3 DEF NoColumns
    <2>5. PatchAnswersTrue'
      BY <1>2, <1>6, <2>1, <2>2, <2>4 DEF PatchAnswersTrue
    <2>6. QED
      BY <2>1, <2>3, <2>5 DEF PatchInv
  <1>7. CASE /\ ~ \E k \in DOMAIN c : c[k] = "unfit"
             /\ columns' = [k \in DOMAIN c |->
                  CASE c[k] = "absent" -> columns[k]
                    [] c[k] \in {"null", "coerced"} -> c[k]
                    [] OTHER -> "set"]
             /\ AnswerPatch(200)
    <2>1. /\ patch' \in PatchRecord /\ patch'.pc = "done" /\ patch'.fields = patch.fields
          /\ patch'.body = patch.body /\ patch'.answer = 200
      BY <1>7, PatchEnds DEF PatchInv
    <2>2. \A k \in DOMAIN c : columns[k] = "kept"
      BY <1>3 DEF NoColumns
    <2>3. ASSUME NEW k \in DOMAIN c
          PROVE  /\ c[k] = "absent" => columns'[k] = "kept"
                 /\ c[k] # "absent" => columns'[k] \in {"null", "coerced", "set"}
                 /\ columns'[k] = "set" => patch.body[k] = "good"
                 /\ columns'[k] = "coerced" => c[k] = "coerced"
                 /\ columns'[k] = "null" => c[k] = "null"
      <3>1. c[k] \in {"absent", "null", "coerced", "good"}
        BY <1>3, <1>7 DEF Tells, Outcomes
      <3>2. columns'[k] = CASE c[k] = "absent" -> columns[k]
                            [] c[k] \in {"null", "coerced"} -> c[k]
                            [] OTHER -> "set"
        BY <1>7
      <3>3. c[k] = "good" => patch.body[k] = "good"
        BY <1>3 DEF Tells
      <3>4. columns[k] = "kept"
        BY <2>2
      <3>5. QED
        BY <3>1, <3>2, <3>3, <3>4
    <2>4. columns' \in [DOMAIN c -> {"kept", "set", "coerced", "null"}]
      <3>1. DOMAIN columns' = DOMAIN c
        BY <1>7
      <3>2. \E g : columns' = [k \in DOMAIN c |-> g[k]]
        BY <1>7
      <3>3. QED
        BY <2>3, <3>2
    <2>5. PatchTypeOK'
      BY <1>2, <1>3, <2>1, <2>4 DEF PatchInv, PatchTypeOK
    <2>6. PatchAnswersTrue'
      <3>1. \E k \in DOMAIN columns' : columns'[k] # "kept"
        BY <1>3, <2>3, <2>4 DEF HasUpdates
      <3>2. \A k \in DOMAIN columns' :
              /\ columns'[k] = "set" => patch.body[k] = "good"
              /\ columns'[k] = "coerced" =>
                   /\ patch.body[k] \in Coercible
                   /\ patch.fields[k].check \in {"integer", "number"}
              /\ columns'[k] = "null" => patch.body[k] = "null"
        BY <1>3, <2>3, <2>4 DEF Tells
      <3>3. QED
        BY <2>1, <3>1, <3>2 DEF PatchAnswersTrue
    <2>7. QED
      BY <2>1, <2>5, <2>6 DEF PatchInv
  <1>8. QED
    BY <1>1, <1>3, <1>4, <1>5, <1>6, <1>7 DEF UpdatePatched

LEMMA PatchStepInv == PatchInv /\ [PatchNext]_patchVars => PatchInv'
  <1> SUFFICES ASSUME PatchInv, [PatchNext]_patchVars PROVE PatchInv'
    OBVIOUS
  <1>1. CASE FindPatched
    BY <1>1, FindPatchedStep
  <1>2. CASE CheckPatch
    BY <1>2, CheckPatchStep
  <1>3. CASE UpdatePatched
    BY <1>3, UpdatePatchedStep
  <1>4. CASE DeletePatched
    <2>1. patch' = patch /\ columns' = columns /\ patchRow' = FALSE
      BY <1>4 DEF DeletePatched
    <2>2a. PatchTypeOK'
      BY <2>1 DEF PatchInv, PatchTypeOK
    <2>2b. PatchAnswersTrue'
      BY <2>1 DEF PatchInv, PatchAnswersTrue
    <2>2. PatchTypeOK' /\ PatchAnswersTrue'
      BY <2>2a, <2>2b
    <2>3. Settled(patch') = Settled(patch)
      BY <2>1
    <2>4. QED
      BY <2>1, <2>2, <2>3 DEF PatchInv
  <1>5. CASE UNCHANGED patchVars
    <2>1. patch' = patch /\ columns' = columns /\ patchRow' = patchRow
      BY <1>5 DEF patchVars
    <2>2. PatchTypeOK' /\ PatchAnswersTrue'
      BY <2>1 DEF PatchInv, PatchTypeOK, PatchAnswersTrue
    <2>3. Settled(patch') = Settled(patch)
      BY <2>1
    <2>4. QED
      BY <2>1, <2>2, <2>3 DEF PatchInv
  <1>6. QED
    BY <1>1, <1>2, <1>3, <1>4, <1>5 DEF PatchNext

\* Type correctness of the body, its answer and the row: every column of the body is
\* kept, set, set to what Number() made of the value, or null, and no answer is one the handler does not give (validators.ts:17).
THEOREM PatchTypeCorrect == PatchSpec => []PatchTypeOK
  <1>1. PatchInv => PatchTypeOK
    BY DEF PatchInv
  <1>2. QED
    BY <1>1, PatchInitInv, PatchStepInv, PTL DEF PatchSpec

\* For every service and any number of fields in the body: no 404 for a row that is
\* there, no 500 but for a value its column refuses, no null on its way to a NOT NULL
\* column, nothing touched that the body leaves out, and nothing but a number made
\* out of something else (validators.ts:17, validators.ts:203, validators.ts:354).
THEOREM PatchAnswersTrueHolds == PatchSpec => []PatchAnswersTrue
  <1>1. PatchInv => PatchAnswersTrue
    BY DEF PatchInv
  <1>2. QED
    BY <1>1, PatchInitInv, PatchStepInv, PTL DEF PatchSpec

-----------------------------------------------------------------------------
(* Lists                                                                   *)

\* The rows before the page p, and those before the row i.
Before(p, limit) == GetOffset(p, limit)
Above(i) == {k \in Kept : listed[k].key > listed[i].key}

WalkRecord ==
  [pc: {"page", "done", "failed"}, page: Nat, limit: 1..100, got: SUBSET Rows, listed: BOOLEAN,
   total: -1..MaxListed, seen: [Rows -> Nat]]

\* Pages are counted, and no row is on one page twice.
WalkTyped ==
  /\ listed \in [Rows -> [key: Rows, kept: BOOLEAN]]
  /\ unique \in BOOLEAN /\ ordered \in BOOLEAN /\ touched \in BOOLEAN
  /\ walk \in WalkRecord
  /\ walk.page >= 1 /\ (walk.page = 1 \/ walk.page <= MaxListed)
  /\ \A i \in Rows : walk.seen[i] <= IF walk.pc = "page" THEN walk.page - 1 ELSE walk.page

KeysApart == unique => \A i, j \in Rows : i # j => listed[i].key # listed[j].key

\* The size of a page of n rows after the first `from`.
PageSize(n, from, limit) == IF from + limit <= n THEN limit ELSE n - from

\* All pages before this one were full, and this one is the next.
PagesFull ==
  walk.pc = "page" /\ ~ touched =>
    LET from == Before(walk.page, walk.limit) IN
    /\ from <= Cardinality(Kept)
    /\ SeenSum = from
    /\ walk.total \in {-1, Cardinality(Kept)}
    /\ walk.listed => Cardinality(walk.got) = PageSize(Cardinality(Kept), from, walk.limit)
    /\ ~ walk.listed => walk.got = {}

\* With a unique column the rows so far are the first ones.
PagesInOrder ==
  walk.pc = "page" /\ ~ touched /\ unique =>
    LET from == Before(walk.page, walk.limit) IN
    /\ \A i \in Rows :
         walk.seen[i] = IF i \in Kept /\ Cardinality(Above(i)) < from THEN 1 ELSE 0
    /\ walk.listed =>
         walk.got = {i \in Kept : /\ from <= Cardinality(Above(i))
                                  /\ Cardinality(Above(i)) < from + walk.limit}

ListInv == WalkTyped /\ KeysApart /\ PagesFull /\ PagesInOrder /\ WalkComplete

LEMMA SameSize ==
  ASSUME NEW S, NEW T, IsFiniteSet(S), NEW f \in [S -> T],
         \A a, b \in S : f[a] = f[b] => a = b,
         \A t \in T : \E s \in S : f[s] = t
  PROVE  IsFiniteSet(T) /\ Cardinality(T) = Cardinality(S)
  <1>1. f \in Surjection(S, T)
    BY DEF Surjection
  <1>2. f \in Injection(S, T)
    BY DEF Injection, IsInjective
  <1>3. QED
    BY <1>1, <1>2, FS_Surjection

LEMMA KeptFinite ==
  /\ IsFiniteSet(Rows) /\ Kept \subseteq Rows /\ IsFiniteSet(Kept)
  /\ Cardinality(Kept) \in Nat /\ Cardinality(Kept) <= MaxListed /\ MaxListed \in Nat
  /\ Cardinality(Rows) = MaxListed
  <1>1. IsFiniteSet(Rows) /\ Cardinality(Rows) = MaxListed /\ MaxListed \in Nat
    BY ListingAssumption, FS_Interval DEF Rows
  <1>2. Kept \subseteq Rows
    BY DEF Kept
  <1>3. IsFiniteSet(Kept) /\ Cardinality(Kept) <= Cardinality(Rows) /\ Cardinality(Kept) \in Nat
    BY <1>1, <1>2, FS_Subset, FS_CardinalityType
  <1>4. QED
    BY <1>1, <1>2, <1>3

LEMMA Interval ==
  ASSUME NEW a \in Nat, NEW b \in Nat, a <= b
  PROVE  IsFiniteSet(a + 1 .. b) /\ Cardinality(a + 1 .. b) = b - a
  <1>1. a + 1 \in Int /\ b \in Int
    OBVIOUS
  <1>2. /\ IsFiniteSet(a + 1 .. b)
        /\ Cardinality(a + 1 .. b) = IF a + 1 > b THEN 0 ELSE b - (a + 1) + 1
    BY <1>1, FS_Interval
  <1>3. QED
    BY <1>2

\* An order names every row once.
LEMMA OrderIsAll ==
  ASSUME NEW o \in Orders
  PROVE  /\ o \in [1 .. Cardinality(Kept) -> Kept] /\ DOMAIN o = 1 .. Cardinality(Kept)
         /\ \A i, j \in 1 .. Cardinality(Kept) : o[i] = o[j] => i = j
         /\ \A k \in Kept : \E i \in 1 .. Cardinality(Kept) : o[i] = k
  <1> DEFINE n == Cardinality(Kept)
             D == 1 .. n
  <1>1. /\ o \in [D -> Kept] /\ DOMAIN o = D
        /\ \A i, j \in D : o[i] = o[j] => i = j
    BY DEF Orders
  <1>2. IsFiniteSet(D) /\ Cardinality(D) = n
    <2>1. n \in Nat
      BY KeptFinite
    <2> HIDE DEF n
    <2>2. QED
      BY <2>1, FS_Interval
  <1> HIDE DEF D
  <1>3. o \in Injection(D, Kept)
    BY <1>1 DEF Injection, IsInjective
  <1>4. o \in Surjection(D, Kept)
    BY <1>2, <1>3, KeptFinite, FS_Injection
  <1>5. \A k \in Kept : \E i \in D : o[i] = k
    BY <1>4 DEF Surjection
  <1>6. QED
    BY <1>1, <1>5 DEF D

\* A page is as long as it can be.
LEMMA PageLength ==
  ASSUME NEW o \in Orders, NEW from \in Nat, NEW limit \in Nat, from <= Cardinality(Kept)
  PROVE  LET got == {o[i] : i \in {j \in DOMAIN o : from < j /\ j <= from + limit}}
         IN  /\ got \subseteq Kept
             /\ Cardinality(got) = PageSize(Cardinality(Kept), from, limit)
  <1> DEFINE J == {j \in DOMAIN o : from < j /\ j <= from + limit}
             got == {o[i] : i \in J}
  <1>1. PICK n \in Nat : n = Cardinality(Kept)
    BY KeptFinite
  <1>2. /\ o \in [1 .. n -> Kept] /\ DOMAIN o = 1 .. n
        /\ \A i, j \in 1 .. n : o[i] = o[j] => i = j
    BY <1>1, OrderIsAll
  <1>3. PICK m \in Nat : m = IF from + limit <= n THEN from + limit ELSE n
    OBVIOUS
  <1>4. J = from + 1 .. m /\ from <= m
    BY <1>1, <1>2, <1>3
  <1>5. IsFiniteSet(J) /\ Cardinality(J) = m - from
    BY <1>4, Interval
  <1>6. J \subseteq 1 .. n
    BY <1>2
  <1> DEFINE f == [j \in J |-> o[j]]
  <1> HIDE DEF J
  <1>7. /\ f \in [J -> got] /\ \A a, b \in J : f[a] = f[b] => a = b
        /\ \A t \in got : \E s \in J : f[s] = t
    BY <1>2, <1>6
  <1> HIDE DEF f
  <1>8. got \subseteq Kept
    BY <1>2, <1>6
  <1> HIDE DEF got
  <1>9. Cardinality(got) = m - from
    BY <1>5, <1>7, SameSize
  <1>10. m - from = PageSize(Cardinality(Kept), from, limit)
    BY <1>1, <1>3 DEF PageSize
  <1>11. QED
    BY <1>8, <1>9, <1>10 DEF got, J

\* With a unique column the place of a row is the number of rows above it.
LEMMA PlaceInOrder ==
  ASSUME WalkTyped, KeysApart, unique, NEW o \in Orders, NEW j \in DOMAIN o
  PROVE  Cardinality(Above(o[j])) = j - 1
  <1> DEFINE I == 1 .. j - 1
             f == [i \in I |-> o[i]]
  <1>1. PICK n \in Nat : n = Cardinality(Kept)
    BY KeptFinite
  <1>2. /\ o \in [1 .. n -> Kept] /\ DOMAIN o = 1 .. n
        /\ \A a, b \in 1 .. n : o[a] = o[b] => a = b
        /\ \A k \in Kept : \E i \in 1 .. n : o[i] = k
    BY <1>1, OrderIsAll
  <1>3. j \in 1 .. n /\ I \subseteq 1 .. n
    BY <1>2
  <1>4. \A a, b \in 1 .. n : a < b => listed[o[a]].key >= listed[o[b]].key
    BY <1>2 DEF Orders
  <1>5. \A k \in Kept : listed[k].key \in Int /\ k \in Rows
    <2>1. \A k \in Rows : listed[k].key \in Int
      BY DEF WalkTyped, Rows
    <2>2. QED
      BY <2>1, KeptFinite
  <1>6. \A a, b \in 1 .. n : a < b => listed[o[a]].key > listed[o[b]].key
    <2> SUFFICES ASSUME NEW a \in 1 .. n, NEW b \in 1 .. n, a < b
                 PROVE  listed[o[a]].key > listed[o[b]].key
      OBVIOUS
    <2>1. o[a] # o[b] /\ o[a] \in Kept /\ o[b] \in Kept
      BY <1>2
    <2>2. listed[o[a]].key # listed[o[b]].key
      BY <1>5, <2>1 DEF KeysApart
    <2>3. listed[o[a]].key >= listed[o[b]].key
      BY <1>4
    <2>4. QED
      BY <1>5, <2>1, <2>2, <2>3
  <1>7. \A i \in 1 .. n : o[i] \in Above(o[j]) <=> i \in I
    <2> SUFFICES ASSUME NEW i \in 1 .. n
                 PROVE  o[i] \in Above(o[j]) <=> i \in I
      OBVIOUS
    <2>1. o[i] \in Kept /\ o[j] \in Kept
      BY <1>2, <1>3
    <2>2. o[i] \in Above(o[j]) <=> listed[o[i]].key > listed[o[j]].key
      BY <2>1 DEF Above
    <2>3. CASE i < j
      BY <1>3, <1>6, <2>2, <2>3
    <2>4. CASE i = j
      BY <1>3, <1>5, <2>1, <2>2, <2>4
    <2>5. CASE i > j
      <3>1. listed[o[j]].key > listed[o[i]].key
        BY <1>3, <1>6, <2>5
      <3>2. QED
        BY <1>3, <1>5, <2>1, <2>2, <2>5, <3>1
    <2>6. QED
      BY <1>3, <2>3, <2>4, <2>5
  <1>8. IsFiniteSet(I) /\ Cardinality(I) = j - 1
    BY <1>3, FS_Interval
  <1>9. /\ f \in [I -> Above(o[j])]
        /\ \A a, b \in I : f[a] = f[b] => a = b
        /\ \A t \in Above(o[j]) : \E s \in I : f[s] = t
    <2>1. Above(o[j]) \subseteq Kept
      BY DEF Above
    <2> HIDE DEF I
    <2>2. QED
      BY <1>2, <1>3, <1>7, <2>1
  <1> HIDE DEF I, f
  <1>10. QED
    BY <1>8, <1>9, SameSize

SeenIn(s) == {x \in Rows \X (1..(MaxListed + 1)) : x[2] <= s[x[1]]}

\* What a page adds to the rows seen.
LEMMA SeenGrows ==
  ASSUME NEW s \in [Rows -> Nat], NEW g \in [Rows -> Nat], NEW got \in SUBSET Rows,
         \A i \in Rows : s[i] <= MaxListed,
         \A i \in Rows : g[i] = s[i] + IF i \in got THEN 1 ELSE 0
  PROVE  Cardinality(SeenIn(g)) = Cardinality(SeenIn(s)) + Cardinality(got)
  <1> DEFINE P == Rows \X (1..(MaxListed + 1))
             A == SeenIn(s)
             f == [i \in got |-> <<i, s[i] + 1>>]
             B == {<<i, s[i] + 1>> : i \in got}
  <1>1. IsFiniteSet(P) /\ IsFiniteSet(got)
    <2>1. IsFiniteSet(1..(MaxListed + 1))
      BY KeptFinite, FS_Interval
    <2>2. IsFiniteSet(Rows)
      BY KeptFinite
    <2>3. QED
      BY <2>1, <2>2, FS_Product, FS_Subset
  <1>2. A \subseteq P /\ IsFiniteSet(A)
    <2>1. A \subseteq P
      BY DEF SeenIn
    <2>2. QED
      BY <1>1, <2>1, FS_Subset
  <1>3. IsFiniteSet(B) /\ Cardinality(B) = Cardinality(got)
    <2>1. /\ f \in [got -> B] /\ \A a, b \in got : f[a] = f[b] => a = b
          /\ \A t \in B : \E i \in got : f[i] = t
      OBVIOUS
    <2> HIDE DEF f, B
    <2>2. QED
      BY <1>1, <2>1, SameSize
  <1>4. A \cap B = {}
    BY DEF SeenIn
  <1>5. SeenIn(g) = A \cup B
    <2>1. MaxListed \in Nat
      BY KeptFinite
    <2>2. ASSUME NEW i \in Rows, NEW t \in 1..(MaxListed + 1)
          PROVE  t <= g[i] <=> (t <= s[i] \/ (i \in got /\ t = s[i] + 1))
      <3>1. CASE i \in got
        BY <3>1
      <3>2. CASE i \notin got
        BY <3>2
      <3>3. QED
        BY <3>1, <3>2
    <2>3. B \subseteq P
      BY <2>1
    <2>4. ASSUME NEW x \in P
          PROVE  x \in B <=> (x[1] \in got /\ x[2] = s[x[1]] + 1)
      OBVIOUS
    <2>5. ASSUME NEW x \in P
          PROVE  x \in SeenIn(g) <=> (x \in A \/ x \in B)
      <3>1. x[1] \in Rows /\ x[2] \in 1..(MaxListed + 1)
        OBVIOUS
      <3>2. x \in SeenIn(g) <=> x[2] <= g[x[1]]
        BY DEF SeenIn
      <3>3. x \in A <=> x[2] <= s[x[1]]
        BY DEF SeenIn
      <3>4. QED
        BY <2>2, <2>4, <3>1, <3>2, <3>3
    <2>6. SeenIn(g) \subseteq P
      BY DEF SeenIn
    <2> HIDE DEF A, B, P
    <2>7. QED
      BY <1>2, <2>3, <2>5, <2>6
  <1> HIDE DEF A, B, P, f
  <1>6. Cardinality(A \cup B) = Cardinality(A) + Cardinality(B) - Cardinality(A \cap B)
    BY <1>2, <1>3, FS_Union
  <1>7. Cardinality(A \cap B) = 0
    BY <1>4, FS_EmptySet
  <1>8. Cardinality(A) \in Nat /\ Cardinality(B) \in Nat
    BY <1>2, <1>3, FS_CardinalityType
  <1>9. Cardinality(A \cup B) = Cardinality(A) + Cardinality(B)
    BY <1>6, <1>7, <1>8
  <1>10. QED
    BY <1>3, <1>5, <1>9 DEF A

LEMMA PagesAddUp ==
  ASSUME NEW p \in Nat, p >= 1, NEW l \in Nat, l >= 1
  PROVE  /\ Before(p, l) \in Nat /\ Before(1, l) = 0
         /\ Before(p + 1, l) = Before(p, l) + l
         /\ p * l = Before(p, l) + l /\ p <= p * l
  <1>1. PICK q \in Nat : p = q + 1
    <2>1. p - 1 \in Nat /\ p = (p - 1) + 1
      OBVIOUS
    <2>2. QED
      BY <2>1
  <1>2. PICK k \in Nat : l = k + 1
    <2>1. l - 1 \in Nat /\ l = (l - 1) + 1
      OBVIOUS
    <2>2. QED
      BY <2>1
  <1>3. Before(p, l) = q * l /\ Before(1, l) = 0 * l /\ Before(p + 1, l) = p * l
    <2>1. p - 1 = q /\ 1 - 1 = 0 /\ (p + 1) - 1 = p
      BY <1>1
    <2>2. QED
      BY <2>1 DEF Before, GetOffset
  <1>4. q * l \in Nat /\ 0 * l = 0 /\ p * k \in Nat
    OBVIOUS
  <1>5. p * l = q * l + l
    BY <1>1
  <1>6. p * l = p * k + p
    BY <1>2
  <1>7. QED
    BY <1>3, <1>4, <1>5, <1>6

LEMMA ListInitInv == ListInit => ListInv
  <1> SUFFICES ASSUME ListInit PROVE ListInv
    OBVIOUS
  <1>1. PICK limit \in 1..100 : walk = NewWalk(limit)
    <2>1. \A raw \in RawLimits : GetLimit(raw) \in 1..100
      BY ListingAssumption DEF GetLimit
    <2>2. QED
      BY <2>1 DEF ListInit
  <1>2. /\ walk.pc = "page" /\ walk.page = 1 /\ walk.limit = limit /\ walk.got = {}
        /\ walk.listed = FALSE /\ walk.total = -1 /\ walk.seen = [i \in Rows |-> 0]
    BY <1>1 DEF NewWalk
  <1>3. \A i \in Rows : walk.seen[i] = 0
    BY <1>2
  <1>4. walk \in WalkRecord
    <2>1. MaxListed \in Nat
      BY KeptFinite
    <2>2. -1 \in -1..MaxListed /\ [i \in Rows |-> 0] \in [Rows -> Nat]
      BY <2>1
    <2>3. QED
      BY <1>1, <2>2 DEF NewWalk, WalkRecord
  <1>5. WalkTyped
    <2>0. unique \in BOOLEAN /\ ordered \in BOOLEAN
      <3>1. PICK l \in Lists, asked \in AnyColumn \cup Inherited \cup {"other"} :
              /\ unique = (BuildOrder(l, asked) \in UniqueColumns)
              /\ ordered = (BuildOrder(l, asked) \in l.columns)
        BY DEF ListInit
      <3>2. QED
        BY <3>1
    <2>1. /\ listed \in [Rows -> [key: Rows, kept: BOOLEAN]]
          /\ unique \in BOOLEAN /\ ordered \in BOOLEAN /\ touched \in BOOLEAN
      <3>1. listed \in [Rows -> [key: Rows, kept: BOOLEAN]]
        BY DEF ListInit
      <3>2. touched = FALSE
        BY Zenon DEF ListInit
      <3>3. QED
        BY <2>0, <3>1, <3>2
    <2>2. \A i \in Rows : walk.seen[i] <= IF walk.pc = "page" THEN walk.page - 1 ELSE walk.page
      BY <1>2, <1>3
    <2>3. walk.page >= 1 /\ walk.page = 1
      BY <1>2
    <2>4. QED
      BY <1>4, <2>1, <2>2, <2>3 DEF WalkTyped
  <1>6. KeysApart
    BY DEF ListInit, KeysApart
  <1>7. Before(walk.page, walk.limit) = 0 /\ Cardinality(Kept) \in Nat
    <2>1. limit \in Nat /\ limit >= 1 /\ 1 \in Nat /\ 1 >= 1
      OBVIOUS
    <2>2. Before(1, limit) = 0
      BY <2>1, PagesAddUp
    <2>3. QED
      BY <1>2, <2>2, KeptFinite
  <1>8. SeenSum = 0
    <2>1. SeenIn(walk.seen) = {}
      <3>1. \A x \in Rows \X (1..(MaxListed + 1)) : x[1] \in Rows /\ x[2] > 0
        BY KeptFinite
      <3>2. QED
        BY <1>3, <3>1 DEF SeenIn
    <2>2. QED
      BY <2>1, FS_EmptySet DEF SeenSum, SeenIn
  <1>9. PagesFull
    BY <1>2, <1>7, <1>8 DEF PagesFull
  <1>10. PagesInOrder
    <2>1. \A i \in Kept : Cardinality(Above(i)) \in Nat
      <3>1. \A i \in Kept : Above(i) \subseteq Kept
        BY DEF Above
      <3>2. QED
        BY <3>1, KeptFinite, FS_Subset, FS_CardinalityType
    <2>2. \A i \in Rows :
            walk.seen[i] = IF i \in Kept /\ Cardinality(Above(i)) < 0 THEN 1 ELSE 0
      BY <1>3, <2>1
    <2>3. QED
      BY <1>2, <1>7, <2>2 DEF PagesInOrder
  <1>11. WalkComplete
    BY <1>2 DEF WalkComplete
  <1>12. QED
    BY <1>5, <1>6, <1>9, <1>10, <1>11 DEF ListInv

\* A statement of the client's request: the rows seen stay as they are.
LEMMA FindAllStep == ListInv /\ FindAll => ListInv'
  <1> SUFFICES ASSUME ListInv, FindAll PROVE ListInv'
    OBVIOUS
  <1>1. walk \in WalkRecord /\ WalkTyped /\ KeysApart
    BY DEF ListInv, WalkTyped
  <1>2. PICK from : from = Before(walk.page, walk.limit)
    OBVIOUS
  <1>3. PICK o \in Orders :
          walk' = [walk EXCEPT
                     !.listed = TRUE,
                     !.got = {o[i] : i \in {j \in DOMAIN o : from < j /\ j <= from + walk.limit}}]
    BY <1>2 DEF FindAll, Before
  <1>4. PICK got : got = {o[i] : i \in {j \in DOMAIN o : from < j /\ j <= from + walk.limit}}
    OBVIOUS
  <1>5. got \subseteq Rows
    BY <1>4, OrderIsAll, KeptFinite
  <1>6. /\ walk' \in WalkRecord /\ walk'.pc = "page" /\ walk'.page = walk.page
        /\ walk'.limit = walk.limit /\ walk'.got = got /\ walk'.listed = TRUE
        /\ walk'.total = walk.total /\ walk'.seen = walk.seen
    <2> DEFINE a == [walk EXCEPT !.listed = TRUE]
               b == [a EXCEPT !.got = got]
    <2>1. /\ a \in WalkRecord /\ a.pc = walk.pc /\ a.page = walk.page
          /\ a.limit = walk.limit /\ a.listed = TRUE
          /\ a.total = walk.total /\ a.seen = walk.seen
      BY <1>1 DEF WalkRecord
    <2>2. b = [walk EXCEPT !.listed = TRUE, !.got = got]
      OBVIOUS
    <2>3. walk' = b
      BY <1>3, <1>4, <2>2
    <2>4. walk.pc = "page"
      BY DEF FindAll
    <2> HIDE DEF a
    <2>5. QED
      BY <1>5, <2>1, <2>3, <2>4 DEF WalkRecord
  <1>7. UNCHANGED <<listed, unique, ordered, touched>> /\ walk.pc = "page"
    BY DEF FindAll
  <1>8. /\ Kept' = Kept /\ SeenSum' = SeenSum
        /\ \A i : Above(i)' = Above(i)
    BY <1>6, <1>7 DEF Kept, SeenSum, Above
  <1>9. WalkTyped'
    BY <1>6, <1>7 DEF ListInv, WalkTyped
  <1>10. KeysApart'
    BY <1>7 DEF ListInv, KeysApart
  <1>11. /\ Before(walk.page, walk.limit)' = from /\ from \in Nat
         /\ walk.limit \in Nat /\ walk.limit >= 1
    <2>1. walk.page \in Nat /\ walk.page >= 1 /\ walk.limit \in Nat /\ walk.limit >= 1
      BY <1>1 DEF WalkTyped, WalkRecord
    <2>2. QED
      BY <1>2, <1>6, <2>1, PagesAddUp DEF Before
  <1>12. PagesFull'
    <2> SUFFICES ASSUME ~ touched PROVE PagesFull'
      BY <1>7 DEF PagesFull
    <2>1. /\ from <= Cardinality(Kept) /\ SeenSum = from
          /\ walk.total \in {-1, Cardinality(Kept)}
      BY <1>2, <1>7 DEF ListInv, PagesFull
    <2>2. Cardinality(got) = PageSize(Cardinality(Kept), from, walk.limit)
      BY <1>4, <1>11, <2>1, PageLength
    <2>3. QED
      BY <1>6, <1>8, <1>11, <2>1, <2>2 DEF PagesFull
  <1>13. PagesInOrder'
    <2> SUFFICES ASSUME ~ touched, unique PROVE PagesInOrder'
      BY <1>7 DEF PagesInOrder
    <2>1. \A i \in Rows :
            walk.seen[i] = IF i \in Kept /\ Cardinality(Above(i)) < from THEN 1 ELSE 0
      BY <1>2, <1>7 DEF ListInv, PagesInOrder
    <2>2. got = {i \in Kept : /\ from <= Cardinality(Above(i))
                              /\ Cardinality(Above(i)) < from + walk.limit}
      <3>1. PICK n \in Nat : n = Cardinality(Kept)
        BY KeptFinite
      <3>2. /\ o \in [1 .. n -> Kept] /\ DOMAIN o = 1 .. n
            /\ \A k \in Kept : \E i \in 1 .. n : o[i] = k
        BY <3>1, OrderIsAll
      <3>3. \A j \in 1 .. n : Cardinality(Above(o[j])) = j - 1
        BY <1>1, <3>2, PlaceInOrder
      <3>4. \A j \in 1 .. n :
              (from < j /\ j <= from + walk.limit) <=>
                (from <= Cardinality(Above(o[j])) /\ Cardinality(Above(o[j])) < from + walk.limit)
        BY <1>11, <3>3
      <3>5. QED
        BY <1>4, <3>2, <3>4
    <2>3. QED
      BY <1>6, <1>8, <1>11, <2>1, <2>2 DEF PagesInOrder
  <1>14. WalkComplete'
    BY <1>6 DEF WalkComplete
  <1>15. QED
    BY <1>9, <1>10, <1>12, <1>13, <1>14 DEF ListInv

LEMMA FindAllFailsStep == ListInv /\ FindAllFails => ListInv'
  <1> SUFFICES ASSUME ListInv, FindAllFails PROVE ListInv'
    OBVIOUS
  <1>1. walk \in WalkRecord
    BY DEF ListInv, WalkTyped
  <1>2. /\ walk' = [walk EXCEPT !.pc = "failed"] /\ walk.pc = "page"
        /\ UNCHANGED <<listed, unique, ordered, touched>>
    BY DEF FindAllFails
  <1>3. /\ walk' \in WalkRecord /\ walk'.pc = "failed" /\ walk'.page = walk.page
        /\ walk'.seen = walk.seen
    BY <1>1, <1>2 DEF WalkRecord
  <1>4. walk.page \in Nat /\ \A i \in Rows : walk.seen[i] \in Nat /\ walk.seen[i] <= walk.page - 1
    BY <1>1, <1>2 DEF ListInv, WalkTyped, WalkRecord
  <1>5. \A i \in Rows : walk'.seen[i] <= walk'.page
    BY <1>3, <1>4
  <1>6. WalkTyped'
    BY <1>2, <1>3, <1>5 DEF ListInv, WalkTyped
  <1>7. KeysApart'
    BY <1>2 DEF ListInv, KeysApart
  <1>8. PagesFull' /\ PagesInOrder' /\ WalkComplete'
    BY <1>3 DEF PagesFull, PagesInOrder, WalkComplete
  <1>9. QED
    BY <1>6, <1>7, <1>8 DEF ListInv

LEMMA CountAllStep == ListInv /\ CountAll => ListInv'
  <1> SUFFICES ASSUME ListInv, CountAll PROVE ListInv'
    OBVIOUS
  <1>1. walk \in WalkRecord
    BY DEF ListInv, WalkTyped
  <1>2. PICK n \in Nat : n = Cardinality(Kept)
    BY KeptFinite
  <1>3. /\ walk' = [walk EXCEPT !.total = n] /\ walk.pc = "page"
        /\ UNCHANGED <<listed, unique, ordered, touched>>
    BY <1>2 DEF CountAll
  <1>4. n \in -1..MaxListed
    BY <1>2, KeptFinite
  <1>5. /\ walk' \in WalkRecord /\ walk'.pc = "page" /\ walk'.page = walk.page
        /\ walk'.limit = walk.limit /\ walk'.got = walk.got /\ walk'.listed = walk.listed
        /\ walk'.total = n /\ walk'.seen = walk.seen
    BY <1>1, <1>3, <1>4 DEF WalkRecord
  <1>6. /\ Kept' = Kept /\ SeenSum' = SeenSum
        /\ \A i : Above(i)' = Above(i)
    BY <1>3, <1>5 DEF Kept, SeenSum, Above
  <1>7. WalkTyped'
    BY <1>3, <1>5 DEF ListInv, WalkTyped
  <1>8. KeysApart'
    BY <1>3 DEF ListInv, KeysApart
  <1>9. Before(walk.page, walk.limit)' = Before(walk.page, walk.limit)
    BY <1>5 DEF Before
  <1>10. PagesFull'
    BY <1>2, <1>3, <1>5, <1>6, <1>9 DEF ListInv, PagesFull
  <1>11. PagesInOrder'
    BY <1>3, <1>5, <1>6, <1>9 DEF ListInv, PagesInOrder
  <1>12. WalkComplete'
    BY <1>5 DEF WalkComplete
  <1>13. QED
    BY <1>7, <1>8, <1>10, <1>11, <1>12 DEF ListInv

\* What the next request of the client, or its end, does to the rows seen.
LEMMA FollowSeen ==
  ASSUME ListInv, FollowPage
  PROVE  LET more == HasNextPage(walk.total, walk.page, walk.limit) IN
         /\ walk.pc = "page" /\ walk.listed /\ walk.total # -1
         /\ UNCHANGED <<listed, unique, ordered, touched>>
         /\ walk' \in WalkRecord
         /\ walk'.pc = (IF more THEN "page" ELSE "done")
         /\ walk'.page = (IF more THEN walk.page + 1 ELSE walk.page)
         /\ walk'.limit = walk.limit /\ walk'.got = {} /\ ~ walk'.listed /\ walk'.total = -1
         /\ \A i \in Rows : walk'.seen[i] = walk.seen[i] + IF i \in walk.got THEN 1 ELSE 0
         /\ SeenSum' = SeenSum + Cardinality(walk.got)
  <1>1. walk \in WalkRecord /\ WalkTyped
    BY DEF ListInv, WalkTyped
  <1>2. PICK more \in BOOLEAN : more <=> HasNextPage(walk.total, walk.page, walk.limit)
    OBVIOUS
  <1>3. PICK s \in [Rows -> Nat] : s = walk.seen
    BY <1>1 DEF WalkRecord
  <1>4. PICK got \in SUBSET Rows : got = walk.got
    BY <1>1 DEF WalkRecord
  <1>5. PICK g : g = [i \in Rows |-> s[i] + IF i \in got THEN 1 ELSE 0]
    OBVIOUS
  <1>6. g \in [Rows -> Nat] /\ \A i \in Rows : g[i] = s[i] + IF i \in got THEN 1 ELSE 0
    BY <1>5
  <1>7. /\ walk.pc = "page" /\ walk.listed /\ walk.total # -1
        /\ UNCHANGED <<listed, unique, ordered, touched>>
        /\ walk' = [pc |-> IF more THEN "page" ELSE "done",
                    page |-> IF more THEN walk.page + 1 ELSE walk.page,
                    limit |-> walk.limit, got |-> {}, listed |-> FALSE, total |-> -1,
                    seen |-> g]
    BY <1>2, <1>3, <1>4, <1>5 DEF FollowPage
  <1>8. /\ walk'.pc = (IF more THEN "page" ELSE "done")
        /\ walk'.page = (IF more THEN walk.page + 1 ELSE walk.page)
        /\ walk'.limit = walk.limit /\ walk'.got = {} /\ walk'.listed = FALSE
        /\ walk'.total = -1 /\ walk'.seen = g
    BY <1>7
  <1>9. walk' \in WalkRecord
    <2>1. PICK page : page = IF more THEN walk.page + 1 ELSE walk.page
      OBVIOUS
    <2>2. PICK pc : pc = IF more THEN "page" ELSE "done"
      OBVIOUS
    <2>3. page \in Nat /\ pc \in {"page", "done", "failed"} /\ walk.limit \in 1..100
      BY <1>1, <2>1, <2>2 DEF WalkRecord
    <2>4. -1 \in -1..MaxListed /\ {} \in SUBSET Rows
      BY KeptFinite
    <2>5. walk' = [pc |-> pc, page |-> page, limit |-> walk.limit, got |-> {},
                   listed |-> FALSE, total |-> -1, seen |-> g]
      BY <1>7, <2>1, <2>2
    <2>6. QED
      BY <1>6, <2>3, <2>4, <2>5 DEF WalkRecord
  <1>10. \A i \in Rows : s[i] <= MaxListed
    <2>1. /\ walk.page \in Nat /\ walk.page >= 1
          /\ (walk.page = 1 \/ walk.page <= MaxListed) /\ MaxListed \in Nat
      BY <1>1, KeptFinite DEF WalkTyped, WalkRecord
    <2>2. \A i \in Rows : s[i] <= walk.page - 1
      BY <1>1, <1>3, <1>7 DEF WalkTyped
    <2>3. \A i \in Rows : s[i] \in Nat
      OBVIOUS
    <2>4. QED
      BY <2>1, <2>2, <2>3
  <1>11. Cardinality(SeenIn(g)) = Cardinality(SeenIn(s)) + Cardinality(got)
    BY <1>6, <1>10, SeenGrows
  <1>12. SeenSum' = Cardinality(SeenIn(g)) /\ SeenSum = Cardinality(SeenIn(s))
    BY <1>3, <1>8 DEF SeenSum, SeenIn
  <1>13. \A i \in Rows : walk'.seen[i] = walk.seen[i] + IF i \in walk.got THEN 1 ELSE 0
    BY <1>3, <1>4, <1>6, <1>8
  <1>14. QED
    BY <1>2, <1>4, <1>7, <1>8, <1>9, <1>11, <1>12, <1>13

LEMMA FollowPageStep == ListInv /\ FollowPage => ListInv'
  <1> SUFFICES ASSUME ListInv, FollowPage PROVE ListInv'
    OBVIOUS
  <1>1. walk \in WalkRecord /\ WalkTyped /\ KeysApart
    BY DEF ListInv, WalkTyped
  <1>2. PICK more \in BOOLEAN : more <=> HasNextPage(walk.total, walk.page, walk.limit)
    OBVIOUS
  <1>3. /\ walk.pc = "page" /\ walk.listed /\ walk.total # -1
        /\ UNCHANGED <<listed, unique, ordered, touched>>
        /\ walk' \in WalkRecord
        /\ walk'.pc = (IF more THEN "page" ELSE "done")
        /\ walk'.page = (IF more THEN walk.page + 1 ELSE walk.page)
        /\ walk'.limit = walk.limit /\ walk'.got = {} /\ ~ walk'.listed /\ walk'.total = -1
        /\ \A i \in Rows : walk'.seen[i] = walk.seen[i] + IF i \in walk.got THEN 1 ELSE 0
        /\ SeenSum' = SeenSum + Cardinality(walk.got)
    BY <1>2, FollowSeen
  <1>4. PICK p \in Nat, l \in Nat, n \in Nat :
          p = walk.page /\ l = walk.limit /\ n = Cardinality(Kept)
    BY <1>1, KeptFinite DEF WalkRecord
  <1>5. p >= 1 /\ l >= 1 /\ (p = 1 \/ p <= MaxListed) /\ n <= MaxListed /\ MaxListed \in Nat
    BY <1>1, <1>4, KeptFinite DEF WalkTyped, WalkRecord
  <1>6. PICK from \in Nat : from = Before(p, l)
    BY <1>5, PagesAddUp
  <1>7. Before(p + 1, l) = from + l /\ p * l = from + l /\ p <= p * l
    BY <1>5, <1>6, PagesAddUp
  <1>8. walk.total \in Nat /\ walk.total <= MaxListed
    BY <1>1, <1>3, <1>5 DEF WalkRecord
  <1>8a. more <=> from + l < walk.total
    <2>1. more <=> p * l < walk.total
      BY <1>2, <1>4 DEF HasNextPage
    <2>2. QED
      BY <1>7, <2>1
  <1>9. more => from + l < walk.total /\ p + 1 <= MaxListed
    <2>1. p <= from + l
      BY <1>7
    <2>2. QED
      BY <1>5, <1>8, <1>8a, <2>1
  <1>10. ~ more => walk.total <= from + l
    BY <1>8, <1>8a
  <1>11. /\ Kept' = Kept /\ Rows' = Rows
         /\ \A i : Above(i)' = Above(i)
    BY <1>3 DEF Kept, Above
  <1>12. WalkTyped'
    <2>1. walk'.page >= 1 /\ (walk'.page = 1 \/ walk'.page <= MaxListed)
      BY <1>3, <1>4, <1>5, <1>9
    <2>2. ASSUME NEW i \in Rows
          PROVE  walk'.seen[i] <= IF walk'.pc = "page" THEN walk'.page - 1 ELSE walk'.page
      <3>1. walk.seen[i] \in Nat /\ walk.seen[i] <= p - 1
        BY <1>1, <1>3, <1>4 DEF WalkTyped, WalkRecord
      <3>2. walk'.seen[i] <= p
        BY <1>3, <3>1
      <3>3. (IF walk'.pc = "page" THEN walk'.page - 1 ELSE walk'.page) = p
        BY <1>3, <1>4
      <3>4. QED
        BY <3>2, <3>3
    <2>3. QED
      BY <1>1, <1>3, <2>1, <2>2 DEF WalkTyped
  <1>13. KeysApart'
    BY <1>1, <1>3 DEF KeysApart
  <1>14. ASSUME ~ touched
         PROVE  /\ from <= n /\ SeenSum = from /\ walk.total = n
                /\ Cardinality(walk.got) = PageSize(n, from, l)
    BY <1>3, <1>4, <1>6, <1>14 DEF ListInv, PagesFull
  <1>15. ASSUME ~ touched, more
         PROVE  from + l <= n /\ SeenSum' = from + l
    <2>1. from + l < n
      BY <1>9, <1>14, <1>15
    <2>2. Cardinality(walk.got) = l
      BY <1>14, <1>15, <2>1 DEF PageSize
    <2>3. QED
      BY <1>3, <1>14, <1>15, <2>1, <2>2
  <1>16. ASSUME ~ touched, ~ more
         PROVE  n <= from + l /\ SeenSum' = n
    <2>1. n <= from + l /\ from <= n
      BY <1>10, <1>14, <1>16
    <2>2. Cardinality(walk.got) = n - from
      BY <1>14, <1>16, <2>1 DEF PageSize
    <2>3. QED
      BY <1>3, <1>14, <1>16, <2>1, <2>2
  <1>17. ASSUME ~ touched, unique, NEW i \in Rows
         PROVE  walk'.seen[i] =
                  IF i \in Kept /\ Cardinality(Above(i)) < from + l THEN 1 ELSE 0
    <2>1. /\ walk.seen[i] = IF i \in Kept /\ Cardinality(Above(i)) < from THEN 1 ELSE 0
          /\ walk.got = {k \in Kept : /\ from <= Cardinality(Above(k))
                                      /\ Cardinality(Above(k)) < from + l}
      BY <1>3, <1>4, <1>6, <1>17 DEF ListInv, PagesInOrder
    <2>2. i \in Kept => Cardinality(Above(i)) \in Nat
      <3>1. Above(i) \subseteq Kept
        BY DEF Above
      <3>2. QED
        BY <3>1, KeptFinite, FS_Subset, FS_CardinalityType
    <2>3. walk'.seen[i] = walk.seen[i] + IF i \in walk.got THEN 1 ELSE 0
      BY <1>3
    <2>4. CASE i \notin Kept
      BY <2>1, <2>3, <2>4
    <2>5. CASE i \in Kept
      <3>1. i \in walk.got <=> (from <= Cardinality(Above(i))
                                /\ Cardinality(Above(i)) < from + l)
        BY <2>1, <2>5
      <3>2. QED
        BY <2>1, <2>2, <2>3, <2>5, <3>1
    <2>6. QED
      BY <2>4, <2>5
  <1>18. CASE more
    <2>1. /\ Before(walk.page, walk.limit)' = from + l
          /\ walk'.pc = "page"
      BY <1>3, <1>4, <1>7, <1>18 DEF Before
    <2>2. PagesFull'
      BY <1>3, <1>4, <1>11, <1>15, <1>18, <2>1 DEF PagesFull
    <2>3. PagesInOrder'
      BY <1>3, <1>11, <1>17, <2>1 DEF PagesInOrder
    <2>4. WalkComplete'
      BY <2>1 DEF WalkComplete
    <2>5. QED
      BY <1>12, <1>13, <2>2, <2>3, <2>4 DEF ListInv
  <1>19. CASE ~ more
    <2>1. walk'.pc = "done"
      BY <1>3, <1>19
    <2>2. PagesFull' /\ PagesInOrder'
      BY <2>1 DEF PagesFull, PagesInOrder
    <2>3. ASSUME ~ touched, unique, NEW i \in Rows
          PROVE  walk'.seen[i] = IF i \in Kept THEN 1 ELSE 0
      <3>1. CASE i \in Kept
        <4>1. Above(i) \subseteq Kept \ {i}
          <5>1. listed[i].key \in Nat
            BY <1>1 DEF WalkTyped, Rows
          <5>2. i \notin Above(i)
            BY <5>1 DEF Above
          <5>3. QED
            BY <5>2 DEF Above
        <4>2. IsFiniteSet(Kept \ {i}) /\ Cardinality(Kept \ {i}) = n - 1
          BY <1>4, <3>1, KeptFinite, FS_RemoveElement
        <4>3. Cardinality(Above(i)) \in Nat /\ Cardinality(Above(i)) <= n - 1
          BY <4>1, <4>2, FS_Subset, FS_CardinalityType
        <4>4. n <= from + l
          BY <1>16, <1>19, <2>3
        <4>5. Cardinality(Above(i)) < from + l
          BY <1>6, <4>3, <4>4
        <4>6. QED
          BY <1>17, <2>3, <3>1, <4>5
      <3>2. CASE i \notin Kept
        BY <1>17, <2>3, <3>2
      <3>3. QED
        BY <3>1, <3>2
    <2>4. WalkComplete'
      <3>1. ~ touched => SeenSum' = Cardinality(Kept)
        BY <1>4, <1>16, <1>19
      <3>2. QED
        BY <1>3, <1>11, <2>3, <3>1 DEF WalkComplete
    <2>5. QED
      BY <1>12, <1>13, <2>2, <2>4 DEF ListInv
  <1>20. QED
    BY <1>18, <1>19

\* Another request writes: the promise to the client ends.
LEMMA WriteListedStep ==
  ASSUME ListInv, InsertListed \/ DeleteListed
  PROVE  ListInv'
  <1>1. /\ walk' = walk /\ walk.pc = "page" /\ unique' = unique /\ ordered' = ordered /\ touched' = TRUE
    BY DEF InsertListed, DeleteListed
  <1>2. listed \in [Rows -> [key: Rows, kept: BOOLEAN]]
    BY DEF ListInv, WalkTyped
  <1>3. listed' \in [Rows -> [key: Rows, kept: BOOLEAN]] /\ KeysApart'
    <2>1. CASE InsertListed
      <3>1. PICK i \in Rows \ Kept, k \in Rows :
              /\ unique => \A j \in Rows \ {i} : listed[j].key # k
              /\ listed' = [listed EXCEPT ![i] = [key |-> k, kept |-> TRUE]]
        BY <2>1 DEF InsertListed
      <3>2. PICK row : row = [key |-> k, kept |-> TRUE]
        OBVIOUS
      <3>3. row \in [key: Rows, kept: BOOLEAN] /\ row.key = k
        BY <3>2
      <3>4. listed' = [listed EXCEPT ![i] = row] /\ i \in Rows
        BY <3>1, <3>2
      <3>5. /\ listed' \in [Rows -> [key: Rows, kept: BOOLEAN]]
            /\ listed'[i] = row /\ \A j \in Rows \ {i} : listed'[j] = listed[j]
        BY <1>2, <3>3, <3>4
      <3>6. KeysApart'
        BY <1>1, <3>1, <3>3, <3>5 DEF ListInv, KeysApart
      <3>7. QED
        BY <3>5, <3>6
    <2>2. CASE DeleteListed
      <3>1. PICK i \in Kept : listed' = [listed EXCEPT ![i] = [listed[i] EXCEPT !.kept = FALSE]]
        BY <2>2 DEF DeleteListed
      <3>2. i \in Rows
        BY KeptFinite
      <3>3. PICK row : row = [listed[i] EXCEPT !.kept = FALSE]
        OBVIOUS
      <3>4. row \in [key: Rows, kept: BOOLEAN] /\ row.key = listed[i].key
        <4>1. listed[i] \in [key: Rows, kept: BOOLEAN]
          BY <1>2, <3>2
        <4>2. QED
          BY <3>3, <4>1
      <3>5. /\ listed' \in [Rows -> [key: Rows, kept: BOOLEAN]]
            /\ listed'[i] = row /\ \A j \in Rows \ {i} : listed'[j] = listed[j]
        BY <1>2, <3>1, <3>2, <3>3, <3>4
      <3>6. \A j \in Rows : listed'[j].key = listed[j].key
        BY <3>4, <3>5
      <3>7. KeysApart'
        BY <1>1, <3>6 DEF ListInv, KeysApart
      <3>8. QED
        BY <3>5, <3>7
    <2>3. QED
      BY <2>1, <2>2
  <1>4. WalkTyped'
    BY <1>1, <1>3 DEF ListInv, WalkTyped
  <1>5. PagesFull' /\ PagesInOrder' /\ WalkComplete'
    BY <1>1 DEF PagesFull, PagesInOrder, WalkComplete
  <1>6. QED
    BY <1>3, <1>4, <1>5 DEF ListInv

LEMMA ListStepInv == ListInv /\ [ListNext]_listVars => ListInv'
  <1> SUFFICES ASSUME ListInv, [ListNext]_listVars PROVE ListInv'
    OBVIOUS
  <1>1. CASE FindAll
    BY <1>1, FindAllStep
  <1>2. CASE CountAll
    BY <1>2, CountAllStep
  <1>3. CASE FollowPage
    BY <1>3, FollowPageStep
  <1>4. CASE InsertListed
    BY <1>4, WriteListedStep
  <1>5. CASE DeleteListed
    BY <1>5, WriteListedStep
  <1>6. CASE UNCHANGED listVars
    <2>1. UNCHANGED <<listed, walk, unique, ordered, touched>>
      BY <1>6 DEF listVars
    <2>2. /\ Kept' = Kept /\ SeenSum' = SeenSum
          /\ \A i : Above(i)' = Above(i)
      BY <2>1 DEF Kept, SeenSum, Above
    <2>3. WalkTyped' /\ KeysApart'
      BY <2>1 DEF ListInv, WalkTyped, KeysApart
    <2>4. Before(walk.page, walk.limit)' = Before(walk.page, walk.limit)
      BY <2>1
    <2>5. PagesFull'
      BY <2>1, <2>2, <2>4 DEF ListInv, PagesFull
    <2>6. PagesInOrder'
      BY <2>1, <2>2, <2>4 DEF ListInv, PagesInOrder
    <2>7. WalkComplete'
      BY <2>1, <2>2 DEF ListInv, WalkComplete
    <2>8. QED
      BY <2>3, <2>5, <2>6, <2>7 DEF ListInv
  <1>7. CASE FindAllFails
    BY <1>7, FindAllFailsStep
  <1>8. QED
    BY <1>1, <1>2, <1>3, <1>4, <1>5, <1>6, <1>7 DEF ListNext

\* A client never asks for more pages than the table has rows, whoever writes it
\* meanwhile (pagination.ts:10).
THEOREM ListTypeCorrect == ListSpec => []ListTypeOK
  <1>1. ListInv => ListTypeOK
    <2> SUFFICES ASSUME ListInv PROVE ListTypeOK
      OBVIOUS
    <2>1. walk \in WalkRecord /\ WalkTyped
      BY DEF ListInv, WalkTyped
    <2>2. MaxListed \in Nat
      BY KeptFinite
    <2>3. walk.page \in 1..(MaxListed + 1)
      BY <2>1, <2>2 DEF WalkTyped, WalkRecord
    <2>4. ASSUME NEW i \in Rows
          PROVE  walk.seen[i] \in 0..(MaxListed + 1)
      <3>1. walk.seen[i] \in Nat /\ walk.page \in Nat
        BY <2>1 DEF WalkRecord
      <3>2. walk.seen[i] <= IF walk.pc = "page" THEN walk.page - 1 ELSE walk.page
        BY <2>1 DEF WalkTyped
      <3>3. walk.seen[i] <= walk.page
        BY <3>1, <3>2
      <3>4. QED
        BY <2>2, <2>3, <3>1, <3>3
    <2>5. QED
      BY <2>1, <2>3, <2>4 DEF WalkTyped, WalkRecord, ListTypeOK
  <1>2. QED
    BY <1>1, ListInitInv, ListStepInv, PTL DEF ListSpec

\* Whatever the limit, the table and the order of ties: the pages add up to the rows,
\* and with a unique column every row comes once (pagination.ts:10, order.ts:11).
THEOREM WalkCompleteHolds == ListSpec => []WalkComplete
  <1>1. ListInv => WalkComplete
    BY DEF ListInv
  <1>2. QED
    BY <1>1, ListInitInv, ListStepInv, PTL DEF ListSpec

-----------------------------------------------------------------------------
(* Side by side                                                            *)

\* The modules share no variable: a step of one is a step of it and leaves the others
\* where they are.
LEMMA InitOfEach ==
  Init => /\ UploadInit /\ SessionInit /\ AttendanceInit /\ AccountInit /\ AuthInit
          /\ ReferenceInit /\ NameInit /\ ExamInit /\ PatchInit /\ ListInit
          /\ HttpInit /\ BootInit
  BY DEF Init

LEMMA StepOfEach ==
  [Next]_recordVars =>
    /\ [UploadNext]_uploadVars /\ [SessionNext]_sessionVars
    /\ [AttendanceNext]_attendanceVars /\ [AccountNext]_accountVars
    /\ [TokenNext \/ PasswordNext]_authVars /\ [ReferenceNext]_referenceVars
    /\ [NameNext]_nameVars /\ [ExamNext]_examVars /\ [PatchNext]_patchVars
    /\ [ListNext]_listVars /\ [HttpNext]_httpVars /\ [BootNext]_bootVars
  <1>1. CASE UNCHANGED recordVars
    BY <1>1 DEF recordVars
  <1>2. CASE Next
    BY <1>2 DEF Next, Stays, AttendanceNext
  <1>3. QED
    BY <1>1, <1>2

\* A behaviour of the run is one of each module, so what is proved of them holds in it.
THEOREM RunIsEach ==
  Spec => /\ UploadSpec /\ SessionSpec /\ AttendanceSpec /\ AccountSpec /\ AuthSpec
          /\ ReferenceSpec /\ NameSpec /\ ExamSpec /\ PatchSpec /\ ListSpec /\ HttpSpec
          /\ BootSpec
  BY InitOfEach, StepOfEach, PTL
     DEF Spec, UploadSpec, SessionSpec, AttendanceSpec, AccountSpec, AuthSpec,
         ReferenceSpec, NameSpec, ExamSpec, PatchSpec, ListSpec, HttpSpec,
         BootSpec

\* Type correctness of the modules side by side, in all their behaviours.
THEOREM RecordsTypeCorrect == Spec => []RecordsTypeOK
  <1> DEFINE Types ==
               /\ UploadTypeOK /\ SessionTypeOK /\ AttendanceTypeOK /\ AccountTypeOK
               /\ AuthTypeOK /\ ReferenceTypeOK /\ NameTypeOK /\ ExamTypeOK /\ PatchTypeOK
               /\ ListTypeOK /\ HttpTypeOK /\ BootTypeOK
  <1>1. Types => RecordsTypeOK
    BY DEF RecordsTypeOK
  <1>2. QED
    BY <1>1, RunIsEach, BootTypeCorrect, UploadTypeCorrect, SessionTypeCorrect,
       AttendanceTypeCorrect, AccountTypeCorrect, AuthTypeCorrect, ReferenceTypeCorrect,
       NameTypeCorrect, ExamTypeCorrect, PatchTypeCorrect, ListTypeCorrect, HttpTypeCorrect,
       PTL
=============================================================================
