-------------------------------- MODULE Uploads --------------------------------
(***************************************************************************)
(* One uploaded file: its row in `uploads`, its object in the object store, *)
(* which only the client writes, through a presigned URL, and the requests  *)
(* of upload.service that keep the two in step.  Whoever may not access the *)
(* file (assertCanAccess) gets a 403 and changes nothing, so only calls     *)
(* that are allowed appear; a bulk deletion is a sequence of deletions.     *)
(***************************************************************************)
EXTENDS Handlers

CONSTANT MaxPuts  \* bound: how often the client uses the presigned URL

ASSUME UploadAssumption == MaxPuts \in Nat

VARIABLES
  file,       \* the row: status and deleted_at
  object,     \* what the object store has under the key of the row
  url,        \* the presigned PUT URL is in the client's hands and valid
  puts,       \* counts what MaxPuts bounds
  trail,      \* actions in upload_audit_logs
  up          \* what each request does next

uploadVars == <<file, object, url, puts, trail, up>>

-----------------------------------------------------------------------------
UploadActions == {"GENERATE_URL", "CONFIRM", "DOWNLOAD", "DELETE", "RESTORE"}

UploadRow == [status: {"none", "PENDING", "READY", "FAILED"}, deleted: BOOLEAN]

\* Without object, one within the limit of its group, one that exceeds it.
Objects == {"absent", "fits", "oversize"}

\* `log` is the audit row to be written.
Upload ==
  [pc: {"idle", "head", "purge", "fail", "ready", "delete", "restore", "log"},
   log: UploadActions \cup {"none"}]

NoUpload == [pc |-> "idle", log |-> "none"]

UploadInit ==
  /\ file = [status |-> "none", deleted |-> FALSE]
  /\ object = "absent"
  /\ url = FALSE
  /\ puts = 0
  /\ trail = {}
  /\ up = [r \in Requests |-> NoUpload]

\* Mutated UploadStep: the audit row is not forgotten.
UploadStepKeeps(r, from, to) ==
  /\ up[r].pc = from
  /\ up' = [up EXCEPT ![r] = [@ EXCEPT !.pc = to]]

UploadStep(r, from, to) ==
  /\ up[r].pc = from
  /\ up' = [up EXCEPT ![r] = [pc |-> to, log |-> "none"]]

\* The statement is done, its audit row comes next.
UploadLog(r, from, action) ==
  /\ up[r].pc = from
  /\ up' = [up EXCEPT ![r] = [pc |-> "log", log |-> action]]

\* findById: the row is there and has no deleted_at.
Found == file.status # "none" /\ ~ file.deleted

-----------------------------------------------------------------------------
\* generateUploadUrl: INSERT of the PENDING row; signing is local.
GenerateUrl(r) ==
  /\ file.status = "none"
  /\ file' = [status |-> "PENDING", deleted |-> FALSE]
  /\ UploadLog(r, "idle", "GENERATE_URL")
  /\ UNCHANGED <<object, url, puts, trail>>

\* insertAudit, and the response; that of generateUploadUrl carries the URL.
WriteAudit(r) ==
  /\ trail' = trail \cup {up[r].log}
  /\ url' = (url \/ up[r].log = "GENERATE_URL")
  /\ UploadStep(r, "log", "idle")
  /\ UNCHANGED <<file, object, puts>>

\* The client sends a file to the URL; only its type is signed, not its size.
PutObject(size) ==
  /\ url
  /\ puts < MaxPuts
  /\ puts' = puts + 1
  /\ object' = size
  /\ UNCHANGED <<file, url, trail, up>>

\* STORAGE_UPLOAD_URL_TTL is over.
UrlExpires ==
  /\ url
  /\ url' = FALSE
  /\ UNCHANGED <<file, object, puts, trail, up>>

\* confirmUpload; a READY row is returned as it is.
ConfirmFind(r) ==
  /\ Found
  /\ file.status # "READY"
  /\ UploadStep(r, "idle", "head")
  /\ UNCHANGED <<file, object, url, puts, trail>>

\* Mutated ConfirmHead: trusts the declared size.
ConfirmHeadDeclared(r) ==
  /\ UploadStep(r, "head", IF object = "absent" THEN "fail" ELSE "ready")
  /\ UNCHANGED <<file, object, url, puts, trail>>

\* headObject, and the check of the actual size.
ConfirmHead(r) ==
  /\ UploadStep(r, "head", CASE object = "absent"   -> "fail"
                             [] object = "oversize" -> "purge"
                             [] OTHER               -> "ready")
  /\ UNCHANGED <<file, object, url, puts, trail>>

\* deleteObject of a file that is too large.
Purge(r) ==
  /\ object' = "absent"
  /\ UploadStep(r, "purge", "fail")
  /\ UNCHANGED <<file, url, puts, trail>>

\* Both UPDATEs find no row when it has been deleted meanwhile.
SetFileStatus(status) == file' = IF Found THEN [file EXCEPT !.status = status] ELSE file

MarkFailed(r) ==
  /\ SetFileStatus("FAILED")
  /\ UploadStep(r, "fail", "idle")
  /\ UNCHANGED <<object, url, puts, trail>>

\* The audit row is written whether or not the UPDATE found the row.
MarkReady(r) ==
  /\ SetFileStatus("READY")
  /\ UploadLog(r, "ready", "CONFIRM")
  /\ UNCHANGED <<object, url, puts, trail>>

\* getDownloadUrl; signing is local.
Download(r) ==
  /\ Found
  /\ file.status = "READY"
  /\ UploadLog(r, "idle", "DOWNLOAD")
  /\ UNCHANGED <<file, object, url, puts, trail>>

DeleteFind(r) ==
  /\ Found
  /\ UploadStep(r, "idle", "delete")
  /\ UNCHANGED <<file, object, url, puts, trail>>

\* softDelete: what the UPDATE found is not looked at; the object stays.
DeleteFile(r) ==
  /\ file' = [file EXCEPT !.deleted = TRUE]
  /\ UploadLog(r, "delete", "DELETE")
  /\ UNCHANGED <<object, url, puts, trail>>

RestoreFind(r) ==
  /\ file.deleted
  /\ UploadStep(r, "idle", "restore")
  /\ UNCHANGED <<file, object, url, puts, trail>>

RestoreFile(r) ==
  /\ file' = [file EXCEPT !.deleted = FALSE]
  /\ UploadLog(r, "restore", "RESTORE")
  /\ UNCHANGED <<object, url, puts, trail>>

\* An error or a dying process cuts the request off between two statements.
UploadFault(r) ==
  /\ up[r].pc # "idle"
  /\ up' = [up EXCEPT ![r] = NoUpload]
  /\ UNCHANGED <<file, object, url, puts, trail>>

-----------------------------------------------------------------------------
UploadCall(r) ==
  \/ GenerateUrl(r) \/ ConfirmFind(r) \/ Download(r)
  \/ DeleteFind(r) \/ RestoreFind(r)

UploadHandle(r) ==
  \/ WriteAudit(r) \/ ConfirmHead(r) \/ Purge(r)
  \/ MarkFailed(r) \/ MarkReady(r) \/ DeleteFile(r) \/ RestoreFile(r)

UploadNext ==
  \/ \E r \in Requests : UploadCall(r) \/ UploadHandle(r) \/ UploadFault(r)
  \/ \E size \in {"fits", "oversize"} : PutObject(size)
  \/ UrlExpires

UploadSpec == UploadInit /\ [][UploadNext]_uploadVars

-----------------------------------------------------------------------------
(* Properties                                                              *)

\* Type invariant.
UploadTypeOK ==
  /\ file \in UploadRow
  /\ object \in Objects
  /\ url \in BOOLEAN
  /\ puts \in Nat
  /\ trail \in SUBSET UploadActions
  /\ up \in [Requests -> Upload]
  /\ \A r \in Requests : up[r].pc = "log" <=> up[r].log # "none"

\* As long as the client has used its URL once, a READY row has an object within
\* the limit, whatever confirmations, deletions and restorations overlap, and
\* whichever of them are cut off: none of them purges what another one has
\* found to fit (upload.service.ts:144).
ReadyIsStored == puts <= 1 /\ file.status = "READY" => object = "fits"

-----------------------------------------------------------------------------
(* What the documentation of the code says and the code does not keep       *)

\* upload.service.ts:134, "idempotent: if already READY, returns that same row":
\* a confirmation that looked before the file arrived fails the row after
\* another one has made it READY.
ReadyStaysReady ==
  [][file.status = "READY" => file'.status = "READY"]_uploadVars
=============================================================================
