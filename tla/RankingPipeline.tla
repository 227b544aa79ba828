--------------------------- MODULE RankingPipeline ---------------------------
(***************************************************************************)
(* The path from exam results to locked roll numbers, for ONE class and    *)
(* academic session: the HTTP handlers that publish exams, generate,       *)
(* recalculate, unlock and read a ranking; the two BullMQ queues "ranking" *)
(* and "roll" with their workers; and the PostgreSQL rows and the Redis    *)
(* key they share.                                                         *)
(*                                                                         *)
(* A step is one statement on PostgreSQL or Redis: handlers run their      *)
(* queries one by one on pooled autocommit connections, so anything may    *)
(* happen between two of them.  Only rollEngine.generateRolls runs in a    *)
(* transaction, under an advisory lock.                                    *)
(*                                                                         *)
(* A ranked list is abstracted to the revisions of the results it was      *)
(* computed from: the FINAL and the ADMISSION revision, 0 standing for     *)
(* "not published when it was read".                                       *)
(***************************************************************************)
EXTENDS Naturals, Sequences, FiniteSets

CONSTANTS
  Requests,          \* HTTP requests that can be in flight at the same time
  Kinds,             \* the handlers that clients call in this instance
  RankWorkers,       \* workers of the "ranking" queue, concurrency 1 each
  RollWorkers,       \* workers of the "roll" queue, concurrency 1 each
  AdmissionEnabled,  \* academic_sessions.admission_test_enabled
  EarlierPublished,  \* UNIT_TEST or MIDTERM results are published already
  MaxAttempts,       \* "attempts" of a job (3 in queue.service.ts)
  MaxStarted,        \* bound: requests that change something
  MaxRev,            \* bound: revisions of the results of an exam
  MaxFaults,         \* bound: failed statements and crashes
  Evictions,         \* completed jobs are pushed out by jobs of other classes
  None

AllKinds == {"enter", "publish", "unpublish", "generate", "recalculate",
             "unlock", "read"}

ASSUME BoundsAssumption ==
  /\ MaxAttempts \in Nat \ {0}
  /\ MaxStarted \in Nat
  /\ MaxRev \in Nat
  /\ MaxFaults \in Nat

ASSUME ModeAssumption ==
  /\ AdmissionEnabled \in BOOLEAN
  /\ EarlierPublished \in BOOLEAN
  /\ Evictions \in BOOLEAN
  /\ Kinds \subseteq AllKinds

ASSUME NoneAssumption == None \notin RollWorkers

VARIABLES
  status,     \* exams.status of the FINAL and of the ADMISSION exam
  rev,        \* revision of the exam_results of each exam, 0 when it has none
  locked,     \* ranking_locks.is_locked (no row counts as unlocked)
  history,    \* ranking_history: one snapshot per generation, oldest first
  audit,      \* number of ranking_audit_log rows per action
  cache,      \* version in the key ranking:current:..., 0 when it is absent
  rankJob,    \* the job of each deterministic jobId of the queue "ranking"
  rankWait,   \* wait list of the queue "ranking"
  rankW,      \* workers of the queue "ranking"
  rollJobs,   \* every job ever added to the queue "roll"
  rollWait,   \* wait list of the queue "roll": indices in rollJobs
  rollW,      \* workers of the queue "roll"
  advisory,   \* the roll worker whose transaction holds the advisory lock
  req,        \* requests in flight
  started,    \* counts the requests MaxStarted bounds
  faults      \* counts the faults MaxFaults bounds

dbVars   == <<status, rev, locked, history, audit>>
rankVars == <<rankJob, rankWait, rankW>>
rollVars == <<rollJobs, rollWait, rollW, advisory>>
reqVars  == <<req, started>>
vars     == <<dbVars, cache, rankVars, rollVars, reqVars, faults>>

Exams    == {"FINAL", "ADMISSION"}
JobKinds == {"auto", "recalc"}
JobStates == {"none", "waiting", "active", "delayed", "completed", "failed"}
AuditActions == {"AUTO_TRIGGER", "AUTO_TRIGGER_SKIP", "UNLOCK", "GENERATE"}

ReqPcs  == {"idle", "enter_write", "pub_set", "unpub_set", "auto_lock",
            "auto_skip", "ready_final", "ready_admission", "enqueue",
            "audit_auto", "unlock", "audit_unlock", "clear_cache",
            "snapshot", "cache_set"}
RankPcs == {"idle", "lock", "merit", "admission", "enqueue", "finish"}
RollPcs == {"idle", "acquire", "save", "commit", "del"}

Request  == [pc: ReqPcs, kind: AllKinds, exam: Exams, seen: Nat]
Job      == [state: JobStates, attempts: Nat, stalls: Nat]
RankWork == [pc: RankPcs, job: JobKinds, final: Nat, admission: Nat]
RollJob  == [kind: JobKinds, final: Nat, admission: Nat,
             state: JobStates, attempts: Nat, stalls: Nat]
RollWork == [pc: RollPcs, job: Nat, version: Nat]
Snapshot == [version: Nat, kind: JobKinds, final: Nat, admission: Nat]

NoRequest  == [pc |-> "idle", kind |-> "read", exam |-> "FINAL", seen |-> 0]
NoJob      == [state |-> "none", attempts |-> 0, stalls |-> 0]
NoRankWork == [pc |-> "idle", job |-> "auto", final |-> 0, admission |-> 0]
NoRollWork == [pc |-> "idle", job |-> 0, version |-> 0]

Init ==
  /\ status = [e \in Exams |-> "DRAFT"]
  /\ rev = [e \in Exams |-> 0]
  /\ locked = FALSE
  /\ history = <<>>
  /\ audit = [a \in AuditActions |-> 0]
  /\ cache = 0
  /\ rankJob = [k \in JobKinds |-> NoJob]
  /\ rankWait = <<>>
  /\ rankW = [w \in RankWorkers |-> NoRankWork]
  /\ rollJobs = <<>>
  /\ rollWait = <<>>
  /\ rollW = [w \in RollWorkers |-> NoRollWork]
  /\ advisory = None
  /\ req = [r \in Requests |-> NoRequest]
  /\ started = 0
  /\ faults = 0

-----------------------------------------------------------------------------
(* Helpers                                                                 *)

\* SELECT MAX(version) ... of _saveHistory and getCurrentRanking; 0 is the
\* COALESCE of an empty table.
Versions == {0} \cup {history[i].version : i \in DOMAIN history}
Latest   == CHOOSE v \in Versions : \A u \in Versions : v >= u

\* What a query restricted to PUBLISHED exams sees of the results of e.
PublishedRev(e) == IF status[e] = "PUBLISHED" THEN rev[e] ELSE 0

Goto(r, pc) == req' = [req EXCEPT ![r].pc = pc]
Done(r)     == req' = [req EXCEPT ![r] = NoRequest]
Count(a)    == audit' = [audit EXCEPT ![a] = @ + 1]

\* Request r enters handler k; its first statement let it through.
Begin(r, k, e, pc) ==
  /\ k \in Kinds
  /\ req[r].pc = "idle"
  /\ req' = [req EXCEPT ![r] = [pc |-> pc, kind |-> k, exam |-> e, seen |-> 0]]

\* ... and it is one of the requests that MaxStarted bounds.
BeginCounted(r, k, e, pc) ==
  /\ started < MaxStarted
  /\ started' = started + 1
  /\ Begin(r, k, e, pc)

-----------------------------------------------------------------------------
(* Result entry: exam-result.service                                       *)

\* create, bulkCreate, update: the status check comes first ...
EnterRead(r, e) ==
  /\ rev[e] < MaxRev
  /\ status[e] = "DRAFT"
  /\ Begin(r, "enter", e, "enter_write")
  /\ UNCHANGED <<dbVars, cache, rankVars, rollVars, started, faults>>

\* ... and the marks are written whatever the status is by then.
EnterWrite(r) ==
  /\ req[r].pc = "enter_write"
  /\ rev' = [rev EXCEPT ![req[r].exam] = @ + 1]
  /\ Done(r)
  /\ UNCHANGED <<status, locked, history, audit, cache, rankVars, rollVars,
                 started, faults>>

-----------------------------------------------------------------------------
(* Publishing: exam.service and rankingService.autoTriggerAfterPublish      *)

\* Results are never all deleted here, so hasResults can be read with the exam.
PublishRead(r, e) ==
  /\ status[e] # "PUBLISHED"
  /\ rev[e] > 0
  /\ BeginCounted(r, "publish", e, "pub_set")
  /\ UNCHANGED <<dbVars, cache, rankVars, rollVars, faults>>

\* Mutated PublishSet: only FINAL triggers the ranking.
PublishSetFinalOnly(r) ==
  /\ req[r].pc = "pub_set"
  /\ status' = [status EXCEPT ![req[r].exam] = "PUBLISHED"]
  /\ IF req[r].exam = "FINAL" THEN Goto(r, "auto_lock") ELSE Done(r)
  /\ UNCHANGED <<rev, locked, history, audit, cache, rankVars, rollVars,
                 started, faults>>

PublishSet(r) ==
  /\ req[r].pc = "pub_set"
  /\ status' = [status EXCEPT ![req[r].exam] = "PUBLISHED"]
  /\ Goto(r, "auto_lock")
  /\ UNCHANGED <<rev, locked, history, audit, cache, rankVars, rollVars,
                 started, faults>>

AutoLockCheck(r) ==
  /\ req[r].pc = "auto_lock"
  /\ Goto(r, IF locked THEN "auto_skip" ELSE "ready_final")
  /\ UNCHANGED <<dbVars, cache, rankVars, rollVars, started, faults>>

AutoSkip(r) ==
  /\ req[r].pc = "auto_skip"
  /\ Count("AUTO_TRIGGER_SKIP")
  /\ Done(r)
  /\ UNCHANGED <<status, rev, locked, history, cache, rankVars, rollVars,
                 started, faults>>

UnpublishRead(r, e) ==
  /\ status[e] # "DRAFT"
  /\ BeginCounted(r, "unpublish", e, "unpub_set")
  /\ UNCHANGED <<dbVars, cache, rankVars, rollVars, faults>>

UnpublishSet(r) ==
  /\ req[r].pc = "unpub_set"
  /\ status' = [status EXCEPT ![req[r].exam] = "DRAFT"]
  /\ Done(r)
  /\ UNCHANGED <<rev, locked, history, audit, cache, rankVars, rollVars,
                 started, faults>>

-----------------------------------------------------------------------------
(* Generate, recalculate, unlock: ranking.service                          *)

GenerateLockCheck(r) ==
  /\ ~locked
  /\ BeginCounted(r, "generate", "FINAL", "ready_final")
  /\ UNCHANGED <<dbVars, cache, rankVars, rollVars, faults>>

RecalculateBegin(r) ==
  /\ BeginCounted(r, "recalculate", "FINAL", "ready_final")
  /\ UNCHANGED <<dbVars, cache, rankVars, rollVars, faults>>

UnlockBegin(r) ==
  /\ BeginCounted(r, "unlock", "FINAL", "unlock")
  /\ UNCHANGED <<dbVars, cache, rankVars, rollVars, faults>>

\* checkResultsReady: a missing exam ends the request, on the publish path
\* with an audit row; when all are there the handler goes on.
Ready(r) ==
  Goto(r, IF req[r].kind = "recalculate" THEN "unlock" ELSE "enqueue")

NotReady(r) ==
  IF req[r].kind = "publish" THEN Goto(r, "auto_skip") ELSE Done(r)

CheckFinal(r) ==
  /\ req[r].pc = "ready_final"
  /\ IF status["FINAL"] # "PUBLISHED" THEN NotReady(r)
     ELSE IF AdmissionEnabled THEN Goto(r, "ready_admission") ELSE Ready(r)
  /\ UNCHANGED <<dbVars, cache, rankVars, rollVars, started, faults>>

CheckAdmission(r) ==
  /\ req[r].pc = "ready_admission"
  /\ IF status["ADMISSION"] # "PUBLISHED" THEN NotReady(r) ELSE Ready(r)
  /\ UNCHANGED <<dbVars, cache, rankVars, rollVars, started, faults>>

\* Mutated Unlock: the audit row is forgotten.
UnlockUnaudited(r) ==
  /\ req[r].pc = "unlock"
  /\ locked' = FALSE
  /\ IF req[r].kind = "recalculate" THEN Goto(r, "enqueue") ELSE Done(r)
  /\ UNCHANGED <<status, rev, history, audit, cache, rankVars, rollVars,
                 started, faults>>

Unlock(r) ==
  /\ req[r].pc = "unlock"
  /\ locked' = FALSE
  /\ Goto(r, "audit_unlock")
  /\ UNCHANGED <<status, rev, history, audit, cache, rankVars, rollVars,
                 started, faults>>

AuditUnlock(r) ==
  /\ req[r].pc = "audit_unlock"
  /\ Count("UNLOCK")
  /\ IF req[r].kind = "recalculate" THEN Goto(r, "enqueue") ELSE Done(r)
  /\ UNCHANGED <<status, rev, locked, history, cache, rankVars, rollVars,
                 started, faults>>

\* enqueueRankingJob: the suffix of the deterministic jobId.
JobIdOf(r) == IF req[r].kind = "recalculate" THEN "recalc" ELSE "auto"

\* queue.add: a job whose id is in the queue in ANY state is silently dropped.
AddRankJob(k) ==
  IF rankJob[k].state = "none"
  THEN /\ rankJob' = [rankJob EXCEPT ![k] = [NoJob EXCEPT !.state = "waiting"]]
       /\ rankWait' = Append(rankWait, k)
  ELSE UNCHANGED <<rankJob, rankWait>>

Enqueue(r) ==
  /\ req[r].pc = "enqueue"
  /\ AddRankJob(JobIdOf(r))
  /\ \/ req[r].kind = "publish"     /\ Goto(r, "audit_auto")
     \/ req[r].kind = "recalculate" /\ Goto(r, "clear_cache")
     \/ req[r].kind = "generate"    /\ Done(r)
  /\ UNCHANGED <<dbVars, cache, rankW, rollVars, started, faults>>

AuditAuto(r) ==
  /\ req[r].pc = "audit_auto"
  /\ Count("AUTO_TRIGGER")
  /\ Done(r)
  /\ UNCHANGED <<status, rev, locked, history, cache, rankVars, rollVars,
                 started, faults>>

ClearCache(r) ==
  /\ req[r].pc = "clear_cache"
  /\ cache' = 0
  /\ Done(r)
  /\ UNCHANGED <<dbVars, rankVars, rollVars, started, faults>>

-----------------------------------------------------------------------------
(* getRanking: cache first, then the database, then fill the cache          *)

ReadMiss(r) ==
  /\ cache = 0
  /\ Begin(r, "read", "FINAL", "snapshot")
  /\ UNCHANGED <<dbVars, cache, rankVars, rollVars, started, faults>>

ReadSnapshot(r) ==
  /\ req[r].pc = "snapshot"
  /\ IF history = <<>> THEN Done(r)
     ELSE req' = [req EXCEPT ![r].pc = "cache_set", ![r].seen = Latest]
  /\ UNCHANGED <<dbVars, cache, rankVars, rollVars, started, faults>>

CacheSet(r) ==
  /\ req[r].pc = "cache_set"
  /\ cache' = req[r].seen
  /\ Done(r)
  /\ UNCHANGED <<dbVars, rankVars, rollVars, started, faults>>

\* CURRENT_TTL runs out.
CacheExpire ==
  /\ cache # 0
  /\ cache' = 0
  /\ UNCHANGED <<dbVars, rankVars, rollVars, reqVars, faults>>

\* A statement of the handler fails, or the process dies: the rest is lost.
RequestFault(r) ==
  /\ req[r].pc # "idle"
  /\ faults < MaxFaults
  /\ faults' = faults + 1
  /\ Done(r)
  /\ UNCHANGED <<dbVars, cache, rankVars, rollVars, started>>

-----------------------------------------------------------------------------
(* The ranking worker: jobs/ranking.job and core/ranking.engine             *)

RankStep(w, from, to) ==
  /\ rankW[w].pc = from
  /\ rankW' = [rankW EXCEPT ![w].pc = to]

\* The processor threw: retried after a delay, MaxAttempts times in all.
RankThrows(w) ==
  LET k == rankW[w].job
      n == rankJob[k].attempts + 1
  IN  /\ rankJob' = [rankJob EXCEPT ![k].attempts = n,
                       ![k].state = IF n < MaxAttempts THEN "delayed" ELSE "failed"]
      /\ rankW' = [rankW EXCEPT ![w] = NoRankWork]
      /\ UNCHANGED rankWait

RankTake(w) ==
  /\ rankWait # <<>>
  /\ rankW[w].pc = "idle"
  /\ LET k == Head(rankWait) IN
       /\ rankJob' = [rankJob EXCEPT ![k].state = "active"]
       /\ rankW' = [rankW EXCEPT ![w] =
                      [NoRankWork EXCEPT !.job = k,
                         !.pc = IF k = "recalc" THEN "merit" ELSE "lock"]]
  /\ rankWait' = Tail(rankWait)
  /\ UNCHANGED <<dbVars, cache, rollVars, reqVars, faults>>

\* buildCombinedRanking without allowWhenLocked refuses a locked ranking.
RankLockCheck(w) ==
  /\ rankW[w].pc = "lock"
  /\ IF locked THEN RankThrows(w)
     ELSE /\ RankStep(w, "lock", "merit")
          /\ UNCHANGED <<rankJob, rankWait>>
  /\ UNCHANGED <<dbVars, cache, rollVars, reqVars, faults>>

\* The merit view also sums published UNIT_TEST and MIDTERM results, so it can
\* have rows while FINAL is a draft.
MeritEmpty(final) == final = 0 /\ ~EarlierPublished

RankMerit(w) ==
  /\ rankW[w].pc = "merit"
  /\ LET f == PublishedRev("FINAL") IN
       IF ~AdmissionEnabled /\ MeritEmpty(f) THEN RankThrows(w)
       ELSE /\ rankW' = [rankW EXCEPT ![w].final = f,
                           ![w].pc = IF AdmissionEnabled THEN "admission"
                                     ELSE "enqueue"]
            /\ UNCHANGED <<rankJob, rankWait>>
  /\ UNCHANGED <<dbVars, cache, rollVars, reqVars, faults>>

RankAdmission(w) ==
  /\ rankW[w].pc = "admission"
  /\ LET a == PublishedRev("ADMISSION") IN
       IF a = 0 /\ MeritEmpty(rankW[w].final) THEN RankThrows(w)
       ELSE /\ rankW' = [rankW EXCEPT ![w].admission = a, ![w].pc = "enqueue"]
            /\ UNCHANGED <<rankJob, rankWait>>
  /\ UNCHANGED <<dbVars, cache, rollVars, reqVars, faults>>

\* enqueueRollJob: no jobId, so every call adds a job.
AddRollJob(w, queue) ==
  /\ RankStep(w, "enqueue", "finish")
  /\ rollJobs' = Append(rollJobs,
       [kind |-> rankW[w].job, final |-> rankW[w].final,
        admission |-> rankW[w].admission,
        state |-> "waiting", attempts |-> 0, stalls |-> 0])
  /\ rollWait' = queue
  /\ UNCHANGED <<dbVars, cache, rankJob, rankWait, rollW, advisory, reqVars,
                 faults>>

\* Mutated RankEnqueueRoll: the queue is a stack.
RankEnqueueRollLifo(w) == AddRollJob(w, <<Len(rollJobs) + 1>> \o rollWait)

RankEnqueueRoll(w) == AddRollJob(w, Append(rollWait, Len(rollJobs) + 1))

RankFinish(w) ==
  /\ rankW[w].pc = "finish"
  /\ rankJob' = [rankJob EXCEPT ![rankW[w].job].state = "completed"]
  /\ rankW' = [rankW EXCEPT ![w] = NoRankWork]
  /\ UNCHANGED <<dbVars, cache, rankWait, rollVars, reqVars, faults>>

RankFault(w) ==
  /\ rankW[w].pc # "idle"
  /\ faults < MaxFaults
  /\ faults' = faults + 1
  /\ RankThrows(w)
  /\ UNCHANGED <<dbVars, cache, rollVars, reqVars>>

\* The worker process dies: BullMQ finds the job stalled and hands it out
\* again, once; the second time it is failed.
RankCrash(w) ==
  /\ rankW[w].pc # "idle"
  /\ faults < MaxFaults
  /\ faults' = faults + 1
  /\ LET k == rankW[w].job IN
       IF rankJob[k].stalls = 0
       THEN /\ rankJob' = [rankJob EXCEPT ![k].state = "waiting", ![k].stalls = 1]
            /\ rankWait' = Append(rankWait, k)
       ELSE /\ rankJob' = [rankJob EXCEPT ![k].state = "failed"]
            /\ UNCHANGED rankWait
  /\ rankW' = [rankW EXCEPT ![w] = NoRankWork]
  /\ UNCHANGED <<dbVars, cache, rollVars, reqVars>>

\* The backoff delay of a job is over.
RankPromote(k) ==
  /\ rankJob[k].state = "delayed"
  /\ rankJob' = [rankJob EXCEPT ![k].state = "waiting"]
  /\ rankWait' = Append(rankWait, k)
  /\ UNCHANGED <<dbVars, cache, rankW, rollVars, reqVars, faults>>

\* removeOnComplete: 500 later jobs, of other classes, pushed it out.  There is
\* no removeOnFail: a failed job stays.
EvictCompleted(k) ==
  /\ Evictions
  /\ rankJob[k].state = "completed"
  /\ rankJob' = [rankJob EXCEPT ![k] = NoJob]
  /\ UNCHANGED <<dbVars, cache, rankWait, rankW, rollVars, reqVars, faults>>

-----------------------------------------------------------------------------
(* The roll worker: jobs/roll.job and the transaction of core/roll.engine   *)

RollStep(w, from, to) ==
  /\ rollW[w].pc = from
  /\ rollW' = [rollW EXCEPT ![w].pc = to]

\* Mutated Release: the connection goes back to the pool inside its transaction.
ReleaseNever(w) == UNCHANGED advisory

\* ROLLBACK or a lost connection ends the transaction and its advisory lock.
Release(w) == advisory' = IF advisory = w THEN None ELSE advisory

RollTake(w) ==
  /\ rollWait # <<>>
  /\ rollW[w].pc = "idle"
  /\ rollJobs' = [rollJobs EXCEPT ![Head(rollWait)].state = "active"]
  /\ rollWait' = Tail(rollWait)
  /\ rollW' = [rollW EXCEPT ![w] =
                 [pc |-> "acquire", job |-> Head(rollWait), version |-> 0]]
  /\ UNCHANGED <<dbVars, cache, rankVars, advisory, reqVars, faults>>

\* Mutated RollAcquire: no advisory lock.
RollAcquireUnguarded(w) ==
  /\ RollStep(w, "acquire", "save")
  /\ advisory' = w
  /\ UNCHANGED <<dbVars, cache, rankVars, rollJobs, rollWait, reqVars, faults>>

\* BEGIN; pg_advisory_xact_lock.
RollAcquire(w) ==
  /\ RollStep(w, "acquire", "save")
  /\ advisory = None
  /\ advisory' = w
  /\ UNCHANGED <<dbVars, cache, rankVars, rollJobs, rollWait, reqVars, faults>>

SaveHistory(w, version) ==
  /\ rollW[w].pc = "save"
  /\ rollW' = [rollW EXCEPT ![w].pc = "commit", ![w].version = version]
  /\ UNCHANGED <<dbVars, cache, rankVars, rollJobs, rollWait, advisory,
                 reqVars, faults>>

\* Mutated RollSaveHistory: the version of the previous snapshot again.
RollSaveHistorySame(w) == SaveHistory(w, Latest)

\* _saveHistory reads MAX(version) + 1.
RollSaveHistory(w) == SaveHistory(w, Latest + 1)

\* COMMIT makes the snapshot, the lock row and the audit row visible at once.
\* The lock row is not read again first.
Commit(w, lock) ==
  /\ RollStep(w, "commit", "del")
  /\ LET j == rollJobs[rollW[w].job] IN
       history' = Append(history,
         [version |-> rollW[w].version, kind |-> j.kind,
          final |-> j.final, admission |-> j.admission])
  /\ locked' = lock
  /\ Count("GENERATE")
  /\ Release(w)
  /\ UNCHANGED <<status, rev, cache, rankVars, rollJobs, rollWait, reqVars,
                 faults>>

\* Mutated RollCommit: the lock is not part of the transaction.
RollCommitUnlocked(w) == Commit(w, locked)

RollCommit(w) == Commit(w, TRUE)

\* The processor drops the cached ranking; then the job is completed.
RollDelCache(w) ==
  /\ rollW[w].pc = "del"
  /\ cache' = 0
  /\ rollJobs' = [rollJobs EXCEPT ![rollW[w].job].state = "completed"]
  /\ rollW' = [rollW EXCEPT ![w] = NoRollWork]
  /\ UNCHANGED <<dbVars, rankVars, rollWait, advisory, reqVars, faults>>

\* Mutated RollFault: the processor swallows the error.
RollFaultSwallowed(w) ==
  /\ rollW[w].pc # "idle"
  /\ faults < MaxFaults
  /\ faults' = faults + 1
  /\ rollJobs' = [rollJobs EXCEPT ![rollW[w].job].state = "completed"]
  /\ rollW' = [rollW EXCEPT ![w] = NoRollWork]
  /\ Release(w)
  /\ UNCHANGED <<dbVars, cache, rankVars, rollWait, reqVars>>

RollFault(w) ==
  /\ rollW[w].pc # "idle"
  /\ faults < MaxFaults
  /\ faults' = faults + 1
  /\ LET j == rollW[w].job
         n == rollJobs[j].attempts + 1
     IN  rollJobs' = [rollJobs EXCEPT ![j].attempts = n,
           ![j].state = IF n < MaxAttempts THEN "delayed" ELSE "failed"]
  /\ rollW' = [rollW EXCEPT ![w] = NoRollWork]
  /\ Release(w)
  /\ UNCHANGED <<dbVars, cache, rankVars, rollWait, reqVars>>

RollCrash(w) ==
  /\ rollW[w].pc # "idle"
  /\ faults < MaxFaults
  /\ faults' = faults + 1
  /\ LET j == rollW[w].job IN
       IF rollJobs[j].stalls = 0
       THEN /\ rollJobs' = [rollJobs EXCEPT ![j].state = "waiting",
                                            ![j].stalls = 1]
            /\ rollWait' = Append(rollWait, j)
       ELSE /\ rollJobs' = [rollJobs EXCEPT ![j].state = "failed"]
            /\ UNCHANGED rollWait
  /\ rollW' = [rollW EXCEPT ![w] = NoRollWork]
  /\ Release(w)
  /\ UNCHANGED <<dbVars, cache, rankVars, reqVars>>

RollPromote(j) ==
  /\ rollJobs[j].state = "delayed"
  /\ rollJobs' = [rollJobs EXCEPT ![j].state = "waiting"]
  /\ rollWait' = Append(rollWait, j)
  /\ UNCHANGED <<dbVars, cache, rankVars, rollW, advisory, reqVars, faults>>

-----------------------------------------------------------------------------
(* The system                                                              *)

\* A client calls a handler.
Call(r) ==
  \/ \E e \in Exams : EnterRead(r, e) \/ PublishRead(r, e) \/ UnpublishRead(r, e)
  \/ GenerateLockCheck(r)
  \/ RecalculateBegin(r)
  \/ UnlockBegin(r)
  \/ ReadMiss(r)

\* A handler goes on.
Handle(r) ==
  \/ EnterWrite(r)
  \/ PublishSet(r) \/ AutoLockCheck(r) \/ AutoSkip(r) \/ UnpublishSet(r)
  \/ CheckFinal(r) \/ CheckAdmission(r)
  \/ Unlock(r) \/ AuditUnlock(r) \/ Enqueue(r) \/ AuditAuto(r) \/ ClearCache(r)
  \/ ReadSnapshot(r) \/ CacheSet(r)

Rank(w) ==
  \/ RankTake(w) \/ RankLockCheck(w) \/ RankMerit(w) \/ RankAdmission(w)
  \/ RankEnqueueRoll(w) \/ RankFinish(w)

Roll(w) ==
  \/ RollTake(w) \/ RollAcquire(w) \/ RollSaveHistory(w) \/ RollCommit(w)
  \/ RollDelCache(w)

Promote ==
  \/ \E k \in JobKinds : RankPromote(k)
  \/ \E j \in DOMAIN rollJobs : RollPromote(j)

Fault ==
  \/ \E r \in Requests : RequestFault(r)
  \/ \E w \in RankWorkers : RankFault(w) \/ RankCrash(w)
  \/ \E w \in RollWorkers : RollFault(w) \/ RollCrash(w)

Next ==
  \/ \E r \in Requests : Call(r) \/ Handle(r)
  \/ \E w \in RankWorkers : Rank(w)
  \/ \E w \in RollWorkers : Roll(w)
  \/ Promote
  \/ Fault
  \/ CacheExpire
  \/ \E k \in JobKinds : EvictCompleted(k)

Spec == Init /\ [][Next]_vars

\* Node runs a handler or a processor to its end, BullMQ promotes a job when
\* its delay is over and hands out waiting jobs.  Clients owe nothing.
Fairness ==
  /\ \A r \in Requests : WF_vars(Handle(r))
  /\ \A w \in RankWorkers : WF_vars(Rank(w))
  /\ \A w \in RollWorkers : WF_vars(Roll(w))
  /\ WF_vars(Promote)

FairSpec == Spec /\ Fairness

-----------------------------------------------------------------------------
(* Properties                                                              *)

\* Type invariant: every variable ranges over the values its table, key or
\* queue can hold; a wait list of the roll queue and a busy roll worker only
\* name jobs that were added.
TypeOK ==
  /\ status \in [Exams -> {"DRAFT", "PUBLISHED"}]
  /\ rev \in [Exams -> Nat]
  /\ locked \in BOOLEAN
  /\ history \in Seq(Snapshot)
  /\ audit \in [AuditActions -> Nat]
  /\ cache \in Nat
  /\ rankJob \in [JobKinds -> Job]
  /\ rankWait \in Seq(JobKinds)
  /\ rankW \in [RankWorkers -> RankWork]
  /\ rollJobs \in Seq(RollJob)
  /\ rollWait \in Seq(1 .. Len(rollJobs))
  /\ rollW \in [RollWorkers -> RollWork]
  /\ \A w \in RollWorkers :
       rollW[w].pc # "idle" => rollW[w].job \in 1 .. Len(rollJobs)
  /\ advisory \in RollWorkers \cup {None}
  /\ req \in [Requests -> Request]
  /\ started \in Nat
  /\ faults \in Nat

\* The pipeline implements RankingLedger: whatever the interleaving of two roll
\* workers, retries and crashes, versions come out 1, 2, 3, ... without gap or
\* duplicate, no snapshot is rewritten, lock and audit row appear with the
\* snapshot they belong to, and the cache only ever holds a committed version.
Ledger == INSTANCE RankingLedger WITH
  ledger    <- [i \in 1 .. Len(history) |-> history[i].version],
  generated <- audit["GENERATE"],
  served    <- cache
ImplementsLedger == Ledger!Spec

\* The advisory lock of generateRolls: between pg_advisory_xact_lock and COMMIT
\* exactly the holder is at work, so two roll jobs never both read MAX(version)
\* before one of them inserts (roll.engine.ts:41-43).
OneGeneration ==
  \A w \in RollWorkers : rollW[w].pc \in {"save", "commit"} <=> advisory = w

\* Versions are consecutive, and a worker about to commit still holds the next.
Consecutive ==
  /\ \A i \in 1 .. Len(history) : history[i].version = i
  /\ \A w \in RollWorkers :
       rollW[w].pc = "commit" => rollW[w].version = Len(history) + 1

\* The cache, and what a reader is about to put there, were committed.
ServedCommitted ==
  /\ cache <= Len(history)
  /\ \A r \in Requests : req[r].seen <= Len(history)

\* The inductive invariant behind ImplementsLedger.
LedgerInv == TypeOK /\ OneGeneration /\ Consecutive /\ ServedCommitted

InFlight(r) == req[r].pc # "idle"

\* Publishing sets the status first and checks readiness after it, so of two
\* concurrent publishes of FINAL and ADMISSION at least one sees both: when all
\* is published, nothing failed and no request is under way, a ranking was
\* triggered (exam.service.ts:161-172).
NoMissedTrigger ==
  ( /\ status["FINAL"] = "PUBLISHED"
    /\ AdmissionEnabled => status["ADMISSION"] = "PUBLISHED"
    /\ faults = 0
    /\ \A r \in Requests : ~InFlight(r) )
  => rollJobs # <<>> \/ \E k \in JobKinds : rankJob[k].state # "none"

\* A generated ranking that is no longer locked has an UNLOCK row in the audit
\* log, unless the handler still has to write it or was cut off by a fault
\* (ranking.service.ts:231-240 and 266-273).
UnlockIsAudited ==
  history # <<>> /\ ~locked =>
    \/ audit["UNLOCK"] > 0
    \/ faults > 0
    \/ \E r \in Requests : req[r].pc = "audit_unlock"

\* Every completed roll job left its snapshot in ranking_history, and without
\* faults it left exactly one: at least once in general, because a failure
\* after COMMIT (the cache delete of roll.job.ts:23) runs the whole job again.
RollJobsCommit ==
  LET done  == {j \in DOMAIN rollJobs : rollJobs[j].state = "completed"}
      after == {w \in RollWorkers : rollW[w].pc = "del"}
      SnapshotOf(j, i) ==
        /\ history[i].kind = rollJobs[j].kind
        /\ history[i].final = rollJobs[j].final
        /\ history[i].admission = rollJobs[j].admission
  IN  /\ \A j \in done : \E i \in DOMAIN history : SnapshotOf(j, i)
      /\ faults = 0 =>
           Len(history) = Cardinality(done) + Cardinality(after)

\* With one worker per queue and no retry, the two queues keep the order in
\* which the results were read: a later snapshot never rests on older FINAL
\* results than an earlier one.  (A retried roll job overtakes: see README.)
BasisMonotone ==
  faults = 0 =>
    \A i, j \in DOMAIN history :
      i < j /\ history[i].final > 0 /\ history[j].final > 0
        => history[i].final <= history[j].final

Unsettled == {"waiting", "active", "delayed"}
RankUnsettled(k) == rankJob[k].state \in Unsettled
RollUnsettled(j) == j \in DOMAIN rollJobs /\ rollJobs[j].state \in Unsettled

\* Under fair workers every job of either queue is completed or failed in the
\* end: retries are bounded, a delayed job is promoted, and neither a failed
\* nor a crashed transaction keeps the advisory lock.
JobsSettle ==
  /\ \A k \in JobKinds : RankUnsettled(k) ~> ~RankUnsettled(k)
  /\ \A j \in 1 .. MaxStarted + MaxFaults : RollUnsettled(j) ~> ~RollUnsettled(j)

-----------------------------------------------------------------------------
(* What comments of the code say and the code does not keep                 *)

\* exam.service.ts:178-179: unpublishing "must be blocked if ranking_locked":
\* no unpublish that reads the exam while the ranking is locked goes on.
UnpublishBlockedWhenLocked ==
  [][\A r \in Requests :
       locked /\ req'[r].kind = "unpublish" => req[r].kind = "unpublish"]_vars

\* exam-result.service.ts:62: "Once published, direct create/update is blocked".
ResultsFrozenWhenPublished ==
  [][\A e \in Exams : status[e] = "PUBLISHED" => rev'[e] = rev[e]]_vars

\* ranking.service.ts:163: "auto-recalculation is not allowed when locked".
AutoNeverWhenLocked ==
  [][locked => \A i \in DOMAIN history' \ DOMAIN history :
                 history'[i].kind # "auto"]_vars

\* ranking.engine.ts:165: "ranking/roll only runs once the FINAL exam is
\* published".
FinalInEveryRanking == \A i \in DOMAIN history : history[i].final > 0

\* roll.job.ts:22: the processor removes "the stale current-ranking cache";
\* once nothing is under way the cache holds the current snapshot or nothing.
CacheFreshWhenQuiet ==
  ( /\ \A r \in Requests : ~InFlight(r)
    /\ \A w \in RollWorkers : rollW[w].pc = "idle" )
  => cache \in {0, Latest}

\* ranking.service.ts:211: recalculate unlocks, and "re-lock when the job
\* finishes".
RecalculateRelocks ==
  \A r \in Requests :
    (req[r].pc = "audit_unlock" /\ req[r].kind = "recalculate") ~> locked
=============================================================================
