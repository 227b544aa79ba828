------------------------ MODULE RankingPipelineProofs ------------------------
(***************************************************************************)
(* Proofs about RankingPipeline, for any number of requests and workers,   *)
(* any queue retry limit and any of the bounds.                            *)
(***************************************************************************)
EXTENDS RankingPipeline, SequenceTheorems, FiniteSetTheorems, TLAPS

-----------------------------------------------------------------------------
(* Type correctness                                                        *)

LEMMA InitType == Init => TypeOK
  <1> SUFFICES ASSUME Init
               PROVE  TypeOK
    OBVIOUS
  <1>1. NoJob \in Job /\ NoRankWork \in RankWork
    BY DEF NoJob, Job, JobStates, NoRankWork, RankWork, RankPcs, JobKinds
  <1>2. NoRollWork \in RollWork /\ NoRequest \in Request
    BY DEF NoRollWork, RollWork, RollPcs, NoRequest, Request, ReqPcs, AllKinds, Exams
  <1>3. rollW \in [RollWorkers -> RollWork] /\ req \in [Requests -> Request]
    BY <1>2 DEF Init
  <1>4. rankJob \in [JobKinds -> Job] /\ rankW \in [RankWorkers -> RankWork]
    BY <1>1 DEF Init
  <1>5. \A w \in RollWorkers : rollW[w].pc = "idle"
    BY DEF Init, NoRollWork
  <1>6. \A S : <<>> \in Seq(S)
    OBVIOUS
  <1>7. status \in [Exams -> {"DRAFT", "PUBLISHED"}] /\ rev \in [Exams -> Nat]
    BY DEF Init
  <1>8. history \in Seq(Snapshot) /\ rankWait \in Seq(JobKinds)
    BY <1>6 DEF Init
  <1>9. rollJobs \in Seq(RollJob) /\ rollWait \in Seq(1 .. Len(rollJobs))
    BY <1>6 DEF Init
  <1>10. locked \in BOOLEAN /\ audit \in [AuditActions -> Nat] /\ cache \in Nat
    BY DEF Init
  <1>11. QED
    BY <1>3, <1>4, <1>5, <1>7, <1>8, <1>9, <1>10 DEF Init, TypeOK

\* A request moves on, ends, and writes an audit row.
LEMMA GotoType ==
  ASSUME TypeOK, NEW r \in Requests, NEW pc \in ReqPcs, Goto(r, pc)
  PROVE  req' \in [Requests -> Request]
  BY DEF TypeOK, Request, Goto

LEMMA DoneType ==
  ASSUME TypeOK, NEW r \in Requests, Done(r)
  PROVE  req' \in [Requests -> Request]
  BY DEF TypeOK, Request, Done, NoRequest, ReqPcs, AllKinds, Exams

LEMMA CountType ==
  ASSUME TypeOK, NEW a \in AuditActions, Count(a)
  PROVE  audit' \in [AuditActions -> Nat]
  BY DEF TypeOK, Count

\* checkResultsReady leaves the request at one of the known steps.
LEMMA ReadyType ==
  ASSUME TypeOK, NEW r \in Requests, Ready(r) \/ NotReady(r)
  PROVE  req' \in [Requests -> Request]
  <1>1. "unlock" \in ReqPcs /\ "enqueue" \in ReqPcs /\ "auto_skip" \in ReqPcs
    BY DEF ReqPcs
  <1>2. CASE Ready(r)
    BY <1>1, <1>2, GotoType DEF Ready
  <1>3. CASE NotReady(r)
    BY <1>1, <1>3, GotoType, DoneType DEF NotReady
  <1>4. QED
    BY <1>2, <1>3

\* A ranking job is added once per jobId.
LEMMA AddRankJobType ==
  ASSUME TypeOK, NEW k \in JobKinds, AddRankJob(k)
  PROVE  rankJob' \in [JobKinds -> Job] /\ rankWait' \in Seq(JobKinds)
  <1>1. [NoJob EXCEPT !.state = "waiting"] \in Job
    BY DEF NoJob, Job, JobStates
  <1>2. CASE rankJob[k].state = "none"
    <2>1. rankJob' = [rankJob EXCEPT ![k] = [NoJob EXCEPT !.state = "waiting"]]
      BY <1>2 DEF AddRankJob
    <2>2. rankWait' = Append(rankWait, k)
      BY <1>2 DEF AddRankJob
    <2>3. rankJob' \in [JobKinds -> Job]
      BY <1>1, <2>1 DEF TypeOK
    <2>4. QED
      BY <2>2, <2>3 DEF TypeOK
  <1>3. CASE rankJob[k].state # "none"
    BY <1>3 DEF AddRankJob, TypeOK
  <1>4. QED
    BY <1>2, <1>3

\* Consecutive versions: MAX(version) is the number of snapshots.
LEMMA LatestIsLen ==
  ASSUME TypeOK, Consecutive
  PROVE  Latest = Len(history)
  <1>1. Len(history) \in Nat /\ DOMAIN history = 1 .. Len(history)
    BY DEF TypeOK
  <1>2. \A v \in Versions : v \in 0 .. Len(history)
    BY <1>1 DEF Versions, Consecutive
  <1>3. Len(history) \in Versions
    BY <1>1 DEF Versions, Consecutive
  <1>4. \A v \in Versions : Len(history) >= v
    BY <1>1, <1>2
  <1>5. \A u \in Versions : (\A v \in Versions : u >= v) => u = Len(history)
    BY <1>1, <1>2, <1>3
  <1>6. QED
    BY <1>3, <1>4, <1>5 DEF Latest

LEMMA CallType ==
  ASSUME TypeOK, NEW r \in Requests, Call(r)
  PROVE  TypeOK'
  <1> USE DEF TypeOK, dbVars, rankVars, rollVars, Begin, BeginCounted, Request,
              ReqPcs, AllKinds, Exams
  <1>1. ASSUME NEW e \in Exams, EnterRead(r, e)
        PROVE  TypeOK'
    BY <1>1 DEF EnterRead
  <1>2. ASSUME NEW e \in Exams, PublishRead(r, e)
        PROVE  TypeOK'
    BY <1>2 DEF PublishRead
  <1>3. ASSUME NEW e \in Exams, UnpublishRead(r, e)
        PROVE  TypeOK'
    BY <1>3 DEF UnpublishRead
  <1>4. CASE GenerateLockCheck(r)
    BY <1>4 DEF GenerateLockCheck
  <1>5. CASE RecalculateBegin(r)
    BY <1>5 DEF RecalculateBegin
  <1>6. CASE UnlockBegin(r)
    BY <1>6 DEF UnlockBegin
  <1>7. CASE ReadMiss(r)
    BY <1>7 DEF ReadMiss
  <1>8. QED
    BY <1>1, <1>2, <1>3, <1>4, <1>5, <1>6, <1>7 DEF Call
LEMMA HandleType ==
  ASSUME TypeOK, Consecutive, NEW r \in Requests, Handle(r)
  PROVE  TypeOK'
  <1> USE DEF dbVars, rankVars, rollVars
  <1>a. req[r].exam \in Exams /\ req[r].seen \in Nat
    BY DEF TypeOK, Request
  <1>b. /\ "auto_lock" \in ReqPcs /\ "auto_skip" \in ReqPcs
        /\ "ready_final" \in ReqPcs /\ "ready_admission" \in ReqPcs
        /\ "audit_unlock" \in ReqPcs /\ "enqueue" \in ReqPcs
        /\ "audit_auto" \in ReqPcs /\ "clear_cache" \in ReqPcs
    BY DEF ReqPcs
  <1>c. /\ "AUTO_TRIGGER" \in AuditActions /\ "AUTO_TRIGGER_SKIP" \in AuditActions
        /\ "UNLOCK" \in AuditActions
    BY DEF AuditActions
  <1>1. CASE EnterWrite(r)
    BY <1>a, <1>1, DoneType DEF EnterWrite, TypeOK
  <1>2. CASE PublishSet(r)
    BY <1>a, <1>b, <1>2, GotoType DEF PublishSet, TypeOK
  <1>3. CASE AutoLockCheck(r)
    BY <1>b, <1>3, GotoType DEF AutoLockCheck, TypeOK
  <1>4. CASE AutoSkip(r)
    BY <1>c, <1>4, DoneType, CountType DEF AutoSkip, TypeOK
  <1>5. CASE UnpublishSet(r)
    BY <1>a, <1>5, DoneType DEF UnpublishSet, TypeOK
  <1>6. CASE CheckFinal(r)
    <2>1. req' \in [Requests -> Request]
      BY <1>b, <1>6, GotoType, ReadyType DEF CheckFinal
    <2>2. QED
      BY <1>6, <2>1 DEF CheckFinal, TypeOK
  <1>7. CASE CheckAdmission(r)
    <2>1. req' \in [Requests -> Request]
      BY <1>7, ReadyType DEF CheckAdmission
    <2>2. QED
      BY <1>7, <2>1 DEF CheckAdmission, TypeOK
  <1>8. CASE Unlock(r)
    BY <1>b, <1>8, GotoType DEF Unlock, TypeOK
  <1>9. CASE AuditUnlock(r)
    <2>1. req' \in [Requests -> Request]
      BY <1>b, <1>9, GotoType, DoneType DEF AuditUnlock
    <2>2. audit' \in [AuditActions -> Nat]
      BY <1>c, <1>9, CountType DEF AuditUnlock
    <2>3. QED
      BY <1>9, <2>1, <2>2 DEF AuditUnlock, TypeOK
  <1>10. CASE Enqueue(r)
    <2>1. JobIdOf(r) \in JobKinds
      BY DEF JobIdOf, JobKinds
    <2>2. rankJob' \in [JobKinds -> Job] /\ rankWait' \in Seq(JobKinds)
      BY <1>10, <2>1, AddRankJobType DEF Enqueue
    <2>3. req' \in [Requests -> Request]
      BY <1>b, <1>10, GotoType, DoneType DEF Enqueue
    <2>4. QED
      BY <1>10, <2>2, <2>3 DEF Enqueue, TypeOK
  <1>11. CASE AuditAuto(r)
    BY <1>c, <1>11, DoneType, CountType DEF AuditAuto, TypeOK
  <1>12. CASE ClearCache(r)
    BY <1>12, DoneType DEF ClearCache, TypeOK
  <1>13. CASE ReadSnapshot(r)
    <2>1. Latest \in Nat
      BY LatestIsLen DEF TypeOK
    <2>2. [req[r] EXCEPT !.pc = "cache_set", !.seen = Latest] \in Request
      BY <2>1 DEF TypeOK, Request, ReqPcs
    <2>3. CASE history = <<>>
      BY <1>13, <2>3, DoneType DEF ReadSnapshot, TypeOK
    <2>4. CASE history # <<>>
      <3>1. req' \in [Requests -> Request]
        BY <1>13, <2>2, <2>4 DEF ReadSnapshot, TypeOK
      <3>2. QED
        BY <1>13, <3>1 DEF ReadSnapshot, TypeOK
    <2>5. QED
      BY <2>3, <2>4
  <1>14. CASE CacheSet(r)
    BY <1>a, <1>14, DoneType DEF CacheSet, TypeOK
  <1>15. QED
    BY <1>1, <1>2, <1>3, <1>4, <1>5, <1>6, <1>7, <1>8, <1>9, <1>10, <1>11,
       <1>12, <1>13, <1>14 DEF Handle

\* A processor that throws leaves its job delayed or failed.
LEMMA ThrownJob ==
  ASSUME TypeOK, NEW w \in RankWorkers, RankThrows(w)
  PROVE  \E n \in Nat, st \in {"delayed", "failed"} :
           rankJob' = [rankJob EXCEPT ![rankW[w].job].attempts = n,
                                      ![rankW[w].job].state = st]
  <1>1. rankW[w].job \in JobKinds
    BY DEF TypeOK, RankWork
  <1>2. rankJob[rankW[w].job] \in Job
    BY <1>1 DEF TypeOK
  <1>3. rankJob[rankW[w].job].attempts + 1 \in Nat
    BY <1>2 DEF Job
  <1>4. QED
    BY <1>3 DEF RankThrows

\* A ranking job throws: only its own record changes.
LEMMA RankThrowsType ==
  ASSUME TypeOK, NEW w \in RankWorkers, RankThrows(w)
  PROVE  /\ rankJob' \in [JobKinds -> Job]
         /\ rankWait' \in Seq(JobKinds)
         /\ rankW' \in [RankWorkers -> RankWork]
  <1>1. rankW[w].job \in JobKinds
    BY DEF TypeOK, RankWork
  <1>2. rankJob' \in [JobKinds -> Job]
    <2>1. PICK n \in Nat, s \in {"delayed", "failed"} :
            rankJob' = [rankJob EXCEPT ![rankW[w].job].attempts = n,
                                       ![rankW[w].job].state = s]
      BY ThrownJob
    <2>2. QED
      BY <1>1, <2>1 DEF TypeOK, Job, JobStates
  <1>3. NoRankWork \in RankWork
    BY DEF NoRankWork, RankWork, RankPcs, JobKinds
  <1>4. QED
    BY <1>2, <1>3 DEF RankThrows, TypeOK

LEMMA RankType ==
  ASSUME TypeOK, NEW w \in RankWorkers, Rank(w)
  PROVE  TypeOK'
  <1> USE DEF dbVars, rollVars, reqVars
  <1>a. NoRankWork \in RankWork
    BY DEF NoRankWork, RankWork, RankPcs, JobKinds
  <1>b. rankW[w] \in RankWork /\ rankW[w].job \in JobKinds
    BY DEF TypeOK, RankWork
  <1>c. PublishedRev("FINAL") \in Nat /\ PublishedRev("ADMISSION") \in Nat
    BY DEF PublishedRev, TypeOK, Exams
  <1>1. CASE RankTake(w)
    <2>1. Head(rankWait) \in JobKinds /\ rankWait' \in Seq(JobKinds)
      BY <1>1 DEF RankTake, TypeOK
    <2>2. rankJob' \in [JobKinds -> Job]
      BY <1>1, <2>1 DEF RankTake, TypeOK, Job, JobStates
    <2>3. rankW' \in [RankWorkers -> RankWork]
      <3>1. PICK pc \in RankPcs :
              rankW' = [rankW EXCEPT ![w] =
                          [NoRankWork EXCEPT !.job = Head(rankWait), !.pc = pc]]
        BY <1>1 DEF RankTake, RankPcs
      <3>2. [NoRankWork EXCEPT !.job = Head(rankWait), !.pc = pc] \in RankWork
        BY <1>a, <2>1 DEF RankWork
      <3>3. QED
        BY <3>1, <3>2 DEF TypeOK
    <2>4. QED
      BY <1>1, <2>1, <2>2, <2>3 DEF RankTake, TypeOK
  <1>2. CASE RankLockCheck(w)
    <2>1. CASE locked
      BY <1>2, <2>1, RankThrowsType DEF RankLockCheck, TypeOK
    <2>2. CASE ~locked
      <3>1. rankW' = [rankW EXCEPT ![w].pc = "merit"]
        BY <1>2, <2>2 DEF RankLockCheck, RankStep
      <3>2. rankW' \in [RankWorkers -> RankWork]
        BY <3>1 DEF TypeOK, RankWork, RankPcs
      <3>3. UNCHANGED <<rankJob, rankWait>>
        BY <1>2, <2>2 DEF RankLockCheck
      <3>4. QED
        BY <1>2, <3>2, <3>3 DEF RankLockCheck, TypeOK
    <2>3. QED
      BY <2>1, <2>2
  <1>3. CASE RankMerit(w)
    <2>1. CASE RankThrows(w)
      BY <1>3, <2>1, RankThrowsType DEF RankMerit, TypeOK
    <2>2. CASE ~RankThrows(w)
      <3>1. PICK pc \in RankPcs :
              rankW' = [rankW EXCEPT ![w].final = PublishedRev("FINAL"),
                                     ![w].pc = pc]
        BY <1>3, <2>2 DEF RankMerit, RankPcs
      <3>2. rankW' \in [RankWorkers -> RankWork]
        BY <1>c, <3>1 DEF TypeOK, RankWork
      <3>3. UNCHANGED <<rankJob, rankWait>>
        BY <1>3, <2>2 DEF RankMerit
      <3>4. QED
        BY <1>3, <3>2, <3>3 DEF RankMerit, TypeOK
    <2>3. QED
      BY <2>1, <2>2
  <1>4. CASE RankAdmission(w)
    <2>1. CASE RankThrows(w)
      BY <1>4, <2>1, RankThrowsType DEF RankAdmission, TypeOK
    <2>2. CASE ~RankThrows(w)
      <3>1. rankW' = [rankW EXCEPT ![w].admission = PublishedRev("ADMISSION"),
                                   ![w].pc = "enqueue"]
        BY <1>4, <2>2 DEF RankAdmission
      <3>2. rankW' \in [RankWorkers -> RankWork]
        BY <1>c, <3>1 DEF TypeOK, RankWork, RankPcs
      <3>3. UNCHANGED <<rankJob, rankWait>>
        BY <1>4, <2>2 DEF RankAdmission
      <3>4. QED
        BY <1>4, <3>2, <3>3 DEF RankAdmission, TypeOK
    <2>3. QED
      BY <2>1, <2>2
  <1>5. CASE RankEnqueueRoll(w)
    <2> USE DEF RankEnqueueRoll, AddRollJob
    <2>1. rankW' \in [RankWorkers -> RankWork]
      BY <1>5 DEF RankStep, TypeOK, RankWork, RankPcs
    <2>2. rollJobs' \in Seq(RollJob) /\ Len(rollJobs') = Len(rollJobs) + 1
      <3>1. [kind |-> rankW[w].job, final |-> rankW[w].final,
             admission |-> rankW[w].admission, state |-> "waiting",
             attempts |-> 0, stalls |-> 0] \in RollJob
        BY <1>b DEF RankWork, RollJob, JobStates
      <3>2. QED
        BY <1>5, <3>1 DEF TypeOK
    <2>3. rollWait \in Seq(1 .. Len(rollJobs'))
      BY <2>2 DEF TypeOK
    <2>4. rollWait' \in Seq(1 .. Len(rollJobs'))
      BY <1>5, <2>2, <2>3 DEF TypeOK
    <2>5. \A v \in RollWorkers :
            rollW[v].pc # "idle" => rollW[v].job \in 1 .. Len(rollJobs')
      BY <2>2 DEF TypeOK
    <2>6. QED
      BY <1>5, <2>1, <2>2, <2>4, <2>5 DEF TypeOK
  <1>6. CASE RankFinish(w)
    <2>1. rankJob' \in [JobKinds -> Job]
      BY <1>6, <1>b DEF RankFinish, TypeOK, Job, JobStates
    <2>2. QED
      BY <1>6, <1>a, <2>1 DEF RankFinish, TypeOK
  <1>7. QED
    BY <1>1, <1>2, <1>3, <1>4, <1>5, <1>6 DEF Rank

\* A roll job changes its counters or its state.
LEMMA RollJobType ==
  ASSUME TypeOK, NEW j \in 1 .. Len(rollJobs),
         NEW st \in JobStates, NEW n \in Nat, NEW m \in Nat,
         \/ rollJobs' = [rollJobs EXCEPT ![j].state = st]
         \/ rollJobs' = [rollJobs EXCEPT ![j].attempts = n, ![j].state = st]
         \/ rollJobs' = [rollJobs EXCEPT ![j].state = st, ![j].stalls = m]
  PROVE  rollJobs' \in Seq(RollJob) /\ Len(rollJobs') = Len(rollJobs)
  <1>1. rollJobs[j] \in RollJob
    BY DEF TypeOK
  <1>2. PICK e \in RollJob : rollJobs' = [rollJobs EXCEPT ![j] = e]
    <2>1. CASE rollJobs' = [rollJobs EXCEPT ![j].state = st]
      <3>1. [rollJobs[j] EXCEPT !.state = st] \in RollJob
        BY <1>1 DEF RollJob
      <3>2. QED
        BY <2>1, <3>1
    <2>2. CASE rollJobs' = [rollJobs EXCEPT ![j].attempts = n, ![j].state = st]
      <3>1. [rollJobs[j] EXCEPT !.attempts = n, !.state = st] \in RollJob
        BY <1>1 DEF RollJob
      <3>2. rollJobs' = [rollJobs EXCEPT ![j] =
                           [rollJobs[j] EXCEPT !.attempts = n, !.state = st]]
        BY <2>2 DEF TypeOK
      <3>3. QED
        BY <3>1, <3>2
    <2>3. CASE rollJobs' = [rollJobs EXCEPT ![j].state = st, ![j].stalls = m]
      <3>1. [rollJobs[j] EXCEPT !.state = st, !.stalls = m] \in RollJob
        BY <1>1 DEF RollJob
      <3>2. rollJobs' = [rollJobs EXCEPT ![j] =
                           [rollJobs[j] EXCEPT !.state = st, !.stalls = m]]
        BY <2>3 DEF TypeOK
      <3>3. QED
        BY <3>1, <3>2
    <2>4. QED
      BY <2>1, <2>2, <2>3
  <1>3. QED
    BY <1>2 DEF TypeOK

\* What a roll worker's record needs when it goes idle or changes step.
LEMMA RollIdleType ==
  ASSUME TypeOK, NEW w \in RollWorkers, rollW' = [rollW EXCEPT ![w] = NoRollWork]
  PROVE  /\ rollW' \in [RollWorkers -> RollWork]
         /\ \A v \in RollWorkers :
              rollW'[v].pc # "idle" => rollW'[v].job \in 1 .. Len(rollJobs)
  <1>1. NoRollWork \in RollWork /\ NoRollWork.pc = "idle"
    BY DEF NoRollWork, RollWork, RollPcs
  <1>2. QED
    BY <1>1 DEF TypeOK

LEMMA RollStepType ==
  ASSUME TypeOK, NEW w \in RollWorkers, rollW[w].pc # "idle",
         NEW pc \in RollPcs, NEW n \in Nat,
         \/ rollW' = [rollW EXCEPT ![w].pc = pc]
         \/ rollW' = [rollW EXCEPT ![w].pc = pc, ![w].version = n]
  PROVE  /\ rollW' \in [RollWorkers -> RollWork]
         /\ \A v \in RollWorkers :
              rollW'[v].pc # "idle" => rollW'[v].job \in 1 .. Len(rollJobs)
  <1>1. rollW' \in [RollWorkers -> RollWork]
    <2>1. CASE rollW' = [rollW EXCEPT ![w].pc = pc]
      BY <2>1 DEF TypeOK, RollWork
    <2>2. CASE rollW' = [rollW EXCEPT ![w].pc = pc, ![w].version = n]
      BY <2>2 DEF TypeOK, RollWork
    <2>3. QED
      BY <2>1, <2>2
  <1>2. rollW'[w].job = rollW[w].job
    BY DEF TypeOK, RollWork
  <1>3. \A v \in RollWorkers : v # w => rollW'[v] = rollW[v]
    BY DEF TypeOK
  <1>4. QED
    BY <1>1, <1>2, <1>3 DEF TypeOK

LEMMA RollType ==
  ASSUME TypeOK, Consecutive, NEW w \in RollWorkers, Roll(w)
  PROVE  TypeOK'
  <1> USE DEF dbVars, rankVars, reqVars
  <1>a. /\ "save" \in RollPcs /\ "commit" \in RollPcs /\ "del" \in RollPcs
        /\ "active" \in JobStates /\ "completed" \in JobStates
    BY DEF RollPcs, JobStates
  <1>b. Len(rollJobs) \in Nat
    BY DEF TypeOK
  <1>1. CASE RollTake(w)
    <2>1. Head(rollWait) \in 1 .. Len(rollJobs) /\ rollWait' \in Seq(1 .. Len(rollJobs))
      BY <1>1 DEF RollTake, TypeOK
    <2>2. rollJobs' \in Seq(RollJob) /\ Len(rollJobs') = Len(rollJobs)
      BY <1>1, <1>a, <2>1, RollJobType DEF RollTake
    <2>3. [pc |-> "acquire", job |-> Head(rollWait), version |-> 0] \in RollWork
      BY <1>b, <2>1 DEF RollWork, RollPcs
    <2>4. rollW' = [rollW EXCEPT ![w] =
                      [pc |-> "acquire", job |-> Head(rollWait), version |-> 0]]
      BY <1>1 DEF RollTake
    <2>5. rollW' \in [RollWorkers -> RollWork]
      BY <2>3, <2>4 DEF TypeOK
    <2>6. \A v \in RollWorkers :
            rollW'[v].pc # "idle" => rollW'[v].job \in 1 .. Len(rollJobs)
      BY <2>1, <2>4 DEF TypeOK
    <2>7. QED
      BY <1>1, <2>1, <2>2, <2>5, <2>6 DEF RollTake, TypeOK
  <1>2. CASE RollAcquire(w)
    <2>1. rollW' = [rollW EXCEPT ![w].pc = "save"] /\ rollW[w].pc # "idle"
      BY <1>2 DEF RollAcquire, RollStep
    <2>2. QED
      BY <1>2, <1>a, <2>1, RollStepType DEF RollAcquire, TypeOK
  <1>3. CASE RollSaveHistory(w)
    <2>1. Latest + 1 \in Nat
      BY LatestIsLen DEF TypeOK
    <2>2. /\ rollW' = [rollW EXCEPT ![w].pc = "commit", ![w].version = Latest + 1]
          /\ rollW[w].pc # "idle"
      BY <1>3 DEF RollSaveHistory, SaveHistory
    <2>3. QED
      BY <1>3, <1>a, <2>1, <2>2, RollStepType DEF RollSaveHistory, SaveHistory, TypeOK
  <1>4. CASE RollCommit(w)
    <2> USE DEF RollCommit, Commit
    <2>1. rollW' = [rollW EXCEPT ![w].pc = "del"] /\ rollW[w].pc # "idle"
      BY <1>4 DEF RollStep
    <2>2. rollJobs[rollW[w].job] \in RollJob /\ rollW[w].version \in Nat
      BY <2>1 DEF TypeOK, RollWork
    <2>3. history' \in Seq(Snapshot)
      <3>1. PICK s \in Snapshot : history' = Append(history, s)
        BY <1>4, <2>2 DEF RollJob, Snapshot
      <3>2. QED
        BY <3>1 DEF TypeOK
    <2>4. audit' \in [AuditActions -> Nat]
      BY <1>4, CountType DEF AuditActions
    <2>5. advisory' \in RollWorkers \cup {None}
      BY <1>4 DEF Release, TypeOK
    <2>6. QED
      BY <1>4, <1>a, <2>1, <2>3, <2>4, <2>5, RollStepType DEF TypeOK
  <1>5. CASE RollDelCache(w)
    <2>1. rollJobs' \in Seq(RollJob) /\ Len(rollJobs') = Len(rollJobs)
      BY <1>5, <1>a, RollJobType DEF RollDelCache, TypeOK
    <2>2. QED
      BY <1>5, <2>1, RollIdleType DEF RollDelCache, TypeOK
  <1>6. QED
    BY <1>1, <1>2, <1>3, <1>4, <1>5 DEF Roll

LEMMA FaultType ==
  ASSUME TypeOK, Fault
  PROVE  TypeOK'
  <1> USE DEF dbVars, rankVars, reqVars
  <1>a. "waiting" \in JobStates /\ "delayed" \in JobStates /\ "failed" \in JobStates
    BY DEF JobStates
  <1>1. ASSUME NEW r \in Requests, RequestFault(r)
        PROVE  TypeOK'
    BY <1>1, DoneType DEF RequestFault, TypeOK, rollVars
  <1>2. ASSUME NEW w \in RankWorkers, RankFault(w)
        PROVE  TypeOK'
    BY <1>2, RankThrowsType DEF RankFault, TypeOK, rollVars
  <1>3. ASSUME NEW w \in RankWorkers, RankCrash(w)
        PROVE  TypeOK'
    <2>1. rankW[w].job \in JobKinds /\ NoRankWork \in RankWork
      BY DEF TypeOK, RankWork, NoRankWork, RankPcs, JobKinds
    <2>2. rankW' \in [RankWorkers -> RankWork]
      BY <1>3, <2>1 DEF RankCrash, TypeOK
    <2>3. rankJob' \in [JobKinds -> Job] /\ rankWait' \in Seq(JobKinds)
      <3>1. CASE rankJob[rankW[w].job].stalls = 0
        <4>1. rankJob' = [rankJob EXCEPT ![rankW[w].job].state = "waiting",
                                         ![rankW[w].job].stalls = 1]
          BY <1>3, <3>1 DEF RankCrash
        <4>2. rankWait' = Append(rankWait, rankW[w].job)
          BY <1>3, <3>1 DEF RankCrash
        <4>3. rankJob' \in [JobKinds -> Job]
          BY <1>a, <2>1, <4>1 DEF TypeOK, Job
        <4>4. QED
          BY <2>1, <4>2, <4>3 DEF TypeOK
      <3>2. CASE rankJob[rankW[w].job].stalls # 0
        <4>1. rankJob' = [rankJob EXCEPT ![rankW[w].job].state = "failed"]
          BY <1>3, <3>2 DEF RankCrash
        <4>2. rankWait' = rankWait
          BY <1>3, <3>2 DEF RankCrash
        <4>3. QED
          BY <1>a, <2>1, <4>1, <4>2 DEF TypeOK, Job
      <3>3. QED
        BY <3>1, <3>2
    <2>4. QED
      BY <1>3, <2>2, <2>3 DEF RankCrash, TypeOK, rollVars
  <1>4. ASSUME NEW w \in RollWorkers, RollFault(w)
        PROVE  TypeOK'
    <2>1. rollW[w].job \in 1 .. Len(rollJobs)
      BY <1>4 DEF RollFault, TypeOK
    <2>2. rollJobs[rollW[w].job].attempts + 1 \in Nat
      <3>1. rollJobs[rollW[w].job] \in RollJob
        BY <2>1 DEF TypeOK
      <3>2. QED
        BY <3>1 DEF RollJob
    <2>3. rollJobs' \in Seq(RollJob) /\ Len(rollJobs') = Len(rollJobs)
      BY <1>4, <1>a, <2>1, <2>2, RollJobType DEF RollFault
    <2>4. advisory' \in RollWorkers \cup {None}
      BY <1>4 DEF RollFault, Release, TypeOK
    <2>5. /\ rollW' \in [RollWorkers -> RollWork]
          /\ \A v \in RollWorkers :
               rollW'[v].pc # "idle" => rollW'[v].job \in 1 .. Len(rollJobs)
      BY <1>4, RollIdleType DEF RollFault
    <2>6. QED
      BY <1>4, <2>3, <2>4, <2>5 DEF RollFault, TypeOK
  <1>5. ASSUME NEW w \in RollWorkers, RollCrash(w)
        PROVE  TypeOK'
    <2>1. rollW[w].job \in 1 .. Len(rollJobs)
      BY <1>5 DEF RollCrash, TypeOK
    <2>2. rollJobs' \in Seq(RollJob) /\ Len(rollJobs') = Len(rollJobs)
      BY <1>5, <1>a, <2>1, RollJobType DEF RollCrash
    <2>3. rollWait' \in Seq(1 .. Len(rollJobs))
      <3>1. CASE rollJobs[rollW[w].job].stalls = 0
        <4>1. rollWait' = Append(rollWait, rollW[w].job)
          BY <1>5, <3>1 DEF RollCrash
        <4>2. QED
          BY <2>1, <4>1 DEF TypeOK
      <3>2. CASE rollJobs[rollW[w].job].stalls # 0
        <4>1. rollWait' = rollWait
          BY <1>5, <3>2 DEF RollCrash
        <4>2. QED
          BY <4>1 DEF TypeOK
      <3>3. QED
        BY <3>1, <3>2
    <2>4. advisory' \in RollWorkers \cup {None}
      BY <1>5 DEF RollCrash, Release, TypeOK
    <2>5. /\ rollW' \in [RollWorkers -> RollWork]
          /\ \A v \in RollWorkers :
               rollW'[v].pc # "idle" => rollW'[v].job \in 1 .. Len(rollJobs)
      BY <1>5, RollIdleType DEF RollCrash
    <2>6. /\ UNCHANGED <<dbVars, cache, rankVars, reqVars>>
          /\ faults' = faults + 1
      BY <1>5 DEF RollCrash
    <2>7. QED
      BY <2>2, <2>3, <2>4, <2>5, <2>6 DEF TypeOK
  <1>6. QED
    BY <1>1, <1>2, <1>3, <1>4, <1>5 DEF Fault

LEMMA PromoteType ==
  ASSUME TypeOK, Promote
  PROVE  TypeOK'
  <1> USE DEF dbVars, reqVars
  <1>a. "waiting" \in JobStates
    BY DEF JobStates
  <1>1. ASSUME NEW k \in JobKinds, RankPromote(k)
        PROVE  TypeOK'
    <2>1. rankJob' \in [JobKinds -> Job]
      BY <1>1, <1>a DEF RankPromote, TypeOK, Job
    <2>2. QED
      BY <1>1, <2>1 DEF RankPromote, TypeOK, rollVars
  <1>2. ASSUME NEW j \in DOMAIN rollJobs, RollPromote(j)
        PROVE  TypeOK'
    <2>1. j \in 1 .. Len(rollJobs)
      BY DEF TypeOK
    <2>2. rollJobs' \in Seq(RollJob) /\ Len(rollJobs') = Len(rollJobs)
      BY <1>2, <1>a, <2>1, RollJobType DEF RollPromote
    <2>3. rollWait' \in Seq(1 .. Len(rollJobs))
      BY <1>2, <2>1 DEF RollPromote, TypeOK
    <2>4. QED
      BY <1>2, <2>2, <2>3 DEF RollPromote, TypeOK, rankVars
  <1>3. QED
    BY <1>1, <1>2 DEF Promote

LEMMA TypeStep ==
  ASSUME TypeOK, Consecutive, [Next]_vars
  PROVE  TypeOK'
  <1>1. CASE CacheExpire
    BY <1>1 DEF CacheExpire, TypeOK, dbVars, rankVars, rollVars, reqVars
  <1>2. ASSUME NEW k \in JobKinds, EvictCompleted(k)
        PROVE  TypeOK'
    <2>1. NoJob \in Job
      BY DEF NoJob, Job, JobStates
    <2>2. QED
      BY <1>2, <2>1 DEF EvictCompleted, TypeOK, dbVars, rollVars, reqVars
  <1>3. CASE UNCHANGED vars
    BY <1>3 DEF TypeOK, vars, dbVars, rankVars, rollVars, reqVars
  <1>4. QED
    BY <1>1, <1>2, <1>3, CallType, HandleType, RankType, RollType, FaultType,
       PromoteType DEF Next

-----------------------------------------------------------------------------
(* The invariant of the ledger                                             *)

\* Only the roll workers move a transaction or write a snapshot.
LEMMA RollFrame ==
  ASSUME [Next]_vars
  PROVE  \/ UNCHANGED <<rollW, advisory, history>>
         \/ \E w \in RollWorkers : Roll(w) \/ RollFault(w) \/ RollCrash(w)
  <1> USE DEF dbVars, rankVars, rollVars, reqVars
  <1>1. ASSUME NEW r \in Requests, Call(r)
        PROVE  UNCHANGED <<rollW, advisory, history>>
    BY <1>1 DEF Call, EnterRead, PublishRead, UnpublishRead, GenerateLockCheck,
                RecalculateBegin, UnlockBegin, ReadMiss
  <1>2. ASSUME NEW r \in Requests, Handle(r)
        PROVE  UNCHANGED <<rollW, advisory, history>>
    BY <1>2 DEF Handle, EnterWrite, PublishSet, AutoLockCheck, AutoSkip,
                UnpublishSet, CheckFinal, CheckAdmission, Unlock, AuditUnlock,
                Enqueue, AuditAuto, ClearCache, ReadSnapshot, CacheSet
  <1>3. ASSUME NEW w \in RankWorkers, Rank(w)
        PROVE  UNCHANGED <<rollW, advisory, history>>
    BY <1>3 DEF Rank, RankTake, RankLockCheck, RankMerit, RankAdmission,
                RankEnqueueRoll, AddRollJob, RankFinish
  <1>4. CASE Promote
    BY <1>4 DEF Promote, RankPromote, RollPromote
  <1>5. ASSUME NEW r \in Requests, RequestFault(r)
        PROVE  UNCHANGED <<rollW, advisory, history>>
    BY <1>5 DEF RequestFault
  <1>6. ASSUME NEW w \in RankWorkers, RankFault(w) \/ RankCrash(w)
        PROVE  UNCHANGED <<rollW, advisory, history>>
    BY <1>6 DEF RankFault, RankCrash
  <1>7. CASE CacheExpire \/ \E k \in JobKinds : EvictCompleted(k)
    BY <1>7 DEF CacheExpire, EvictCompleted
  <1>8. CASE UNCHANGED vars
    BY <1>8 DEF vars
  <1>9. QED
    BY <1>1, <1>2, <1>3, <1>4, <1>5, <1>6, <1>7, <1>8 DEF Next, Fault

\* A snapshot is only ever appended, by the worker that commits, and it carries
\* the version that worker read.
LEMMA HistoryStep ==
  ASSUME TypeOK, [Next]_vars
  PROVE  \/ history' = history
         \/ \E w \in RollWorkers : RollCommit(w)
  <1>1. ASSUME NEW w \in RollWorkers, Roll(w) \/ RollFault(w) \/ RollCrash(w)
        PROVE  history' = history \/ RollCommit(w)
    BY <1>1 DEF Roll, RollTake, RollAcquire, RollSaveHistory, SaveHistory,
                RollDelCache, RollFault, RollCrash, dbVars
  <1>2. QED
    BY <1>1, RollFrame

LEMMA CommitAppends ==
  ASSUME TypeOK, NEW w \in RollWorkers, RollCommit(w)
  PROVE  \E s \in Snapshot : /\ s.version = rollW[w].version
                             /\ history' = Append(history, s)
  <1>1. rollW[w].pc # "idle" /\ rollW[w].version \in Nat
    BY DEF RollCommit, Commit, RollStep, TypeOK, RollWork
  <1>2. rollJobs[rollW[w].job] \in RollJob
    BY <1>1 DEF TypeOK
  <1>3. QED
    BY <1>1, <1>2 DEF RollCommit, Commit, RollJob, Snapshot

\* The step of a roll worker and the advisory lock change together.
LEMMA OneGenerationStep ==
  ASSUME TypeOK, OneGeneration, [Next]_vars
  PROVE  OneGeneration'
  <1>a. ASSUME NEW w \in RollWorkers PROVE w # None
    BY NoneAssumption
  <1>1. CASE UNCHANGED <<rollW, advisory, history>>
    BY <1>1 DEF OneGeneration
  <1>2. ASSUME NEW w \in RollWorkers, RollTake(w)
        PROVE  OneGeneration'
    <2>1. rollW[w].pc = "idle" /\ advisory # w /\ advisory' = advisory
      BY <1>2 DEF RollTake, OneGeneration
    <2>2. rollW'[w].pc = "acquire" /\ \A v \in RollWorkers : v # w => rollW'[v] = rollW[v]
      BY <1>2 DEF RollTake, TypeOK
    <2>3. QED
      BY <2>1, <2>2 DEF OneGeneration
  <1>3. ASSUME NEW w \in RollWorkers, RollAcquire(w)
        PROVE  OneGeneration'
    <2>1. advisory = None /\ advisory' = w
      BY <1>3 DEF RollAcquire
    <2>2. rollW'[w].pc = "save" /\ \A v \in RollWorkers : v # w => rollW'[v] = rollW[v]
      BY <1>3 DEF RollAcquire, RollStep, TypeOK, RollWork
    <2>3. QED
      BY <1>a, <2>1, <2>2 DEF OneGeneration
  <1>4. ASSUME NEW w \in RollWorkers, RollSaveHistory(w)
        PROVE  OneGeneration'
    <2>1. rollW[w].pc = "save" /\ advisory' = advisory
      BY <1>4 DEF RollSaveHistory, SaveHistory
    <2>2. rollW'[w].pc = "commit" /\ \A v \in RollWorkers : v # w => rollW'[v] = rollW[v]
      BY <1>4 DEF RollSaveHistory, SaveHistory, TypeOK, RollWork
    <2>3. QED
      BY <2>1, <2>2 DEF OneGeneration
  <1>5. ASSUME NEW w \in RollWorkers, RollCommit(w)
        PROVE  OneGeneration'
    <2>1. rollW[w].pc = "commit" /\ advisory = w /\ advisory' = None
      BY <1>5 DEF RollCommit, Commit, RollStep, Release, OneGeneration
    <2>2. rollW'[w].pc = "del" /\ \A v \in RollWorkers : v # w => rollW'[v] = rollW[v]
      BY <1>5 DEF RollCommit, Commit, RollStep, TypeOK, RollWork
    <2>3. QED
      BY <1>a, <2>1, <2>2 DEF OneGeneration
  <1>6. ASSUME NEW w \in RollWorkers, RollDelCache(w)
        PROVE  OneGeneration'
    <2>1. rollW[w].pc = "del" /\ advisory' = advisory
      BY <1>6 DEF RollDelCache
    <2>2. rollW'[w].pc = "idle" /\ \A v \in RollWorkers : v # w => rollW'[v] = rollW[v]
      BY <1>6 DEF RollDelCache, NoRollWork, TypeOK
    <2>3. QED
      BY <2>1, <2>2 DEF OneGeneration
  <1>7. ASSUME NEW w \in RollWorkers, RollFault(w) \/ RollCrash(w)
        PROVE  OneGeneration'
    <2>1. Release(w)
      BY <1>7 DEF RollFault, RollCrash
    <2>2. rollW' = [rollW EXCEPT ![w] = NoRollWork]
      BY <1>7 DEF RollFault, RollCrash
    <2>3. rollW'[w].pc = "idle" /\ \A v \in RollWorkers : v # w => rollW'[v] = rollW[v]
      BY <2>2 DEF NoRollWork, TypeOK
    <2>4. QED
      BY <1>a, <2>1, <2>3 DEF OneGeneration, Release
  <1>8. QED
    BY <1>1, <1>2, <1>3, <1>4, <1>5, <1>6, <1>7, RollFrame DEF Roll

\* Versions stay consecutive: only the holder of the advisory lock reads
\* MAX(version), and nobody else commits before it does.
LEMMA ConsecutiveStep ==
  ASSUME TypeOK, OneGeneration, Consecutive, [Next]_vars
  PROVE  Consecutive'
  <1>a. Len(history) \in Nat
    BY DEF TypeOK
  <1>1. CASE UNCHANGED <<rollW, advisory, history>>
    BY <1>1 DEF Consecutive
  <1>2. ASSUME NEW w \in RollWorkers, RollSaveHistory(w)
        PROVE  Consecutive'
    <2>1. history' = history
      BY <1>2 DEF RollSaveHistory, SaveHistory, dbVars
    <2>2. rollW'[w].version = Len(history) + 1
      BY <1>2, LatestIsLen DEF RollSaveHistory, SaveHistory, TypeOK, RollWork
    <2>3. \A v \in RollWorkers : v # w => rollW'[v] = rollW[v]
      BY <1>2 DEF RollSaveHistory, SaveHistory, TypeOK
    <2>4. QED
      BY <2>1, <2>2, <2>3 DEF Consecutive
  <1>3. ASSUME NEW w \in RollWorkers, RollCommit(w)
        PROVE  Consecutive'
    <2>1. rollW[w].pc = "commit" /\ rollW[w].version = Len(history) + 1
      BY <1>3 DEF RollCommit, Commit, RollStep, Consecutive
    <2>2. PICK s \in Snapshot : /\ s.version = Len(history) + 1
                               /\ history' = Append(history, s)
      BY <1>3, <2>1, CommitAppends
    <2>3. \A i \in 1 .. Len(history') : history'[i].version = i
      BY <1>a, <2>2 DEF Consecutive, TypeOK
    <2>4. \A v \in RollWorkers : rollW'[v].pc # "commit"
      <3>1. rollW'[w].pc = "del" /\ \A v \in RollWorkers : v # w => rollW'[v] = rollW[v]
        BY <1>3 DEF RollCommit, Commit, RollStep, TypeOK, RollWork
      <3>2. \A v \in RollWorkers : v # w => rollW[v].pc # "commit"
        BY <2>1 DEF OneGeneration
      <3>3. QED
        BY <3>1, <3>2
    <2>5. QED
      BY <2>3, <2>4 DEF Consecutive
  <1>4. ASSUME NEW w \in RollWorkers,
               \/ RollTake(w) \/ RollAcquire(w) \/ RollDelCache(w)
               \/ RollFault(w) \/ RollCrash(w)
        PROVE  Consecutive'
    <2>1. history' = history
      BY <1>4 DEF RollTake, RollAcquire, RollDelCache, RollFault, RollCrash, dbVars
    <2>2. rollW'[w].pc # "commit"
      BY <1>4 DEF RollTake, RollAcquire, RollStep, RollDelCache, RollFault,
                  RollCrash, NoRollWork, TypeOK, RollWork
    <2>3. \A v \in RollWorkers : v # w => rollW'[v] = rollW[v]
      BY <1>4 DEF RollTake, RollAcquire, RollStep, RollDelCache, RollFault,
                  RollCrash, TypeOK
    <2>4. QED
      BY <2>1, <2>2, <2>3 DEF Consecutive
  <1>5. QED
    BY <1>1, <1>2, <1>3, <1>4, RollFrame DEF Roll

\* A request's snapshot was read from the history, unless it read none.
LEMMA SeenStep ==
  ASSUME TypeOK, Consecutive, [Next]_vars
  PROVE  \A r \in Requests : \/ req'[r].seen = req[r].seen
                            \/ req'[r].seen \in {0, Len(history)}
  <1> USE DEF dbVars, rankVars, rollVars, reqVars
  <1>1. ASSUME NEW r \in Requests, Call(r)
        PROVE  \E q : q.seen = 0 /\ req' = [req EXCEPT ![r] = q]
    BY <1>1 DEF Call, EnterRead, PublishRead, UnpublishRead, GenerateLockCheck,
                RecalculateBegin, UnlockBegin, ReadMiss, BeginCounted, Begin
  <1>2. ASSUME NEW r \in Requests, Handle(r)
        PROVE  \/ \E pc : Goto(r, pc)
               \/ Done(r)
               \/ req' = [req EXCEPT ![r].pc = "cache_set", ![r].seen = Latest]
    BY <1>2 DEF Handle, EnterWrite, PublishSet, AutoLockCheck, AutoSkip,
                UnpublishSet, CheckFinal, CheckAdmission, Ready, NotReady,
                Unlock, AuditUnlock, Enqueue, AuditAuto, ClearCache,
                ReadSnapshot, CacheSet
  <1>3. ASSUME NEW r \in Requests, RequestFault(r)
        PROVE  Done(r)
    BY <1>3 DEF RequestFault
  <1>4. CASE \/ \E w \in RankWorkers : Rank(w) \/ RankFault(w) \/ RankCrash(w)
             \/ \E w \in RollWorkers : Roll(w) \/ RollFault(w) \/ RollCrash(w)
             \/ Promote \/ CacheExpire
             \/ \E k \in JobKinds : EvictCompleted(k)
             \/ UNCHANGED vars
    <2>1. req' = req
      BY <1>4 DEF Rank, RankTake, RankLockCheck, RankMerit, RankAdmission,
                  RankEnqueueRoll, AddRollJob, RankFinish, RankFault, RankCrash,
                  Roll, RollTake, RollAcquire, RollSaveHistory, SaveHistory,
                  RollCommit, Commit, RollDelCache, RollFault, RollCrash,
                  Promote, RankPromote, RollPromote, CacheExpire,
                  EvictCompleted, vars
    <2>2. QED
      BY <2>1
  <1>5. ASSUME NEW r \in Requests, Call(r) \/ Handle(r) \/ RequestFault(r)
        PROVE  \A q \in Requests : \/ req'[q].seen = req[q].seen
                                  \/ req'[q].seen \in {0, Len(history)}
    <2>1. CASE \E q : q.seen = 0 /\ req' = [req EXCEPT ![r] = q]
      BY <2>1 DEF TypeOK
    <2>2. CASE \E pc : Goto(r, pc)
      BY <2>2 DEF Goto, TypeOK, Request
    <2>3. CASE Done(r)
      BY <2>3 DEF Done, NoRequest, TypeOK
    <2>4. CASE req' = [req EXCEPT ![r].pc = "cache_set", ![r].seen = Latest]
      <3>1. req' = [req EXCEPT ![r] = [req[r] EXCEPT !.pc = "cache_set",
                                                     !.seen = Len(history)]]
        BY <2>4, LatestIsLen DEF TypeOK
      <3>2. [req[r] EXCEPT !.pc = "cache_set", !.seen = Len(history)].seen = Len(history)
        BY DEF TypeOK, Request
      <3>3. QED
        BY <3>1, <3>2 DEF TypeOK
    <2>5. QED
      BY <1>1, <1>2, <1>3, <1>5, <2>1, <2>2, <2>3, <2>4
  <1>6. QED
    BY <1>4, <1>5 DEF Next, Fault

\* The cache keeps its value, is dropped, or gets what a reader has seen.
LEMMA CacheStep ==
  ASSUME [Next]_vars
  PROVE  \/ cache' = cache
         \/ cache' = 0
         \/ \E r \in Requests : cache' = req[r].seen
  <1> USE DEF dbVars, rankVars, rollVars, reqVars
  <1>1. ASSUME NEW r \in Requests, Call(r)
        PROVE  cache' = cache
    BY <1>1 DEF Call, EnterRead, PublishRead, UnpublishRead, GenerateLockCheck,
                RecalculateBegin, UnlockBegin, ReadMiss
  <1>2. ASSUME NEW r \in Requests, Handle(r)
        PROVE  cache' \in {cache, 0, req[r].seen}
    BY <1>2 DEF Handle, EnterWrite, PublishSet, AutoLockCheck, AutoSkip,
                UnpublishSet, CheckFinal, CheckAdmission, Unlock, AuditUnlock,
                Enqueue, AuditAuto, ClearCache, ReadSnapshot, CacheSet
  <1>3. ASSUME NEW w \in RankWorkers, Rank(w) \/ RankFault(w) \/ RankCrash(w)
        PROVE  cache' = cache
    BY <1>3 DEF Rank, RankTake, RankLockCheck, RankMerit, RankAdmission,
                RankEnqueueRoll, AddRollJob, RankFinish, RankFault, RankCrash
  <1>4. ASSUME NEW w \in RollWorkers, Roll(w) \/ RollFault(w) \/ RollCrash(w)
        PROVE  cache' \in {cache, 0}
    BY <1>4 DEF Roll, RollTake, RollAcquire, RollSaveHistory, SaveHistory,
                RollCommit, Commit, RollDelCache, RollFault, RollCrash
  <1>5. CASE \/ Promote \/ CacheExpire
             \/ \E r \in Requests : RequestFault(r)
             \/ \E k \in JobKinds : EvictCompleted(k)
             \/ UNCHANGED vars
    BY <1>5 DEF Promote, RankPromote, RollPromote, CacheExpire, RequestFault,
                EvictCompleted, vars
  <1>6. QED
    BY <1>1, <1>2, <1>3, <1>4, <1>5 DEF Next, Fault

\* The history never shrinks.
LEMMA HistoryGrows ==
  ASSUME TypeOK, [Next]_vars
  PROVE  Len(history) \in Nat /\ Len(history') \in Nat /\ Len(history) <= Len(history')
  <1>1. ASSUME NEW w \in RollWorkers, RollCommit(w)
        PROVE  Len(history') = Len(history) + 1
    <2>1. PICK s \in Snapshot : history' = Append(history, s)
      BY <1>1, CommitAppends
    <2>2. QED
      BY <2>1 DEF TypeOK
  <1>2. QED
    BY <1>1, HistoryStep DEF TypeOK

LEMMA ServedStep ==
  ASSUME TypeOK, Consecutive, ServedCommitted, [Next]_vars
  PROVE  ServedCommitted'
  <1>1. Len(history) \in Nat /\ Len(history') \in Nat /\ Len(history) <= Len(history')
    BY HistoryGrows
  <1>2. cache \in Nat /\ \A r \in Requests : req[r].seen \in Nat
    BY DEF TypeOK, Request
  <1>3. cache' <= Len(history')
    BY <1>1, <1>2, CacheStep DEF ServedCommitted
  <1>4. ASSUME NEW r \in Requests
        PROVE  req'[r].seen <= Len(history')
    <2>1. CASE req'[r].seen = req[r].seen
      BY <1>1, <1>2, <2>1 DEF ServedCommitted
    <2>2. CASE req'[r].seen \in {0, Len(history)}
      BY <1>1, <2>2
    <2>3. QED
      BY <2>1, <2>2, SeenStep
  <1>5. QED
    BY <1>3, <1>4 DEF ServedCommitted

LEMMA InitLedgerInv == Init => LedgerInv
  <1> SUFFICES ASSUME Init
               PROVE  LedgerInv
    OBVIOUS
  <1>1. TypeOK
    BY InitType
  <1>2. OneGeneration
    BY NoneAssumption DEF Init, OneGeneration, NoRollWork
  <1>3. Consecutive
    BY DEF Init, Consecutive, NoRollWork
  <1>4. ServedCommitted
    BY DEF Init, ServedCommitted, NoRequest
  <1>5. QED
    BY <1>1, <1>2, <1>3, <1>4 DEF LedgerInv

LEMMA LedgerInvStep == LedgerInv /\ [Next]_vars => LedgerInv'
  BY TypeStep, OneGenerationStep, ConsecutiveStep, ServedStep DEF LedgerInv

\* In every reachable state the versions of ranking_history are 1, 2, 3, ...,
\* one transaction at most is between the advisory lock and COMMIT, and cached
\* rankings were committed (roll.engine.ts:61-67, 177-190).
THEOREM LedgerInvariant == Spec => []LedgerInv
  <1>1. Init => LedgerInv
    BY InitLedgerInv
  <1>2. LedgerInv /\ [Next]_vars => LedgerInv'
    BY LedgerInvStep
  <1>3. QED
    BY <1>1, <1>2, PTL DEF Spec

\* Type correctness of every variable of the pipeline.
THEOREM TypeCorrect == Spec => []TypeOK
  <1>1. LedgerInv => TypeOK
    BY DEF LedgerInv
  <1>2. QED
    BY <1>1, LedgerInvariant, PTL

\* However many roll workers there are, a worker is between the advisory lock
\* and COMMIT if and only if it is the one that holds the lock.
THEOREM OneGenerationAlways == Spec => []OneGeneration
  <1>1. LedgerInv => OneGeneration
    BY DEF LedgerInv
  <1>2. QED
    BY <1>1, LedgerInvariant, PTL

-----------------------------------------------------------------------------
(* An unlocked ranking has its audit row                                   *)

\* A row of the audit log is never taken away.
LEMMA AuditGrows ==
  ASSUME TypeOK, NEW a \in AuditActions, Count(a)
  PROVE  /\ a = "UNLOCK" => audit'["UNLOCK"] > 0
         /\ audit["UNLOCK"] > 0 => audit'["UNLOCK"] > 0
  <1>1. audit \in [AuditActions -> Nat] /\ "UNLOCK" \in AuditActions
    BY DEF TypeOK, AuditActions
  <1>2. audit' = [audit EXCEPT ![a] = audit[a] + 1]
    BY DEF Count
  <1>3. audit["UNLOCK"] \in Nat
    BY <1>1
  <1>4. audit'["UNLOCK"] = IF a = "UNLOCK" THEN audit["UNLOCK"] + 1
                           ELSE audit["UNLOCK"]
    BY <1>1, <1>2
  <1>5. QED
    BY <1>3, <1>4

\* The debt: the row is still to be written by the handler that unlocked.
AuditDue == \E r \in Requests : req[r].pc = "audit_unlock"

\* A handler that is not at its audit row leaves those that are.
LEMMA DueStays ==
  ASSUME TypeOK, NEW r \in Requests, req[r].pc # "audit_unlock",
         \A q \in Requests \ {r} : req'[q] = req[q], AuditDue
  PROVE  AuditDue'
  BY DEF AuditDue

\* What a step of a handler does to the lock, to the log and to the debt.
LEMMA UnlockHandle ==
  ASSUME TypeOK, UnlockIsAudited, NEW r \in Requests, Call(r) \/ Handle(r)
  PROVE  UnlockIsAudited'
  <1>1. req \in [Requests -> Request]
    BY DEF TypeOK
  <1>2. \A q \in Requests \ {r} : req'[q] = req[q]
    BY <1>1 DEF Call, Handle, EnterRead, PublishRead, GenerateLockCheck,
         RecalculateBegin, UnlockBegin, ReadMiss, UnpublishRead, BeginCounted,
         Begin, EnterWrite, PublishSet, AutoLockCheck, AutoSkip, UnpublishSet,
         CheckFinal, CheckAdmission, Ready, NotReady, Unlock, AuditUnlock,
         Enqueue, AuditAuto, ClearCache, ReadSnapshot, CacheSet, Goto, Done
  <1>3. history' = history /\ faults' = faults
    BY DEF Call, Handle, EnterRead, PublishRead, GenerateLockCheck,
         RecalculateBegin, UnlockBegin, ReadMiss, UnpublishRead,
         EnterWrite, PublishSet, AutoLockCheck, AutoSkip, UnpublishSet,
         CheckFinal, CheckAdmission, Unlock, AuditUnlock,
         Enqueue, AuditAuto, ClearCache, ReadSnapshot, CacheSet, dbVars
  <1>4. CASE Unlock(r)
    <2>1. req'[r].pc = "audit_unlock"
      BY <1>1, <1>4 DEF Unlock, Goto, Request
    <2>2. QED
      BY <2>1 DEF UnlockIsAudited
  <1>5. CASE AuditUnlock(r)
    <2>1. audit'["UNLOCK"] > 0
      BY <1>5, AuditGrows DEF AuditUnlock, AuditActions
    <2>2. QED
      BY <2>1 DEF UnlockIsAudited
  <1>6. CASE ~Unlock(r) /\ ~AuditUnlock(r)
    <2>1. locked' = locked
      BY <1>6 DEF Call, Handle, EnterRead, PublishRead, GenerateLockCheck,
         RecalculateBegin, UnlockBegin, ReadMiss, UnpublishRead,
         EnterWrite, PublishSet, AutoLockCheck, AutoSkip, UnpublishSet,
         CheckFinal, CheckAdmission,
         Enqueue, AuditAuto, ClearCache, ReadSnapshot, CacheSet, dbVars
    <2>2. req[r].pc # "audit_unlock"
      BY <1>6 DEF Call, Handle, EnterRead, PublishRead, GenerateLockCheck,
         RecalculateBegin, UnlockBegin, ReadMiss, UnpublishRead, BeginCounted,
         Begin, EnterWrite, PublishSet, AutoLockCheck, AutoSkip, UnpublishSet,
         CheckFinal, CheckAdmission,
         Enqueue, AuditAuto, ClearCache, ReadSnapshot, CacheSet
    <2>3. \/ audit' = audit
          \/ Count("AUTO_TRIGGER_SKIP") \/ Count("AUTO_TRIGGER")
      BY <1>6 DEF Call, Handle, EnterRead, PublishRead, GenerateLockCheck,
         RecalculateBegin, UnlockBegin, ReadMiss, UnpublishRead,
         EnterWrite, PublishSet, AutoLockCheck, AutoSkip, UnpublishSet,
         CheckFinal, CheckAdmission,
         Enqueue, AuditAuto, ClearCache, ReadSnapshot, CacheSet, dbVars
    <2>4. audit["UNLOCK"] > 0 => audit'["UNLOCK"] > 0
      BY <2>3, AuditGrows DEF AuditActions
    <2>5. AuditDue => AuditDue'
      BY <1>2, <2>2, DueStays
    <2>6. QED
      BY <1>3, <2>1, <2>4, <2>5 DEF UnlockIsAudited, AuditDue
  <1>7. QED
    BY <1>4, <1>5, <1>6

LEMMA UnlockStep ==
  ASSUME TypeOK, UnlockIsAudited, [Next]_vars
  PROVE  UnlockIsAudited'
  <1>1. CASE UNCHANGED <<dbVars, req, faults>>
    BY <1>1 DEF dbVars, UnlockIsAudited
  <1>2. ASSUME NEW r \in Requests, Call(r) \/ Handle(r)
        PROVE  UnlockIsAudited'
    BY <1>2, UnlockHandle
  <1>3. ASSUME NEW w \in RankWorkers, Rank(w)
        PROVE  UNCHANGED <<dbVars, req, faults>>
    BY <1>3 DEF Rank, RankTake, RankLockCheck, RankMerit, RankAdmission,
                RankEnqueueRoll, AddRollJob, RankFinish, reqVars
  <1>4. ASSUME NEW w \in RollWorkers, Roll(w)
        PROVE  UnlockIsAudited'
    <2>1. CASE RollCommit(w)
      BY <2>1 DEF RollCommit, Commit, UnlockIsAudited
    <2>2. CASE ~RollCommit(w)
      BY <1>1, <1>4, <2>2 DEF Roll, RollTake, RollAcquire, RollSaveHistory,
         SaveHistory, RollDelCache, reqVars
    <2>3. QED
      BY <2>1, <2>2
  <1>5. CASE Promote \/ CacheExpire \/ \E k \in JobKinds : EvictCompleted(k)
    BY <1>1, <1>5 DEF Promote, RankPromote, RollPromote, CacheExpire,
       EvictCompleted, reqVars
  <1>6. CASE Fault
    <2>1. faults' = faults + 1
      BY <1>6 DEF Fault, RequestFault, RankFault, RankCrash, RollFault, RollCrash
    <2>2. QED
      BY <2>1 DEF TypeOK, UnlockIsAudited
  <1>7. CASE UNCHANGED vars
    BY <1>1, <1>7 DEF vars, reqVars
  <1>8. QED
    BY <1>1, <1>2, <1>3, <1>4, <1>5, <1>6, <1>7 DEF Next

\* Without faults, a generated ranking that is unlocked has its UNLOCK row or a
\* handler that is about to write it, for any number of requests and generations
\* (ranking.service.ts:231-240, 266-273).
THEOREM UnlockAlwaysAudited == Spec => []UnlockIsAudited
  <1>1. Init => UnlockIsAudited
    BY DEF Init, UnlockIsAudited
  <1>2. LedgerInv => TypeOK
    BY DEF LedgerInv
  <1>3. TypeOK /\ UnlockIsAudited /\ [Next]_vars => UnlockIsAudited'
    BY UnlockStep
  <1>4. QED
    BY <1>1, <1>2, <1>3, LedgerInvariant, PTL DEF Spec

-----------------------------------------------------------------------------
(* No publish misses its trigger                                           *)

AllPublished ==
  /\ status["FINAL"] = "PUBLISHED"
  /\ AdmissionEnabled => status["ADMISSION"] = "PUBLISHED"

Triggered == rollJobs # <<>> \/ \E k \in JobKinds : rankJob[k].state # "none"

\* A publish that will look at the exams and, if all are there, add the job.
OnItsWay(r) ==
  /\ req[r].kind = "publish"
  /\ req[r].pc \in {"auto_lock", "ready_final", "ready_admission", "enqueue"}
  /\ req[r].pc = "ready_admission" => AdmissionEnabled

\* What can take a ranking job away, or make a publish skip, comes after a roll
\* job; and only a publish is about to set a status.
RollsCameFirst ==
  /\ locked => rollJobs # <<>>
  /\ \A k \in JobKinds : rankJob[k].state = "completed" => rollJobs # <<>>
  /\ \A w \in RankWorkers : rankW[w].pc = "finish" => rollJobs # <<>>
  /\ \A r \in Requests : req[r].pc = "pub_set" => req[r].kind = "publish"

TriggerDue ==
  AllPublished /\ faults = 0 => Triggered \/ \E r \in Requests : OnItsWay(r)

LEMMA AppendNotEmpty ==
  ASSUME NEW S, NEW s \in Seq(S), NEW x
  PROVE  Append(s, x) # <<>>
  <1>1. Len(s) \in Nat /\ Len(s) + 1 \in DOMAIN Append(s, x)
    OBVIOUS
  <1>2. QED
    BY <1>1

\* The roll queue only grows.
LEMMA RollsGrow ==
  ASSUME TypeOK, [Next]_vars, rollJobs # <<>>
  PROVE  rollJobs' # <<>>
  <1>1. rollJobs \in Seq(RollJob) /\ Len(rollJobs) > 0 /\ 1 \in DOMAIN rollJobs
    BY DEF TypeOK
  <1>2. \/ rollJobs' = rollJobs
        \/ \E x : rollJobs' = Append(rollJobs, x)
        \/ DOMAIN rollJobs' = DOMAIN rollJobs
    <2>1. ASSUME NEW r \in Requests, Call(r) \/ Handle(r)
          PROVE  rollJobs' = rollJobs
      BY <2>1 DEF Call, Handle, EnterRead, PublishRead, GenerateLockCheck,
         RecalculateBegin, UnlockBegin, ReadMiss, UnpublishRead,
         EnterWrite, PublishSet, AutoLockCheck, AutoSkip, UnpublishSet,
         CheckFinal, CheckAdmission, Unlock, AuditUnlock,
         Enqueue, AuditAuto, ClearCache, ReadSnapshot, CacheSet, rollVars
    <2>2. ASSUME NEW w \in RankWorkers, Rank(w)
          PROVE  \/ rollJobs' = rollJobs
                 \/ \E x : rollJobs' = Append(rollJobs, x)
      BY <2>2 DEF Rank, RankTake, RankLockCheck, RankMerit, RankAdmission,
                  RankEnqueueRoll, AddRollJob, RankFinish, rollVars
    <2>3. ASSUME NEW w \in RollWorkers, Roll(w) \/ RollFault(w) \/ RollCrash(w)
          PROVE  DOMAIN rollJobs' = DOMAIN rollJobs
      BY <1>1, <2>3 DEF Roll, RollTake, RollAcquire, RollSaveHistory, SaveHistory,
         RollCommit, Commit, RollDelCache, RollFault, RollCrash
    <2>4. CASE Promote
      BY <1>1, <2>4 DEF Promote, RankPromote, RollPromote, rollVars
    <2>5. CASE \/ CacheExpire
               \/ \E k \in JobKinds : EvictCompleted(k)
               \/ \E r \in Requests : RequestFault(r)
               \/ \E w \in RankWorkers : RankFault(w) \/ RankCrash(w)
               \/ UNCHANGED vars
      BY <2>5 DEF CacheExpire, EvictCompleted, RequestFault, RankFault, RankCrash,
         rollVars, vars
    <2>6. QED
      BY <2>1, <2>2, <2>3, <2>4, <2>5 DEF Next, Fault
  <1>3. CASE rollJobs' = rollJobs
    BY <1>3
  <1>4. ASSUME NEW x, rollJobs' = Append(rollJobs, x)
        PROVE  rollJobs' # <<>>
    BY <1>1, <1>4, AppendNotEmpty
  <1>5. CASE DOMAIN rollJobs' = DOMAIN rollJobs
    <2>1. 1 \in DOMAIN rollJobs'
      BY <1>1, <1>5
    <2>2. QED
      BY <2>1
  <1>6. QED
    BY <1>2, <1>3, <1>4, <1>5

\* The steps of the handlers.
LEMMA RollsFirstHandle ==
  ASSUME TypeOK, RollsCameFirst, NEW r \in Requests, Call(r) \/ Handle(r)
  PROVE  RollsCameFirst'
  <1>1. UNCHANGED <<rollJobs, rankW>> /\ (locked' => locked)
    BY DEF Call, Handle, EnterRead, PublishRead, GenerateLockCheck,
         RecalculateBegin, UnlockBegin, ReadMiss, UnpublishRead,
         EnterWrite, PublishSet, AutoLockCheck, AutoSkip, UnpublishSet,
         CheckFinal, CheckAdmission, Unlock, AuditUnlock,
         Enqueue, AuditAuto, ClearCache, ReadSnapshot, CacheSet, dbVars,
         rankVars, rollVars
  <1>2. rankJob' = rankJob \/ \E k \in JobKinds : AddRankJob(k)
    BY DEF Call, Handle, EnterRead, PublishRead, GenerateLockCheck,
         RecalculateBegin, UnlockBegin, ReadMiss, UnpublishRead,
         EnterWrite, PublishSet, AutoLockCheck, AutoSkip, UnpublishSet,
         CheckFinal, CheckAdmission, Unlock, AuditUnlock, JobIdOf, JobKinds,
         Enqueue, AuditAuto, ClearCache, ReadSnapshot, CacheSet, rankVars
  <1>3. ASSUME NEW k \in JobKinds, rankJob'[k].state = "completed"
        PROVE  rollJobs # <<>>
    <2>1. rankJob[k].state = "completed"
      BY <1>2, <1>3 DEF AddRankJob, NoJob, TypeOK, Job
    <2>2. QED
      BY <2>1 DEF RollsCameFirst
  <1>4. ASSUME NEW q \in Requests, req'[q].pc = "pub_set"
        PROVE  req'[q].kind = "publish"
    <2>1. req \in [Requests -> Request]
      BY DEF TypeOK
    <2>2. CASE Call(r)
      BY <1>4, <2>1, <2>2 DEF Call, EnterRead, PublishRead, GenerateLockCheck,
         RecalculateBegin, UnlockBegin, ReadMiss, UnpublishRead, BeginCounted,
         Begin, RollsCameFirst
    <2>3. CASE Handle(r)
      <3>1. req'[q] = req[q] \/ req'[q].pc # "pub_set"
        <4>1. CASE EnterWrite(r) \/ PublishSet(r) \/ AutoLockCheck(r) \/ AutoSkip(r)
                   \/ UnpublishSet(r) \/ Unlock(r) \/ AuditUnlock(r)
          BY <2>1, <4>1 DEF EnterWrite, PublishSet, AutoLockCheck, AutoSkip,
             UnpublishSet, Unlock, AuditUnlock, Goto, Done, NoRequest, Request
        <4>2. CASE CheckFinal(r) \/ CheckAdmission(r)
          BY <2>1, <4>2 DEF CheckFinal, CheckAdmission, Ready, NotReady, Goto,
             Done, NoRequest, Request
        <4>3. CASE Enqueue(r) \/ AuditAuto(r) \/ ClearCache(r)
                   \/ ReadSnapshot(r) \/ CacheSet(r)
          BY <2>1, <4>3 DEF Enqueue, AuditAuto, ClearCache, ReadSnapshot,
             CacheSet, Goto, Done, NoRequest, Request
        <4>4. QED
          BY <2>3, <4>1, <4>2, <4>3 DEF Handle
      <3>2. QED
        BY <1>4, <3>1 DEF RollsCameFirst
    <2>4. QED
      BY <2>2, <2>3
  <1>5. QED
    BY <1>1, <1>3, <1>4 DEF RollsCameFirst

\* The steps of the ranking queue.
LEMMA RollsFirstRank ==
  ASSUME TypeOK, RollsCameFirst, NEW w \in RankWorkers,
         Rank(w) \/ RankFault(w) \/ RankCrash(w), rollJobs' = <<>>
  PROVE  RollsCameFirst'
  <1>1. locked' = locked /\ req' = req
    BY DEF Rank, RankTake, RankLockCheck, RankMerit, RankAdmission,
           RankEnqueueRoll, AddRollJob, RankFinish, RankFault, RankCrash,
           dbVars, reqVars
  <1>2. rankW[w].job \in JobKinds /\ rankWait \in Seq(JobKinds)
    BY DEF TypeOK, RankWork
  <1>3. ~RankEnqueueRoll(w)
    <2>1. SUFFICES ASSUME RankEnqueueRoll(w) PROVE FALSE
      OBVIOUS
    <2>2. PICK x : rollJobs' = Append(rollJobs, x)
      BY <2>1 DEF RankEnqueueRoll, AddRollJob
    <2>3. QED
      BY <2>2, AppendNotEmpty DEF TypeOK
  <1>4. rollJobs = <<>>
    BY <1>3 DEF Rank, RankTake, RankLockCheck, RankMerit, RankAdmission,
       RankFinish, RankFault, RankCrash, rollVars
  <1>5. ~RankFinish(w)
    BY <1>4 DEF RankFinish, RollsCameFirst
  <1>6. \A k \in JobKinds : rankJob'[k].state # "completed"
    <2>1. \A k \in JobKinds : rankJob[k].state # "completed"
      BY <1>4 DEF RollsCameFirst
    <2>2. rankJob \in [JobKinds -> Job]
      BY DEF TypeOK
    <2>3. CASE RankTake(w)
      <3>1. Head(rankWait) \in JobKinds
        BY <1>2, <2>3 DEF RankTake
      <3>2. QED
        BY <2>1, <2>2, <2>3, <3>1 DEF RankTake, Job
    <2>4. CASE RankThrows(w)
      <3>1. PICK n \in Nat, st \in {"delayed", "failed"} :
              rankJob' = [rankJob EXCEPT ![rankW[w].job].attempts = n,
                                         ![rankW[w].job].state = st]
        BY <2>4, ThrownJob
      <3>2. QED
        BY <1>2, <2>1, <2>2, <3>1 DEF Job
    <2>5. CASE RankCrash(w)
      <3>1. PICK st \in {"waiting", "failed"}, n \in {1, rankJob[rankW[w].job].stalls} :
              rankJob' = [rankJob EXCEPT ![rankW[w].job].state = st,
                                         ![rankW[w].job].stalls = n]
        BY <1>2, <2>2, <2>5 DEF RankCrash, Job
      <3>2. QED
        BY <1>2, <2>1, <2>2, <3>1 DEF Job
    <2>6. CASE rankJob' = rankJob
      BY <2>1, <2>6
    <2>7. QED
      BY <1>3, <1>5, <2>3, <2>4, <2>5, <2>6 DEF Rank, RankLockCheck, RankMerit,
         RankAdmission, RankFault
  <1>7. \A v \in RankWorkers : rankW'[v].pc # "finish"
    <2>1. \A v \in RankWorkers : rankW[v].pc # "finish"
      BY <1>4 DEF RollsCameFirst
    <2>2. rankW \in [RankWorkers -> RankWork]
      BY DEF TypeOK
    <2>3. CASE RankTake(w)
      BY <2>1, <2>2, <2>3 DEF RankTake, NoRankWork
    <2>4. CASE RankLockCheck(w) \/ RankMerit(w) \/ RankAdmission(w)
      <3>1. CASE RankThrows(w)
        BY <2>1, <2>2, <3>1 DEF RankThrows, NoRankWork
      <3>2. CASE RankLockCheck(w) /\ ~RankThrows(w)
        BY <2>1, <2>2, <3>2 DEF RankLockCheck, RankStep, RankWork
      <3>3. CASE RankMerit(w) /\ ~RankThrows(w)
        BY <2>1, <2>2, <3>3 DEF RankMerit, RankWork
      <3>4. CASE RankAdmission(w) /\ ~RankThrows(w)
        BY <2>1, <2>2, <3>4 DEF RankAdmission, RankWork
      <3>5. QED
        BY <2>4, <3>1, <3>2, <3>3, <3>4
    <2>5. CASE RankFault(w) \/ RankCrash(w)
      BY <2>1, <2>2, <2>5 DEF RankFault, RankCrash, RankThrows, NoRankWork
    <2>6. QED
      BY <1>3, <1>5, <2>3, <2>4, <2>5 DEF Rank
  <1>8. QED
    BY <1>1, <1>4, <1>6, <1>7 DEF RollsCameFirst

LEMMA RollsFirstStep ==
  ASSUME TypeOK, RollsCameFirst, [Next]_vars
  PROVE  RollsCameFirst'
  <1>1. CASE UNCHANGED <<rollJobs, locked, rankJob, rankW, req>>
    BY <1>1 DEF RollsCameFirst
  <1>2. ASSUME NEW r \in Requests, Call(r) \/ Handle(r)
        PROVE  RollsCameFirst'
    BY <1>2, RollsFirstHandle
  <1>a. req' = req \/ \E r \in Requests : Call(r) \/ Handle(r) \/ RequestFault(r)
    BY DEF Next, Rank, RankTake, RankLockCheck, RankMerit, RankAdmission,
           RankEnqueueRoll, AddRollJob, RankFinish, RankFault, RankCrash,
           Roll, RollTake, RollAcquire, RollSaveHistory, SaveHistory, RollCommit,
           Commit, RollDelCache, RollFault, RollCrash, Promote, RankPromote,
           RollPromote, Fault, CacheExpire, EvictCompleted, vars, reqVars
  <1>3. CASE rollJobs' # <<>> /\ req' = req
    BY <1>3 DEF RollsCameFirst
  <1>4. ASSUME NEW w \in RankWorkers, Rank(w) \/ RankFault(w) \/ RankCrash(w)
        PROVE  RollsCameFirst'
    <2>1. req' = req
      BY <1>4 DEF Rank, RankTake, RankLockCheck, RankMerit, RankAdmission,
         RankEnqueueRoll, AddRollJob, RankFinish, RankFault, RankCrash, reqVars
    <2>2. QED
      BY <1>3, <1>4, <2>1, RollsFirstRank
  <1>5. ASSUME NEW w \in RollWorkers, Roll(w) \/ RollFault(w) \/ RollCrash(w)
        PROVE  RollsCameFirst'
    <2>1. rollJobs # <<>>
      BY <1>5 DEF TypeOK, Roll, RollTake, RollAcquire, RollSaveHistory,
         SaveHistory, RollCommit, Commit, RollStep, RollDelCache, RollFault,
         RollCrash
    <2>2. req' = req
      BY <1>5 DEF Roll, RollTake, RollAcquire, RollSaveHistory,
         SaveHistory, RollCommit, Commit, RollDelCache, RollFault,
         RollCrash, reqVars
    <2>3. QED
      BY <1>3, <2>1, <2>2, RollsGrow
  <1>6. ASSUME NEW k \in JobKinds, RankPromote(k) \/ EvictCompleted(k)
        PROVE  RollsCameFirst'
    <2>1. UNCHANGED <<rollJobs, locked, rankW, req>>
      BY <1>6 DEF RankPromote, EvictCompleted, dbVars, rollVars, reqVars
    <2>2. \A j \in JobKinds :
            rankJob'[j].state = "completed" => rankJob[j].state = "completed"
      BY <1>6 DEF RankPromote, EvictCompleted, NoJob, TypeOK, Job
    <2>3. QED
      BY <2>1, <2>2 DEF RollsCameFirst
  <1>7. ASSUME NEW j \in DOMAIN rollJobs, RollPromote(j)
        PROVE  RollsCameFirst'
    <2>1. rollJobs # <<>>
      BY <1>7 DEF TypeOK
    <2>2. req' = req
      BY <1>7 DEF RollPromote, reqVars
    <2>3. QED
      BY <1>3, <2>1, <2>2, RollsGrow
  <1>8. ASSUME NEW r \in Requests, RequestFault(r)
        PROVE  RollsCameFirst'
    BY <1>8 DEF RequestFault, Done, NoRequest, RollsCameFirst, TypeOK, dbVars,
       rankVars, rollVars
  <1>9. CASE CacheExpire \/ UNCHANGED vars
    BY <1>1, <1>9 DEF CacheExpire, vars, dbVars, rankVars, rollVars, reqVars
  <1>10. QED
    BY <1>2, <1>4, <1>5, <1>6, <1>7, <1>8, <1>9 DEF Next, Promote, Fault

\* A publish on its way stays on it until it has added the job, and a publish
\* that makes the exams complete is on its way.
LEMMA DueHandle ==
  ASSUME TypeOK, RollsCameFirst, TriggerDue, NEW r \in Requests,
         Call(r) \/ Handle(r), AllPublished', faults' = 0, ~Triggered
  PROVE  Triggered' \/ \E q \in Requests : OnItsWay(q)'
  <1>1. req \in [Requests -> Request] /\ rankJob \in [JobKinds -> Job]
    BY DEF TypeOK
  <1>2. ~locked
    BY DEF RollsCameFirst, Triggered
  <1>3. \A q \in Requests \ {r} : req'[q] = req[q]
    BY <1>1 DEF Call, Handle, EnterRead, PublishRead, GenerateLockCheck,
         RecalculateBegin, UnlockBegin, ReadMiss, UnpublishRead, BeginCounted,
         Begin, EnterWrite, PublishSet, AutoLockCheck, AutoSkip, UnpublishSet,
         CheckFinal, CheckAdmission, Ready, NotReady, Unlock, AuditUnlock,
         Enqueue, AuditAuto, ClearCache, ReadSnapshot, CacheSet, Goto, Done
  <1>4. faults = 0
    BY DEF Call, Handle, EnterRead, PublishRead, GenerateLockCheck,
         RecalculateBegin, UnlockBegin, ReadMiss, UnpublishRead,
         EnterWrite, PublishSet, AutoLockCheck, AutoSkip, UnpublishSet,
         CheckFinal, CheckAdmission, Unlock, AuditUnlock,
         Enqueue, AuditAuto, ClearCache, ReadSnapshot, CacheSet
  <1>5. CASE PublishSet(r)
    <2>1. req'[r].kind = "publish" /\ req'[r].pc = "auto_lock"
      BY <1>1, <1>5 DEF PublishSet, Goto, RollsCameFirst, Request
    <2>2. QED
      BY <2>1 DEF OnItsWay
  <1>6. CASE Enqueue(r)
    <2>1. JobIdOf(r) \in JobKinds
      BY DEF JobIdOf, JobKinds
    <2>2. rankJob'[JobIdOf(r)].state # "none"
      BY <1>1, <1>6, <2>1 DEF Enqueue, AddRankJob, NoJob, Job
    <2>3. QED
      BY <2>1, <2>2 DEF Triggered
  <1>7. CASE ~PublishSet(r) /\ ~Enqueue(r)
    <2>1. AllPublished
      <3>1. CASE UnpublishSet(r)
        <4>1. req[r].exam \in Exams /\ status \in [Exams -> {"DRAFT", "PUBLISHED"}]
          BY <1>1 DEF Request, TypeOK
        <4>2. \A e \in Exams : status'[e] = "PUBLISHED" => status[e] = "PUBLISHED"
          BY <3>1, <4>1 DEF UnpublishSet
        <4>3. QED
          BY <4>2 DEF AllPublished, Exams
      <3>2. CASE status' = status
        BY <3>2 DEF AllPublished
      <3>3. QED
        BY <1>7, <3>1, <3>2 DEF Call, Handle, EnterRead, PublishRead,
           GenerateLockCheck, RecalculateBegin, UnlockBegin, ReadMiss,
           UnpublishRead, EnterWrite, AutoLockCheck, AutoSkip, CheckFinal,
           CheckAdmission, Unlock, AuditUnlock, AuditAuto, ClearCache,
           ReadSnapshot, CacheSet, dbVars
    <2>2. PICK p \in Requests : OnItsWay(p)
      BY <1>4, <2>1 DEF TriggerDue
    <2>3. CASE p # r
      BY <1>3, <2>2, <2>3 DEF OnItsWay
    <2>4. CASE p = r
      <3>1. AutoLockCheck(r) \/ CheckFinal(r) \/ CheckAdmission(r)
        BY <1>7, <2>2, <2>4 DEF OnItsWay, Call, Handle, EnterRead, PublishRead,
           GenerateLockCheck, RecalculateBegin, UnlockBegin, ReadMiss,
           UnpublishRead, BeginCounted, Begin, EnterWrite, AutoSkip,
           UnpublishSet, Unlock, AuditUnlock, AuditAuto, ClearCache,
           ReadSnapshot, CacheSet
      <3>2. req[r].kind = "publish"
        BY <2>2, <2>4 DEF OnItsWay
      <3>3. PICK pc \in {"ready_final", "ready_admission", "enqueue"} :
              Goto(r, pc) /\ (pc = "ready_admission" => AdmissionEnabled)
        <4>1. CASE AutoLockCheck(r)
          BY <1>2, <4>1 DEF AutoLockCheck
        <4>2. CASE CheckFinal(r)
          BY <2>1, <3>2, <4>2 DEF CheckFinal, AllPublished, Ready
        <4>3. CASE CheckAdmission(r)
          <5>1. AdmissionEnabled
            BY <2>2, <2>4, <4>3 DEF CheckAdmission, OnItsWay
          <5>2. QED
            BY <2>1, <3>2, <4>3, <5>1 DEF CheckAdmission, AllPublished, Ready
        <4>4. QED
          BY <3>1, <4>1, <4>2, <4>3
      <3>4. req'[r].kind = "publish" /\ req'[r].pc = pc
        BY <1>1, <3>2, <3>3 DEF Goto, Request
      <3>5. QED
        BY <3>3, <3>4 DEF OnItsWay
    <2>5. QED
      BY <2>3, <2>4
  <1>8. QED
    BY <1>5, <1>6, <1>7


\* Only the eviction of a completed job makes its jobId free again.
LEMMA StateKept ==
  ASSUME TypeOK, [Next]_vars, NEW k \in JobKinds, rankJob[k].state # "none",
         ~EvictCompleted(k)
  PROVE  rankJob'[k].state # "none"
  <1>1. rankJob \in [JobKinds -> Job]
    BY DEF TypeOK
  <1>2. CASE rankJob' = rankJob
    BY <1>2
  <1>3. ASSUME NEW j \in JobKinds, AddRankJob(j)
        PROVE  rankJob'[k].state # "none"
    BY <1>1, <1>3 DEF AddRankJob, NoJob, Job
  <1>4. ASSUME NEW w \in RankWorkers, Rank(w) \/ RankFault(w) \/ RankCrash(w)
        PROVE  rankJob'[k].state # "none"
    <2>1. rankW[w].job \in JobKinds /\ rankWait \in Seq(JobKinds)
      BY DEF TypeOK, RankWork
    <2>2. CASE RankThrows(w)
      <3>1. PICK n \in Nat, st \in {"delayed", "failed"} :
              rankJob' = [rankJob EXCEPT ![rankW[w].job].attempts = n,
                                         ![rankW[w].job].state = st]
        BY <2>2, ThrownJob
      <3>2. QED
        BY <1>1, <2>1, <3>1 DEF Job
    <2>3. CASE RankTake(w)
      <3>1. Head(rankWait) \in JobKinds
        BY <2>1, <2>3 DEF RankTake
      <3>2. QED
        BY <1>1, <2>3, <3>1 DEF RankTake, Job
    <2>4. CASE RankFinish(w)
      BY <1>1, <2>1, <2>4 DEF RankFinish, Job
    <2>5. CASE RankCrash(w)
      <3>1. PICK st \in {"waiting", "failed"}, n \in {1, rankJob[rankW[w].job].stalls} :
              rankJob' = [rankJob EXCEPT ![rankW[w].job].state = st,
                                         ![rankW[w].job].stalls = n]
        BY <1>1, <2>1, <2>5 DEF RankCrash, Job
      <3>2. QED
        BY <1>1, <2>1, <3>1 DEF Job
    <2>6. QED
      BY <1>2, <1>4, <2>2, <2>3, <2>4, <2>5 DEF Rank, RankLockCheck, RankMerit,
         RankAdmission, RankEnqueueRoll, AddRollJob, RankFault
  <1>5. ASSUME NEW j \in JobKinds, RankPromote(j) \/ EvictCompleted(j)
        PROVE  rankJob'[k].state # "none"
    BY <1>1, <1>5 DEF RankPromote, EvictCompleted, Job
  <1>6. ASSUME NEW r \in Requests, Call(r) \/ Handle(r) \/ RequestFault(r)
        PROVE  rankJob' = rankJob \/ \E j \in JobKinds : AddRankJob(j)
    BY <1>6 DEF Call, Handle, EnterRead, PublishRead, GenerateLockCheck,
         RecalculateBegin, UnlockBegin, ReadMiss, UnpublishRead,
         EnterWrite, PublishSet, AutoLockCheck, AutoSkip, UnpublishSet,
         CheckFinal, CheckAdmission, Unlock, AuditUnlock, JobIdOf, JobKinds,
         Enqueue, AuditAuto, ClearCache, ReadSnapshot, CacheSet, RequestFault,
         rankVars
  <1>7. CASE \/ \E w \in RollWorkers : Roll(w) \/ RollFault(w) \/ RollCrash(w)
             \/ \E j \in DOMAIN rollJobs : RollPromote(j)
             \/ CacheExpire \/ UNCHANGED vars
    BY <1>2, <1>7 DEF Roll, RollTake, RollAcquire, RollSaveHistory, SaveHistory,
       RollCommit, Commit, RollDelCache, RollFault, RollCrash, RollPromote,
       CacheExpire, vars, rankVars
  <1>8. QED
    BY <1>2, <1>3, <1>4, <1>5, <1>6, <1>7 DEF Next, Promote, Fault

LEMMA TriggerStep ==
  ASSUME TypeOK, RollsCameFirst, TriggerDue, [Next]_vars
  PROVE  TriggerDue'
  <1>1. SUFFICES ASSUME AllPublished', faults' = 0
                 PROVE  Triggered' \/ \E r \in Requests : OnItsWay(r)'
    BY DEF TriggerDue
  <1>2. CASE Triggered /\ ~\E k \in JobKinds : EvictCompleted(k)
    <2>1. CASE rollJobs # <<>>
      BY <2>1, RollsGrow DEF Triggered
    <2>2. CASE \E k \in JobKinds : rankJob[k].state # "none"
      <3>1. PICK k \in JobKinds : rankJob[k].state # "none"
        BY <2>2
      <3>2. rankJob'[k].state # "none"
        BY <1>2, <3>1, StateKept
      <3>3. QED
        BY <3>2 DEF Triggered
    <2>3. QED
      BY <1>2, <2>1, <2>2 DEF Triggered
  <1>3. ASSUME NEW k \in JobKinds, EvictCompleted(k)
        PROVE  Triggered'
    <2>1. rollJobs # <<>>
      BY <1>3 DEF EvictCompleted, RollsCameFirst
    <2>2. QED
      BY <2>1, RollsGrow DEF Triggered
  <1>4. CASE ~Triggered
    <2>1. ASSUME NEW r \in Requests, Call(r) \/ Handle(r)
          PROVE  Triggered' \/ \E q \in Requests : OnItsWay(q)'
      BY <1>1, <1>4, <2>1, DueHandle
    <2>2. CASE Fault
      <3>1. faults' = faults + 1
        BY <2>2 DEF Fault, RequestFault, RankFault, RankCrash, RollFault, RollCrash
      <3>2. QED
        BY <1>1, <3>1 DEF TypeOK
    <2>3. CASE UNCHANGED <<status, faults, req>>
      <3>1. AllPublished /\ faults = 0
        BY <1>1, <2>3 DEF AllPublished
      <3>2. PICK r \in Requests : OnItsWay(r)
        BY <1>4, <3>1 DEF TriggerDue
      <3>3. OnItsWay(r)'
        BY <2>3, <3>2 DEF OnItsWay
      <3>4. QED
        BY <3>3
    <2>4. CASE \/ \E w \in RankWorkers : Rank(w)
               \/ \E w \in RollWorkers : Roll(w)
               \/ Promote \/ CacheExpire \/ UNCHANGED vars
               \/ \E k \in JobKinds : EvictCompleted(k)
      BY <2>3, <2>4 DEF Rank, RankTake, RankLockCheck, RankMerit, RankAdmission,
         RankEnqueueRoll, AddRollJob, RankFinish, Roll, RollTake, RollAcquire,
         RollSaveHistory, SaveHistory, RollCommit, Commit, RollDelCache, Promote,
         RankPromote, RollPromote, CacheExpire, EvictCompleted, vars, dbVars,
         reqVars
    <2>5. QED
      BY <2>1, <2>2, <2>4 DEF Next
  <1>5. QED
    BY <1>2, <1>3, <1>4

\* When FINAL, and ADMISSION if it is used, are published, nothing failed and no
\* request is under way, then some publish has queued the ranking: for any
\* number of publishes, however they overlap (exam.service.ts:161-172).
THEOREM NoTriggerIsMissed == Spec => []NoMissedTrigger
  <1>1. Init => RollsCameFirst /\ TriggerDue
    BY DEF Init, RollsCameFirst, TriggerDue, AllPublished, NoJob, NoRankWork,
           NoRequest, Exams
  <1>2. LedgerInv => TypeOK
    BY DEF LedgerInv
  <1>3. TypeOK /\ RollsCameFirst /\ TriggerDue /\ [Next]_vars
          => RollsCameFirst' /\ TriggerDue'
    BY RollsFirstStep, TriggerStep
  <1>4. TypeOK /\ TriggerDue => NoMissedTrigger
    BY DEF TriggerDue, NoMissedTrigger, AllPublished, Triggered, OnItsWay, InFlight
  <1>5. QED
    BY <1>1, <1>2, <1>3, <1>4, LedgerInvariant, PTL DEF Spec

-----------------------------------------------------------------------------
(* A roll job is in one place at a time                                    *)

Busy(w) == rollW[w].pc # "idle"

\* A waiting job is in the wait list once, a busy worker has an active one, and
\* no two workers have the same.
OnePlace ==
  /\ \A k \in DOMAIN rollWait : rollJobs[rollWait[k]].state = "waiting"
  /\ \A k, l \in DOMAIN rollWait : rollWait[k] = rollWait[l] => k = l
  /\ \A w \in RollWorkers : Busy(w) => rollJobs[rollW[w].job].state = "active"
  /\ \A v, w \in RollWorkers :
       Busy(v) /\ Busy(w) /\ rollW[v].job = rollW[w].job => v = w

\* A worker gives job j back, or ends it, and goes idle.
Gives(w, j, s) ==
  /\ Busy(w) /\ rollW[w].job = j
  /\ rollW' = [rollW EXCEPT ![w] = NoRollWork]
  /\ DOMAIN rollJobs' = DOMAIN rollJobs
  /\ rollJobs'[j].state = s
  /\ \A i \in DOMAIN rollJobs \ {j} : rollJobs'[i].state = rollJobs[i].state

LEMMA QueueTypes ==
  ASSUME TypeOK
  PROVE  /\ DOMAIN rollJobs = 1 .. Len(rollJobs) /\ Len(rollJobs) \in Nat
         /\ DOMAIN rollWait = 1 .. Len(rollWait) /\ Len(rollWait) \in Nat
         /\ \A k \in DOMAIN rollWait : rollWait[k] \in DOMAIN rollJobs
         /\ \A w \in RollWorkers : Busy(w) => rollW[w].job \in DOMAIN rollJobs
         /\ rollW \in [RollWorkers -> RollWork]
         /\ \A j \in DOMAIN rollJobs : rollJobs[j] \in RollJob
  BY DEF TypeOK, Busy

\* Taking a job: the head of the list, and the rest one place further.
LEMMA TakeForm ==
  ASSUME TypeOK, NEW w \in RollWorkers, RollTake(w)
  PROVE  /\ 1 \in DOMAIN rollWait /\ Len(rollWait') = Len(rollWait) - 1
         /\ DOMAIN rollWait' = 1 .. (Len(rollWait) - 1)
         /\ \A k \in DOMAIN rollWait' :
              k + 1 \in DOMAIN rollWait /\ rollWait'[k] = rollWait[k + 1]
         /\ rollW' = [rollW EXCEPT ![w] =
                        [pc |-> "acquire", job |-> rollWait[1], version |-> 0]]
         /\ rollJobs' = [rollJobs EXCEPT ![rollWait[1]].state = "active"]
         /\ ~Busy(w)
  <1>1. rollWait \in Seq(1 .. Len(rollJobs)) /\ rollWait # <<>>
    BY DEF RollTake, TypeOK
  <1>2. Head(rollWait) = rollWait[1] /\ rollWait' = Tail(rollWait)
    BY <1>1 DEF RollTake
  <1>3. QED
    BY <1>1, <1>2 DEF RollTake, Busy

\* Where the state of each job goes when one of them changes.
LEMMA OneStateChanges ==
  ASSUME TypeOK, NEW j \in DOMAIN rollJobs, NEW s, NEW n, NEW m,
         \/ rollJobs' = [rollJobs EXCEPT ![j].state = s]
         \/ rollJobs' = [rollJobs EXCEPT ![j].attempts = n, ![j].state = s]
         \/ rollJobs' = [rollJobs EXCEPT ![j].state = s, ![j].stalls = m]
  PROVE  /\ DOMAIN rollJobs' = DOMAIN rollJobs
         /\ rollJobs'[j].state = s
         /\ \A i \in DOMAIN rollJobs \ {j} : rollJobs'[i] = rollJobs[i]
         /\ \A i \in DOMAIN rollJobs :
              /\ rollJobs'[i].kind = rollJobs[i].kind
              /\ rollJobs'[i].final = rollJobs[i].final
              /\ rollJobs'[i].admission = rollJobs[i].admission
  <1>1. rollJobs[j] \in RollJob
    BY QueueTypes
  <1>2. CASE rollJobs' = [rollJobs EXCEPT ![j].state = s]
    BY <1>1, <1>2 DEF RollJob
  <1>3. CASE rollJobs' = [rollJobs EXCEPT ![j].attempts = n, ![j].state = s]
    <2>1. rollJobs' = [rollJobs EXCEPT ![j] =
                         [rollJobs[j] EXCEPT !.attempts = n, !.state = s]]
      BY <1>3
    <2>2. QED
      BY <1>1, <2>1 DEF RollJob
  <1>4. CASE rollJobs' = [rollJobs EXCEPT ![j].state = s, ![j].stalls = m]
    <2>1. rollJobs' = [rollJobs EXCEPT ![j] =
                         [rollJobs[j] EXCEPT !.state = s, !.stalls = m]]
      BY <1>4
    <2>2. QED
      BY <1>1, <2>1 DEF RollJob
  <1>5. QED
    BY <1>2, <1>3, <1>4

LEMMA TakeActivates ==
  ASSUME TypeOK, NEW w \in RollWorkers, RollTake(w)
  PROVE  /\ DOMAIN rollJobs' = DOMAIN rollJobs
         /\ rollJobs'[rollWait[1]].state = "active"
         /\ \A i \in DOMAIN rollJobs \ {rollWait[1]} : rollJobs'[i] = rollJobs[i]
         /\ \A i \in DOMAIN rollJobs :
              /\ rollJobs'[i].kind = rollJobs[i].kind
              /\ rollJobs'[i].final = rollJobs[i].final
              /\ rollJobs'[i].admission = rollJobs[i].admission
  <1> DEFINE j == rollWait[1]
  <1>1. rollJobs' = [rollJobs EXCEPT ![j].state = "active"] /\ j \in DOMAIN rollJobs
    BY TakeForm, QueueTypes
  <1> HIDE DEF j
  <1>2. /\ DOMAIN rollJobs' = DOMAIN rollJobs
        /\ rollJobs'[j].state = "active"
        /\ \A i \in DOMAIN rollJobs \ {j} : rollJobs'[i] = rollJobs[i]
        /\ \A i \in DOMAIN rollJobs :
             /\ rollJobs'[i].kind = rollJobs[i].kind
             /\ rollJobs'[i].final = rollJobs[i].final
             /\ rollJobs'[i].admission = rollJobs[i].admission
    BY <1>1, OneStateChanges
  <1>3. QED
    BY <1>2 DEF j

\* The steps that move the roll queue.
LEMMA QueueFrame ==
  ASSUME [Next]_vars
  PROVE  \/ UNCHANGED <<rollJobs, rollWait, rollW>>
         \/ \E w \in RankWorkers : RankEnqueueRoll(w)
         \/ \E w \in RollWorkers : Roll(w) \/ RollFault(w) \/ RollCrash(w)
         \/ \E j \in DOMAIN rollJobs : RollPromote(j)
  <1> USE DEF rollVars
  <1>1. ASSUME NEW r \in Requests, Call(r) \/ Handle(r)
        PROVE  UNCHANGED <<rollJobs, rollWait, rollW>>
    BY <1>1 DEF Call, Handle, EnterRead, PublishRead, GenerateLockCheck,
       RecalculateBegin, UnlockBegin, ReadMiss, UnpublishRead,
       EnterWrite, PublishSet, AutoLockCheck, AutoSkip, UnpublishSet,
       CheckFinal, CheckAdmission, Unlock, AuditUnlock,
       Enqueue, AuditAuto, ClearCache, ReadSnapshot, CacheSet
  <1>2. ASSUME NEW w \in RankWorkers, Rank(w), ~RankEnqueueRoll(w)
        PROVE  UNCHANGED <<rollJobs, rollWait, rollW>>
    BY <1>2 DEF Rank, RankTake, RankLockCheck, RankMerit, RankAdmission, RankFinish
  <1>3. CASE \/ CacheExpire
             \/ \E k \in JobKinds : RankPromote(k) \/ EvictCompleted(k)
             \/ \E r \in Requests : RequestFault(r)
             \/ \E w \in RankWorkers : RankFault(w) \/ RankCrash(w)
             \/ UNCHANGED vars
    BY <1>3 DEF CacheExpire, RankPromote, EvictCompleted, RequestFault, RankFault,
       RankCrash, vars
  <1>4. QED
    BY <1>1, <1>2, <1>3 DEF Next, Promote, Fault

LEMMA AppendForm ==
  ASSUME NEW S, NEW s \in Seq(S), NEW x
  PROVE  /\ DOMAIN s = 1 .. Len(s) /\ Len(s) \in Nat
         /\ DOMAIN Append(s, x) = 1 .. (Len(s) + 1)
         /\ \A i \in DOMAIN s : Append(s, x)[i] = s[i]
         /\ Append(s, x)[Len(s) + 1] = x
  OBVIOUS

\* A job that goes to the end of the wait list was nowhere.
LEMMA OnePlaceAppend ==
  ASSUME TypeOK, OnePlace, NEW j,
         rollWait' = Append(rollWait, j),
         DOMAIN rollJobs \subseteq DOMAIN rollJobs',
         rollJobs'[j].state = "waiting",
         \A i \in DOMAIN rollJobs \ {j} : rollJobs'[i].state = rollJobs[i].state,
         \A k \in DOMAIN rollWait : rollWait[k] # j,
         \A w \in RollWorkers : Busy(w)' => Busy(w) /\ rollW'[w] = rollW[w]
                                              /\ rollW[w].job # j
  PROVE  OnePlace'
  <1>1. rollWait \in Seq(1 .. Len(rollJobs))
    BY DEF TypeOK
  <1>2. /\ DOMAIN rollWait' = 1 .. (Len(rollWait) + 1)
        /\ DOMAIN rollWait = 1 .. Len(rollWait) /\ Len(rollWait) \in Nat
        /\ \A k \in DOMAIN rollWait : rollWait'[k] = rollWait[k]
        /\ rollWait'[Len(rollWait) + 1] = j
    BY <1>1, AppendForm
  <1>3. ASSUME NEW k \in DOMAIN rollWait'
        PROVE  rollJobs'[rollWait'[k]].state = "waiting"
    <2>1. CASE k \in DOMAIN rollWait
      BY <1>2, <2>1, QueueTypes DEF OnePlace
    <2>2. CASE k = Len(rollWait) + 1
      BY <1>2, <2>2
    <2>3. QED
      BY <1>2, <2>1, <2>2
  <1>4. ASSUME NEW k \in DOMAIN rollWait', NEW l \in DOMAIN rollWait',
               rollWait'[k] = rollWait'[l]
        PROVE  k = l
    BY <1>2, <1>4 DEF OnePlace
  <1>5. \A w \in RollWorkers : Busy(w)' => rollJobs'[rollW'[w].job].state = "active"
    BY QueueTypes DEF OnePlace
  <1>6. \A v, w \in RollWorkers :
          Busy(v)' /\ Busy(w)' /\ rollW'[v].job = rollW'[w].job => v = w
    BY DEF OnePlace
  <1>7. QED
    BY <1>3, <1>4, <1>5, <1>6 DEF OnePlace

\* A job that a worker gives up, without or with a new place in the wait list.
LEMMA OnePlaceGives ==
  ASSUME TypeOK, OnePlace, NEW w \in RollWorkers, NEW s, NEW j, Gives(w, j, s),
         \/ rollWait' = rollWait
         \/ rollWait' = Append(rollWait, j) /\ s = "waiting"
  PROVE  OnePlace'
  <1>1. j \in DOMAIN rollJobs /\ rollJobs[j].state = "active"
    BY QueueTypes DEF Gives, OnePlace
  <1>2. \A k \in DOMAIN rollWait : rollWait[k] # j
    BY <1>1 DEF OnePlace
  <1>3. \A v \in RollWorkers : Busy(v)' => v # w /\ Busy(v) /\ rollW'[v] = rollW[v]
    BY QueueTypes DEF Gives, Busy, NoRollWork
  <1>4. \A v \in RollWorkers : Busy(v)' => rollW[v].job # j
    BY <1>3 DEF OnePlace, Gives
  <1>5. CASE rollWait' = rollWait
    <2>1. \A k \in DOMAIN rollWait' : rollJobs'[rollWait'[k]].state = "waiting"
      BY <1>2, <1>5, QueueTypes DEF OnePlace, Gives
    <2>2. \A v \in RollWorkers : Busy(v)' => rollJobs'[rollW'[v].job].state = "active"
      BY <1>3, <1>4, QueueTypes DEF OnePlace, Gives
    <2>3. \A v, u \in RollWorkers :
            Busy(v)' /\ Busy(u)' /\ rollW'[v].job = rollW'[u].job => v = u
      BY <1>3 DEF OnePlace
    <2>4. QED
      BY <1>5, <2>1, <2>2, <2>3 DEF OnePlace
  <1>6. CASE rollWait' = Append(rollWait, j) /\ s = "waiting"
    BY <1>2, <1>3, <1>4, <1>6, OnePlaceAppend DEF Gives
  <1>7. QED
    BY <1>5, <1>6

LEMMA FaultGives ==
  ASSUME TypeOK, NEW w \in RollWorkers,
         RollFault(w) \/ RollCrash(w) \/ RollDelCache(w)
  PROVE  \E s : /\ Gives(w, rollW[w].job, s)
                /\ \/ rollWait' = rollWait
                   \/ rollWait' = Append(rollWait, rollW[w].job) /\ s = "waiting"
                /\ s = "completed" <=> RollDelCache(w)
  <1> DEFINE j == rollW[w].job
  <1>1. Busy(w) /\ j \in DOMAIN rollJobs
    BY QueueTypes DEF RollFault, RollCrash, RollDelCache, Busy
  <1>2. rollW' = [rollW EXCEPT ![w] = NoRollWork]
    BY DEF RollFault, RollCrash, RollDelCache
  <1>3. ASSUME NEW s, NEW n, NEW m,
               \/ rollJobs' = [rollJobs EXCEPT ![j].state = s]
               \/ rollJobs' = [rollJobs EXCEPT ![j].attempts = n, ![j].state = s]
               \/ rollJobs' = [rollJobs EXCEPT ![j].state = s, ![j].stalls = m]
        PROVE  Gives(w, j, s)
    <2>1. /\ DOMAIN rollJobs' = DOMAIN rollJobs
          /\ rollJobs'[j].state = s
          /\ \A i \in DOMAIN rollJobs \ {j} : rollJobs'[i] = rollJobs[i]
      <3> HIDE DEF j
      <3>1. CASE rollJobs' = [rollJobs EXCEPT ![j].state = s]
        BY <1>1, <3>1, OneStateChanges
      <3>2. CASE rollJobs' = [rollJobs EXCEPT ![j].attempts = n, ![j].state = s]
        BY <1>1, <3>2, OneStateChanges
      <3>3. CASE rollJobs' = [rollJobs EXCEPT ![j].state = s, ![j].stalls = m]
        BY <1>1, <3>3, OneStateChanges
      <3>4. QED
        BY <1>3, <3>1, <3>2, <3>3
    <2>2. QED
      BY <1>1, <1>2, <2>1 DEF Gives
  <1>a. RollDelCache(w) => rollJobs'[j].state = "completed"
    BY <1>1, OneStateChanges DEF RollDelCache
  <1>4. CASE RollFault(w)
    <2>1. PICK s \in {"delayed", "failed"} :
            rollJobs' = [rollJobs EXCEPT ![j].attempts = rollJobs[j].attempts + 1,
                                         ![j].state = s]
      BY <1>4 DEF RollFault
    <2>2. Gives(w, j, s) /\ rollWait' = rollWait
      BY <1>3, <1>4, <2>1 DEF RollFault
    <2>3. QED
      BY <1>a, <2>2 DEF Gives
  <1>5. CASE RollCrash(w)
    <2>1. CASE rollJobs[j].stalls = 0
      <3>1. Gives(w, j, "waiting") /\ rollWait' = Append(rollWait, j)
        BY <1>3, <1>5, <2>1 DEF RollCrash
      <3>2. QED
        BY <1>a, <3>1 DEF Gives
    <2>2. CASE rollJobs[j].stalls # 0
      <3>1. Gives(w, j, "failed") /\ rollWait' = rollWait
        BY <1>3, <1>5, <2>2 DEF RollCrash
      <3>2. QED
        BY <1>a, <3>1 DEF Gives
    <2>3. QED
      BY <2>1, <2>2
  <1>6. CASE RollDelCache(w)
    BY <1>3, <1>6 DEF RollDelCache
  <1>7. QED
    BY <1>4, <1>5, <1>6

LEMMA OnePlaceStep ==
  ASSUME TypeOK, OnePlace, [Next]_vars
  PROVE  OnePlace'
  <1>1. CASE UNCHANGED <<rollJobs, rollWait, rollW>>
    BY <1>1 DEF OnePlace, Busy
  <1>2. ASSUME NEW w \in RankWorkers, RankEnqueueRoll(w)
        PROVE  OnePlace'
    <2>1. rollW' = rollW
      BY <1>2 DEF RankEnqueueRoll, AddRollJob
    <2>2. PICK job : job.state = "waiting" /\ rollJobs' = Append(rollJobs, job)
      BY <1>2 DEF RankEnqueueRoll, AddRollJob
    <2>3. rollWait' = Append(rollWait, Len(rollJobs) + 1)
      BY <1>2 DEF RankEnqueueRoll, AddRollJob
    <2>4. rollJobs \in Seq(RollJob)
      BY DEF TypeOK
    <2>5. /\ DOMAIN rollJobs' = 1 .. (Len(rollJobs) + 1)
          /\ \A i \in DOMAIN rollJobs : rollJobs'[i] = rollJobs[i]
          /\ rollJobs'[Len(rollJobs) + 1] = job
      BY <2>2, <2>4, AppendForm
    <2>6. Len(rollJobs) + 1 \notin DOMAIN rollJobs
      BY QueueTypes
    <2>7. \A k \in DOMAIN rollWait : rollWait[k] # Len(rollJobs) + 1
      BY <2>6, QueueTypes
    <2>8. \A v \in RollWorkers : Busy(v) => rollW[v].job # Len(rollJobs) + 1
      BY <2>6, QueueTypes
    <2>9. Len(rollJobs) \in Nat /\ DOMAIN rollJobs = 1 .. Len(rollJobs)
      BY QueueTypes
    <2>10. DOMAIN rollJobs \subseteq DOMAIN rollJobs'
      BY <2>5, <2>9
    <2>11. QED
      BY <2>1, <2>2, <2>3, <2>5, <2>7, <2>8, <2>10, OnePlaceAppend DEF Busy
  <1>3. ASSUME NEW w \in RollWorkers, RollTake(w)
        PROVE  OnePlace'
    <2>1. DOMAIN rollWait = 1 .. Len(rollWait) /\ Len(rollWait) \in Nat
      BY QueueTypes
    <2>2. 1 \in DOMAIN rollWait /\ rollWait[1] \in DOMAIN rollJobs
      BY <1>3, TakeForm, QueueTypes
    <2>3. /\ rollJobs'[rollWait[1]].state = "active"
          /\ \A i \in DOMAIN rollJobs \ {rollWait[1]} : rollJobs'[i] = rollJobs[i]
      BY <1>3, <2>2, TakeForm, OneStateChanges
    <2>4. ASSUME NEW k \in DOMAIN rollWait'
          PROVE  /\ k + 1 \in DOMAIN rollWait /\ rollWait'[k] = rollWait[k + 1]
                 /\ rollWait'[k] # rollWait[1] /\ k \in Nat
      <3>1. k + 1 \in DOMAIN rollWait /\ rollWait'[k] = rollWait[k + 1]
        BY <1>3, TakeForm
      <3>2. k \in Nat /\ k + 1 # 1
        BY <1>3, TakeForm
      <3>3. QED
        BY <2>2, <3>1, <3>2 DEF OnePlace
    <2>5. \A k \in DOMAIN rollWait' : rollJobs'[rollWait'[k]].state = "waiting"
      BY <2>3, <2>4, QueueTypes DEF OnePlace
    <2>6. ASSUME NEW k \in DOMAIN rollWait', NEW l \in DOMAIN rollWait',
                 rollWait'[k] = rollWait'[l]
          PROVE  k = l
      <3>1. k + 1 = l + 1
        BY <2>4, <2>6 DEF OnePlace
      <3>2. QED
        BY <2>4, <3>1
    <2>7. /\ \A v \in RollWorkers \ {w} : rollW'[v] = rollW[v]
          /\ rollW'[w].job = rollWait[1]
      <3>1. rollW' = [rollW EXCEPT ![w] =
                        [pc |-> "acquire", job |-> rollWait[1], version |-> 0]]
        BY <1>3, TakeForm
      <3>2. rollW \in [RollWorkers -> RollWork]
        BY DEF TypeOK
      <3>3. QED
        BY <3>1, <3>2
    <2>8. \A v \in RollWorkers \ {w} : Busy(v) => rollW[v].job # rollWait[1]
      BY <2>2 DEF OnePlace
    <2>9. \A v \in RollWorkers : Busy(v)' => rollJobs'[rollW'[v].job].state = "active"
      BY <2>3, <2>7, <2>8, QueueTypes DEF OnePlace, Busy
    <2>10. \A v, u \in RollWorkers :
            Busy(v)' /\ Busy(u)' /\ rollW'[v].job = rollW'[u].job => v = u
      BY <2>7, <2>8 DEF OnePlace, Busy
    <2>11. QED
      BY <2>5, <2>6, <2>9, <2>10 DEF OnePlace
  <1>4. ASSUME NEW w \in RollWorkers,
               RollAcquire(w) \/ RollSaveHistory(w) \/ RollCommit(w)
        PROVE  OnePlace'
    <2>1. rollJobs' = rollJobs /\ rollWait' = rollWait
      BY <1>4 DEF RollAcquire, RollSaveHistory, SaveHistory, RollCommit, Commit
    <2>2. \A v \in RollWorkers : rollW'[v].job = rollW[v].job /\ (Busy(v)' => Busy(v))
      <3>1. rollW \in [RollWorkers -> RollWork] /\ Busy(w)
        BY <1>4 DEF TypeOK, RollAcquire, RollSaveHistory, SaveHistory, RollCommit,
           Commit, RollStep, Busy
      <3>2. \E pc, n : rollW' = [rollW EXCEPT ![w].pc = pc, ![w].version = n]
                       \/ rollW' = [rollW EXCEPT ![w].pc = pc]
        BY <1>4 DEF RollAcquire, RollSaveHistory, SaveHistory, RollCommit, Commit,
           RollStep
      <3>3. QED
        BY <3>1, <3>2 DEF Busy, RollWork
    <2>3. QED
      BY <2>1, <2>2 DEF OnePlace
  <1>5. ASSUME NEW w \in RollWorkers, RollFault(w) \/ RollCrash(w) \/ RollDelCache(w)
        PROVE  OnePlace'
    BY <1>5, FaultGives, OnePlaceGives
  <1>6. ASSUME NEW j \in DOMAIN rollJobs, RollPromote(j)
        PROVE  OnePlace'
    <2>1. rollW' = rollW /\ rollWait' = Append(rollWait, j)
      BY <1>6 DEF RollPromote
    <2>2. rollJobs[j].state = "delayed"
      BY <1>6 DEF RollPromote
    <2>3. /\ DOMAIN rollJobs' = DOMAIN rollJobs
          /\ rollJobs'[j].state = "waiting"
          /\ \A i \in DOMAIN rollJobs \ {j} : rollJobs'[i] = rollJobs[i]
      BY <1>6, OneStateChanges DEF RollPromote
    <2>4. /\ \A k \in DOMAIN rollWait : rollWait[k] # j
          /\ \A v \in RollWorkers : Busy(v) => rollW[v].job # j
      BY <2>2 DEF OnePlace
    <2>5. QED
      BY <2>1, <2>3, <2>4, OnePlaceAppend DEF Busy
  <1>7. QED
    BY <1>1, <1>2, <1>3, <1>4, <1>5, <1>6, QueueFrame DEF Roll

LEMMA InitOnePlace == Init => OnePlace
  BY DEF Init, OnePlace, Busy, NoRollWork

-----------------------------------------------------------------------------
(* Completed roll jobs and snapshots                                       *)

Completed == {j \in DOMAIN rollJobs : rollJobs[j].state = "completed"}
Committed == {w \in RollWorkers : rollW[w].pc = "del"}

InHistory(j) ==
  \E i \in DOMAIN history : /\ history[i].kind = rollJobs[j].kind
                            /\ history[i].final = rollJobs[j].final
                            /\ history[i].admission = rollJobs[j].admission

\* RollJobsCommit, and the same of the jobs whose worker has not yet said so.
CommitInv ==
  /\ \A j \in Completed : InHistory(j)
  /\ \A w \in Committed, j \in DOMAIN rollJobs : rollW[w].job = j => InHistory(j)
  /\ IsFiniteSet(Committed)
  /\ faults = 0 => Len(history) = Cardinality(Completed) + Cardinality(Committed)

\* Jobs keep what they were computed from, and the history is appended to.
KeepsData ==
  /\ \A j \in DOMAIN rollJobs :
       /\ j \in DOMAIN rollJobs'
       /\ rollJobs'[j].kind = rollJobs[j].kind
       /\ rollJobs'[j].final = rollJobs[j].final
       /\ rollJobs'[j].admission = rollJobs[j].admission
  /\ \A i \in DOMAIN history : i \in DOMAIN history' /\ history'[i] = history[i]

LEMMA InHistoryStays ==
  ASSUME KeepsData, NEW j \in DOMAIN rollJobs, InHistory(j)
  PROVE  InHistory(j)'
  BY DEF KeepsData, InHistory

LEMMA CompletedFinite ==
  ASSUME TypeOK
  PROVE  IsFiniteSet(Completed)
  <1>1. IsFiniteSet(1 .. Len(rollJobs))
    BY QueueTypes, FS_Interval
  <1>2. Completed \subseteq 1 .. Len(rollJobs)
    BY QueueTypes DEF Completed
  <1>3. QED
    BY <1>1, <1>2, FS_Subset

LEMMA RollDataKept ==
  ASSUME TypeOK, NEW w \in RollWorkers, RollFault(w) \/ RollCrash(w)
  PROVE  \A i \in DOMAIN rollJobs :
           /\ i \in DOMAIN rollJobs'
           /\ rollJobs'[i].kind = rollJobs[i].kind
           /\ rollJobs'[i].final = rollJobs[i].final
           /\ rollJobs'[i].admission = rollJobs[i].admission
  <1> DEFINE j == rollW[w].job
  <1>1. j \in DOMAIN rollJobs
    BY QueueTypes DEF RollFault, RollCrash, Busy
  <1>2. CASE RollFault(w)
    <2>1. PICK s : rollJobs' = [rollJobs EXCEPT
                     ![j].attempts = rollJobs[j].attempts + 1, ![j].state = s]
      BY <1>2 DEF RollFault
    <2> HIDE DEF j
    <2>2. QED
      BY <1>1, <2>1, OneStateChanges
  <1>3. CASE RollCrash(w)
    <2>1. \/ rollJobs' = [rollJobs EXCEPT ![j].state = "waiting", ![j].stalls = 1]
          \/ rollJobs' = [rollJobs EXCEPT ![j].state = "failed"]
      BY <1>3 DEF RollCrash
    <2> HIDE DEF j
    <2>2. CASE rollJobs' = [rollJobs EXCEPT ![j].state = "waiting", ![j].stalls = 1]
      BY <1>1, <2>2, OneStateChanges
    <2>3. CASE rollJobs' = [rollJobs EXCEPT ![j].state = "failed"]
      BY <1>1, <2>3, OneStateChanges
    <2>4. QED
      BY <2>1, <2>2, <2>3
  <1>4. QED
    BY <1>2, <1>3

\* A step after which nothing new is completed or committed, ...
LEMMA CommitKeeps ==
  ASSUME TypeOK, CommitInv, KeepsData, Len(history') = Len(history),
         Completed' \subseteq Completed, Committed' \subseteq Committed,
         \A w \in Committed' : rollW'[w].job = rollW[w].job,
         faults' = 0 => faults = 0 /\ Completed' = Completed /\ Committed' = Committed
  PROVE  CommitInv'
  <1>1. \A j \in Completed' : InHistory(j)'
    BY InHistoryStays DEF CommitInv, Completed
  <1>2. \A w \in Committed : rollW[w].job \in DOMAIN rollJobs
    BY QueueTypes DEF Committed, Busy
  <1>3. ASSUME NEW w \in Committed', NEW j \in DOMAIN rollJobs', rollW'[w].job = j
        PROVE  InHistory(j)'
    <2>1. w \in Committed /\ rollW[w].job = j
      BY <1>3
    <2>2. j \in DOMAIN rollJobs
      BY <1>2, <2>1
    <2>3. InHistory(j)
      BY <2>1, <2>2 DEF CommitInv
    <2>4. QED
      BY <2>2, <2>3, InHistoryStays
  <1>5. IsFiniteSet(Committed')
    BY FS_Subset DEF CommitInv
  <1>6. faults' = 0 => Len(history') = Cardinality(Completed') + Cardinality(Committed')
    BY DEF CommitInv
  <1>7. QED
    BY <1>1, <1>3, <1>5, <1>6 DEF CommitInv

\* ... the COMMIT, ...
LEMMA CommitCommits ==
  ASSUME TypeOK, CommitInv, NEW w \in RollWorkers, RollCommit(w)
  PROVE  CommitInv'
  <1> DEFINE job == rollJobs[rollW[w].job]
             s == [version |-> rollW[w].version, kind |-> job.kind,
                   final |-> job.final, admission |-> job.admission]
  <1>1. history' = Append(history, s)
    BY DEF RollCommit, Commit
  <1>2. /\ rollW \in [RollWorkers -> RollWork] /\ history \in Seq(Snapshot)
        /\ rollW[w].pc = "commit" /\ rollW' = [rollW EXCEPT ![w].pc = "del"]
        /\ rollJobs' = rollJobs /\ faults' = faults
    BY DEF TypeOK, RollCommit, Commit, RollStep
  <1> HIDE DEF s
  <1>3. /\ Len(history') = Len(history) + 1
        /\ DOMAIN history = 1 .. Len(history) /\ Len(history) \in Nat
        /\ DOMAIN history' = 1 .. (Len(history) + 1)
        /\ \A i \in DOMAIN history : history'[i] = history[i]
        /\ history'[Len(history) + 1] = s
    BY <1>1, <1>2, AppendForm
  <1>4. KeepsData
    BY <1>2, <1>3 DEF KeepsData
  <1>5. w \notin Committed /\ Committed' = Committed \cup {w}
    BY <1>2 DEF Committed, RollWork
  <1>6. \A v \in RollWorkers : rollW'[v].job = rollW[v].job
    BY <1>2 DEF RollWork
  <1>7. Completed' = Completed
    BY <1>2 DEF Completed
  <1>8. ASSUME NEW j \in DOMAIN rollJobs, rollW[w].job = j
        PROVE  InHistory(j)'
    <2>1. /\ s.kind = rollJobs[j].kind /\ s.final = rollJobs[j].final
          /\ s.admission = rollJobs[j].admission
      BY <1>8 DEF s
    <2>2. Len(history) + 1 \in DOMAIN history'
      BY <1>3
    <2>3. QED
      BY <1>2, <1>3, <2>1, <2>2 DEF InHistory
  <1>9. \A j \in Completed' : InHistory(j)'
    BY <1>4, <1>7, InHistoryStays DEF CommitInv, Completed
  <1>10. ASSUME NEW v \in Committed', NEW j \in DOMAIN rollJobs', rollW'[v].job = j
         PROVE  InHistory(j)'
    <2>1. j \in DOMAIN rollJobs /\ rollW[v].job = j /\ v \in RollWorkers
      BY <1>2, <1>6, <1>10 DEF Committed
    <2>2. CASE v = w
      BY <1>8, <2>1, <2>2
    <2>3. CASE v # w
      <3>1. InHistory(j)
        BY <1>5, <2>1, <2>3 DEF CommitInv
      <3>2. QED
        BY <1>4, <2>1, <3>1, InHistoryStays
    <2>4. QED
      BY <2>2, <2>3
  <1>15. IsFiniteSet(Committed') /\ Cardinality(Committed') = Cardinality(Committed) + 1
    BY <1>5, FS_AddElement DEF CommitInv
  <1>16. Cardinality(Committed) \in Nat /\ Cardinality(Completed) \in Nat
    BY CompletedFinite, FS_CardinalityType DEF CommitInv
  <1>17. faults' = 0 =>
           Len(history') = Cardinality(Completed') + Cardinality(Committed')
    <2>1. faults = 0 => Len(history) = Cardinality(Completed) + Cardinality(Committed)
      BY DEF CommitInv
    <2>2. Cardinality(Completed') = Cardinality(Completed) /\ faults' = faults
      BY <1>2, <1>7
    <2>3. QED
      BY <1>3, <1>15, <1>16, <2>1, <2>2
  <1>18. QED
    BY <1>9, <1>10, <1>15, <1>17 DEF CommitInv

\* ... and the job that is completed after it.
LEMMA CommitCompletes ==
  ASSUME TypeOK, OnePlace, CommitInv, NEW w \in RollWorkers, RollDelCache(w)
  PROVE  CommitInv'
  <1> DEFINE j == rollW[w].job
  <1>1. /\ rollW \in [RollWorkers -> RollWork]
        /\ rollW[w].pc = "del" /\ rollW' = [rollW EXCEPT ![w] = NoRollWork]
        /\ rollJobs' = [rollJobs EXCEPT ![j].state = "completed"]
        /\ history' = history /\ faults' = faults
    BY DEF TypeOK, RollDelCache, dbVars
  <1>2. j \in DOMAIN rollJobs /\ rollJobs[j].state = "active"
    BY <1>1, QueueTypes DEF OnePlace, Busy
  <1> HIDE DEF j
  <1>3. /\ DOMAIN rollJobs' = DOMAIN rollJobs
        /\ rollJobs'[j].state = "completed"
        /\ \A i \in DOMAIN rollJobs \ {j} : rollJobs'[i] = rollJobs[i]
        /\ \A i \in DOMAIN rollJobs :
             /\ rollJobs'[i].kind = rollJobs[i].kind
             /\ rollJobs'[i].final = rollJobs[i].final
             /\ rollJobs'[i].admission = rollJobs[i].admission
    BY <1>1, <1>2, OneStateChanges
  <1>4. KeepsData
    BY <1>1, <1>3 DEF KeepsData
  <1>5. Completed' = Completed \cup {j} /\ j \notin Completed
    BY <1>2, <1>3 DEF Completed
  <1>6. w \in Committed /\ Committed' = Committed \ {w}
    BY <1>1 DEF Committed, NoRollWork
  <1>7. InHistory(j)
    BY <1>2, <1>6 DEF CommitInv, j
  <1>8. \A i \in Completed' : InHistory(i)'
    BY <1>2, <1>4, <1>5, <1>7, InHistoryStays DEF CommitInv, Completed
  <1>9. \A v \in Committed : rollW[v].job \in DOMAIN rollJobs
    BY QueueTypes DEF Committed, Busy
  <1>10. \A v \in Committed' : rollW'[v] = rollW[v]
    BY <1>1, <1>6 DEF Committed
  <1>11. ASSUME NEW v \in Committed', NEW i \in DOMAIN rollJobs', rollW'[v].job = i
         PROVE  InHistory(i)'
    <2>1. v \in Committed /\ rollW[v].job = i /\ i \in DOMAIN rollJobs
      BY <1>3, <1>6, <1>10, <1>11
    <2>2. InHistory(i)
      BY <2>1 DEF CommitInv
    <2>3. QED
      BY <1>4, <2>1, <2>2, InHistoryStays
  <1>13. /\ IsFiniteSet(Committed')
         /\ Cardinality(Committed') = Cardinality(Committed) - 1
    BY <1>6, FS_RemoveElement DEF CommitInv
  <1>14. Cardinality(Completed') = Cardinality(Completed) + 1
    BY <1>5, CompletedFinite, FS_AddElement
  <1>15. Cardinality(Committed) \in Nat /\ Cardinality(Completed) \in Nat
    BY CompletedFinite, FS_CardinalityType DEF CommitInv
  <1>16. faults' = 0 =>
           Len(history') = Cardinality(Completed') + Cardinality(Committed')
    <2>1. faults = 0 => Len(history) = Cardinality(Completed) + Cardinality(Committed)
      BY DEF CommitInv
    <2>2. QED
      BY <1>1, <1>13, <1>14, <1>15, <2>1
  <1>17. QED
    BY <1>8, <1>11, <1>13, <1>16 DEF CommitInv

LEMMA FaultCounts ==
  ASSUME TypeOK, Fault
  PROVE  faults' = faults + 1
  BY DEF Fault, RequestFault, RankFault, RankCrash, RollFault, RollCrash

LEMMA FaultsCount ==
  ASSUME TypeOK, [Next]_vars, faults' = 0
  PROVE  faults = 0
  <1>1. faults \in Nat
    BY DEF TypeOK
  <1>2. CASE Fault
    BY <1>1, <1>2, FaultCounts
  <1>3. CASE \E r \in Requests : Call(r)
    BY <1>3 DEF Call, EnterRead, PublishRead, GenerateLockCheck,
       RecalculateBegin, UnlockBegin, ReadMiss, UnpublishRead
  <1>4. CASE \E r \in Requests : Handle(r)
    BY <1>4 DEF Handle, EnterWrite, PublishSet, AutoLockCheck, AutoSkip,
       UnpublishSet, CheckFinal, CheckAdmission, Unlock, AuditUnlock,
       Enqueue, AuditAuto, ClearCache, ReadSnapshot, CacheSet
  <1>5. CASE \E w \in RankWorkers : Rank(w)
    BY <1>5 DEF Rank, RankTake, RankLockCheck, RankMerit, RankAdmission,
       RankEnqueueRoll, AddRollJob, RankFinish
  <1>6. CASE \E w \in RollWorkers : Roll(w)
    BY <1>6 DEF Roll, RollTake, RollAcquire,
       RollSaveHistory, SaveHistory, RollCommit, Commit, RollDelCache
  <1>7. CASE Promote \/ CacheExpire \/ (\E k \in JobKinds : EvictCompleted(k))
    BY <1>7 DEF Promote, RankPromote, RollPromote, CacheExpire, EvictCompleted
  <1>8. CASE UNCHANGED vars
    BY <1>8 DEF vars
  <1>9. QED
    BY <1>2, <1>3, <1>4, <1>5, <1>6, <1>7, <1>8 DEF Next

LEMMA CommitInvStep ==
  ASSUME TypeOK, OnePlace, CommitInv, [Next]_vars
  PROVE  CommitInv'
  <1>1. faults' = 0 => faults = 0
    BY FaultsCount
  <1>2. CASE history' = history /\ UNCHANGED <<rollJobs, rollWait, rollW>>
    BY <1>1, <1>2, CommitKeeps DEF KeepsData, Completed, Committed
  <1>3. ASSUME NEW w \in RankWorkers, RankEnqueueRoll(w)
        PROVE  CommitInv'
    <2>1. history' = history /\ rollW' = rollW
      BY <1>3 DEF RankEnqueueRoll, AddRollJob, dbVars
    <2>2. PICK job : job.state = "waiting" /\ rollJobs' = Append(rollJobs, job)
      BY <1>3 DEF RankEnqueueRoll, AddRollJob
    <2>3. rollJobs \in Seq(RollJob)
      BY DEF TypeOK
    <2>4. /\ DOMAIN rollJobs' = 1 .. (Len(rollJobs) + 1)
          /\ DOMAIN rollJobs = 1 .. Len(rollJobs) /\ Len(rollJobs) \in Nat
          /\ \A i \in DOMAIN rollJobs : rollJobs'[i] = rollJobs[i]
          /\ rollJobs'[Len(rollJobs) + 1].state = "waiting"
      BY <2>2, <2>3, AppendForm
    <2>5. KeepsData
      BY <2>1, <2>4 DEF KeepsData
    <2>6. Completed' = Completed
      BY <2>4 DEF Completed
    <2>7. Committed' = Committed
      BY <2>1 DEF Committed
    <2>8. QED
      BY <1>1, <2>1, <2>5, <2>6, <2>7, CommitKeeps
  <1>4. ASSUME NEW w \in RollWorkers, RollTake(w)
        PROVE  CommitInv'
    <2>1. history' = history
      BY <1>4 DEF RollTake, dbVars
    <2>2. rollWait[1] \in DOMAIN rollJobs /\ rollJobs[rollWait[1]].state = "waiting"
      BY <1>4, TakeForm, QueueTypes DEF OnePlace
    <2>3. /\ DOMAIN rollJobs' = DOMAIN rollJobs
          /\ rollJobs'[rollWait[1]].state = "active"
          /\ \A i \in DOMAIN rollJobs \ {rollWait[1]} : rollJobs'[i] = rollJobs[i]
          /\ \A i \in DOMAIN rollJobs :
               /\ rollJobs'[i].kind = rollJobs[i].kind
               /\ rollJobs'[i].final = rollJobs[i].final
               /\ rollJobs'[i].admission = rollJobs[i].admission
      BY <1>4, TakeActivates
    <2>4. KeepsData
      BY <2>1, <2>3 DEF KeepsData
    <2>5. Completed' = Completed
      BY <2>2, <2>3 DEF Completed
    <2>6. \A v \in RollWorkers : rollW'[v] = rollW[v] \/
                                 (v = w /\ rollW'[v].pc = "acquire" /\ rollW[v].pc = "idle")
      <3>1. rollW' = [rollW EXCEPT ![w] =
                        [pc |-> "acquire", job |-> rollWait[1], version |-> 0]]
        BY <1>4, TakeForm
      <3>2. rollW \in [RollWorkers -> RollWork] /\ rollW[w].pc = "idle"
        BY <1>4 DEF TypeOK, RollTake
      <3>3. QED
        BY <3>1, <3>2
    <2>7. Committed' = Committed /\ \A v \in Committed' : rollW'[v].job = rollW[v].job
      BY <2>6 DEF Committed
    <2>8. QED
      BY <1>1, <2>1, <2>4, <2>5, <2>7, CommitKeeps
  <1>5. ASSUME NEW w \in RollWorkers, RollAcquire(w) \/ RollSaveHistory(w)
        PROVE  CommitInv'
    <2>1. rollJobs' = rollJobs /\ history' = history
      BY <1>5 DEF RollAcquire, RollSaveHistory, SaveHistory, dbVars
    <2>2. rollW \in [RollWorkers -> RollWork] /\ rollW[w].pc \in {"acquire", "save"}
      BY <1>5 DEF TypeOK, RollAcquire, RollStep, RollSaveHistory, SaveHistory
    <2>3. \/ rollW' = [rollW EXCEPT ![w].pc = "commit", ![w].version = Latest + 1]
          \/ rollW' = [rollW EXCEPT ![w].pc = "save"]
      BY <1>5 DEF RollAcquire, RollSaveHistory, SaveHistory, RollStep
    <2>4. /\ \A v \in RollWorkers : rollW'[v].job = rollW[v].job
          /\ \A v \in RollWorkers : rollW'[v].pc = "del" <=> rollW[v].pc = "del"
      BY <2>2, <2>3 DEF RollWork
    <2>5. Committed' = Committed /\ Completed' = Completed
      BY <2>1, <2>4 DEF Committed, Completed
    <2>6. QED
      BY <1>1, <2>1, <2>4, <2>5, CommitKeeps DEF KeepsData, Committed
  <1>6. ASSUME NEW w \in RollWorkers, RollFault(w) \/ RollCrash(w)
        PROVE  CommitInv'
    <2>1. history' = history /\ faults' # 0
      <3>1. history' = history
        BY <1>6 DEF RollFault, RollCrash, dbVars
      <3>2. faults' = faults + 1 /\ faults \in Nat
        BY <1>6, FaultCounts DEF Fault, TypeOK
      <3>3. QED
        BY <3>1, <3>2
    <2>2. PICK s : Gives(w, rollW[w].job, s) /\ s # "completed"
      <3>1. ~RollDelCache(w)
        BY <1>6 DEF RollFault, RollCrash, RollDelCache, TypeOK
      <3>2. QED
        BY <1>6, <3>1, FaultGives
    <2>3. rollW \in [RollWorkers -> RollWork]
      BY DEF TypeOK
    <2>4. Committed' \subseteq Committed /\ \A v \in Committed' : rollW'[v] = rollW[v]
      BY <2>2, <2>3 DEF Gives, Committed, NoRollWork
    <2>5. Completed' \subseteq Completed
      BY <2>2 DEF Gives, Completed
    <2>6. KeepsData
      BY <1>6, <2>1, RollDataKept DEF KeepsData
    <2>7. QED
      BY <2>1, <2>4, <2>5, <2>6, CommitKeeps
  <1>7. ASSUME NEW j \in DOMAIN rollJobs, RollPromote(j)
        PROVE  CommitInv'
    <2>1. history' = history /\ rollW' = rollW /\ rollJobs[j].state = "delayed"
      BY <1>7 DEF RollPromote, dbVars
    <2>2. /\ DOMAIN rollJobs' = DOMAIN rollJobs
          /\ rollJobs'[j].state = "waiting"
          /\ \A i \in DOMAIN rollJobs \ {j} : rollJobs'[i] = rollJobs[i]
          /\ \A i \in DOMAIN rollJobs :
               /\ rollJobs'[i].kind = rollJobs[i].kind
               /\ rollJobs'[i].final = rollJobs[i].final
               /\ rollJobs'[i].admission = rollJobs[i].admission
      BY <1>7, OneStateChanges DEF RollPromote
    <2>3. KeepsData
      BY <2>1, <2>2 DEF KeepsData
    <2>4. Completed' = Completed
      BY <2>1, <2>2 DEF Completed
    <2>5. Committed' = Committed
      BY <2>1 DEF Committed
    <2>6. QED
      BY <1>1, <2>1, <2>3, <2>4, <2>5, CommitKeeps
  <1>8. QED
    <2>1. history' = history \/ \E w \in RollWorkers : RollCommit(w)
      BY HistoryStep
    <2>2. QED
      BY <1>2, <1>3, <1>4, <1>5, <1>6, <1>7, <2>1, CommitCommits, CommitCompletes,
         QueueFrame DEF Roll

\* Whatever workers, retries and crashes do, a completed roll job has its snapshot
\* in ranking_history, and without faults there are as many snapshots as jobs that
\* are completed or committed (roll.job.ts:15-24, roll.engine.ts:61-75).
THEOREM CompletedJobsCommitted == Spec => []RollJobsCommit
  <1>1. Init => OnePlace /\ CommitInv
    <2>1. ASSUME Init PROVE CommitInv
      <3>1. Completed = {} /\ Committed = {} /\ Len(history) = 0
        BY <2>1 DEF Init, Completed, Committed, NoRollWork
      <3>2. IsFiniteSet({}) /\ Cardinality({}) = 0
        BY FS_EmptySet
      <3>3. QED
        BY <3>1, <3>2 DEF CommitInv
    <2>2. QED
      BY <2>1, InitOnePlace
  <1>2. LedgerInv => TypeOK
    BY DEF LedgerInv
  <1>3. TypeOK /\ OnePlace /\ CommitInv /\ [Next]_vars => OnePlace' /\ CommitInv'
    BY OnePlaceStep, CommitInvStep
  <1>4. CommitInv => RollJobsCommit
    BY DEF CommitInv, RollJobsCommit, Completed, Committed, InHistory
  <1>5. QED
    BY <1>1, <1>2, <1>3, <1>4, LedgerInvariant, PTL DEF Spec

-----------------------------------------------------------------------------
(* Snapshots keep the order in which the results were read                 *)

\* One worker process runs, and BullMQ gives each of its queues concurrency 1.
OneWorkerEach ==
  /\ \A v, w \in RankWorkers : v = w
  /\ \A v, w \in RollWorkers : v = w

\* 0 stands for unpublished results, which have no place in the order.
Later(a, b) == a > 0 /\ b > 0 => a <= b

HasRead(w) == rankW[w].pc \in {"admission", "enqueue"}

\* Roll jobs are added in the order in which their FINAL results were read.
ReadOrder ==
  /\ \A j \in DOMAIN rollJobs : rollJobs[j].final <= rev["FINAL"]
  /\ \A i, j \in DOMAIN rollJobs : i < j => Later(rollJobs[i].final, rollJobs[j].final)
  /\ \A w \in RankWorkers : HasRead(w) =>
       /\ rankW[w].final <= rev["FINAL"]
       /\ \A j \in DOMAIN rollJobs : Later(rollJobs[j].final, rankW[w].final)

\* They wait, and are worked on, in the order in which they were added ...
QueueOrder ==
  /\ \A j \in DOMAIN rollJobs : rollJobs[j].state # "delayed"
  /\ \A k, l \in DOMAIN rollWait : k < l => rollWait[k] < rollWait[l]
  /\ \A w \in RollWorkers, k \in DOMAIN rollWait :
       Busy(w) => rollW[w].job < rollWait[k]

\* ... so every snapshot is of a job before all that are still to commit.
Behind(j) ==
  /\ \A k \in DOMAIN rollWait : j < rollWait[k]
  /\ \A w \in RollWorkers :
       rollW[w].pc \in {"acquire", "save", "commit"} => j < rollW[w].job

SnapshotsBehind ==
  \A h \in DOMAIN history : \E j \in DOMAIN rollJobs :
    history[h].final = rollJobs[j].final /\ Behind(j)

HistoryOrder ==
  \A h, i \in DOMAIN history : h < i => Later(history[h].final, history[i].final)

\* The inductive invariant behind BasisMonotone; only the order of reading
\* survives a fault.
OrderInv ==
  /\ ReadOrder
  /\ faults = 0 => QueueOrder /\ SnapshotsBehind /\ HistoryOrder

\* Results are entered, and no step of a ranking worker enters them.
LEMMA RevGrows ==
  ASSUME TypeOK, [Next]_vars
  PROVE  rev' = rev \/ (rev["FINAL"] <= rev'["FINAL"] /\ rankW' = rankW)
  <1> USE DEF dbVars
  <1>1. ASSUME NEW r \in Requests, Call(r)
        PROVE  rev' = rev
    BY <1>1 DEF Call, EnterRead, PublishRead, UnpublishRead, GenerateLockCheck,
                RecalculateBegin, UnlockBegin, ReadMiss
  <1>2. ASSUME NEW r \in Requests, EnterWrite(r)
        PROVE  rev["FINAL"] <= rev'["FINAL"] /\ rankW' = rankW
    <2>1. rev \in [Exams -> Nat] /\ "FINAL" \in Exams
      BY DEF TypeOK, Exams
    <2>2. rev' = [rev EXCEPT ![req[r].exam] = rev[req[r].exam] + 1]
      BY <1>2 DEF EnterWrite
    <2>3. rankW' = rankW
      BY <1>2 DEF EnterWrite, rankVars
    <2>4. rev["FINAL"] <= rev'["FINAL"]
      BY <2>1, <2>2
    <2>5. QED
      BY <2>3, <2>4
  <1>3. ASSUME NEW r \in Requests, Handle(r), ~EnterWrite(r)
        PROVE  rev' = rev
    BY <1>3 DEF Handle, PublishSet, AutoLockCheck, AutoSkip,
                UnpublishSet, CheckFinal, CheckAdmission, Unlock, AuditUnlock,
                Enqueue, AuditAuto, ClearCache, ReadSnapshot, CacheSet
  <1>4. ASSUME NEW w \in RankWorkers, Rank(w)
        PROVE  rev' = rev
    BY <1>4 DEF Rank, RankTake, RankLockCheck, RankMerit, RankAdmission,
                RankEnqueueRoll, AddRollJob, RankFinish
  <1>5. ASSUME NEW w \in RollWorkers, Roll(w) \/ RollFault(w) \/ RollCrash(w)
        PROVE  rev' = rev
    BY <1>5 DEF Roll, RollTake, RollAcquire, RollSaveHistory, SaveHistory,
                RollCommit, Commit, RollDelCache, RollFault, RollCrash
  <1>6. CASE Promote
    BY <1>6 DEF Promote, RankPromote, RollPromote
  <1>7. ASSUME NEW r \in Requests, RequestFault(r)
        PROVE  rev' = rev
    BY <1>7 DEF RequestFault
  <1>8. ASSUME NEW w \in RankWorkers, RankFault(w) \/ RankCrash(w)
        PROVE  rev' = rev
    BY <1>8 DEF RankFault, RankCrash
  <1>9. CASE CacheExpire \/ \E k \in JobKinds : EvictCompleted(k)
    BY <1>9 DEF CacheExpire, EvictCompleted
  <1>10. CASE UNCHANGED vars
    BY <1>10 DEF vars
  <1>11. QED
    BY <1>1, <1>2, <1>3, <1>4, <1>5, <1>6, <1>7, <1>8, <1>9, <1>10 DEF Next, Fault

\* A ranking worker that has the results reads them once, as they are by then.
LEMMA RankerReads ==
  ASSUME TypeOK, [Next]_vars, NEW w \in RankWorkers, HasRead(w)'
  PROVE  \/ HasRead(w) /\ rankW'[w].final = rankW[w].final
         \/ rankW'[w].final \in {0, rev["FINAL"]}
  <1> USE DEF HasRead
  <1>0. rankW \in [RankWorkers -> RankWork]
    BY DEF TypeOK
  <1>1. CASE rankW' = rankW
    BY <1>1
  <1>2. ASSUME NEW v \in RankWorkers, RankTake(v)
        PROVE  rankW'[w] = rankW[w]
    <2> DEFINE n == [NoRankWork EXCEPT !.job = Head(rankWait),
                       !.pc = IF Head(rankWait) = "recalc" THEN "merit" ELSE "lock"]
    <2>1. rankW' = [rankW EXCEPT ![v] = n]
      BY <1>2 DEF RankTake
    <2>2. n.pc \in {"merit", "lock"}
      BY DEF NoRankWork
    <2> HIDE DEF n
    <2>3. QED
      BY <1>0, <2>1, <2>2
  <1>3. ASSUME NEW v \in RankWorkers,
               RankFinish(v) \/ RankFault(v) \/ RankCrash(v) \/
               (RankThrows(v) /\ rankW' # rankW)
        PROVE  rankW'[w] = rankW[w]
    <2>1. rankW' = [rankW EXCEPT ![v] = NoRankWork]
      BY <1>3 DEF RankFinish, RankFault, RankCrash, RankThrows
    <2>2. QED
      BY <1>0, <2>1 DEF NoRankWork
  <1>4. ASSUME NEW v \in RankWorkers, RankLockCheck(v)
        PROVE  rankW'[w] = rankW[w] \/ rankW' = rankW
    <2>1. CASE RankThrows(v)
      BY <1>3, <2>1
    <2>2. CASE rankW' = [rankW EXCEPT ![v].pc = "merit"]
      BY <1>0, <2>2 DEF RankWork
    <2>3. QED
      BY <1>4, <2>1, <2>2 DEF RankLockCheck, RankStep
  <1>5. ASSUME NEW v \in RankWorkers, RankMerit(v)
        PROVE  \/ rankW'[w] = rankW[w] \/ rankW' = rankW
               \/ rankW'[w].final \in {0, rev["FINAL"]}
    <2>1. CASE RankThrows(v)
      BY <1>3, <2>1
    <2>2. CASE ~RankThrows(v)
      <3>1. PICK f \in {0, rev["FINAL"]}, pc \in {"admission", "enqueue"} :
              rankW' = [rankW EXCEPT ![v].final = f, ![v].pc = pc]
        BY <1>5, <2>2 DEF RankMerit, PublishedRev
      <3>2. rankW' = [rankW EXCEPT ![v] = [rankW[v] EXCEPT !.final = f, !.pc = pc]]
        BY <3>1
      <3>3. rankW[v] \in RankWork /\ (w # v => rankW'[w] = rankW[w])
        BY <1>0, <3>2
      <3>4. [rankW[v] EXCEPT !.final = f, !.pc = pc].final = f
        BY <3>3 DEF RankWork
      <3>5. w = v => rankW'[w].final = f
        BY <1>0, <3>2, <3>4
      <3>6. QED
        BY <3>3, <3>5
    <2>3. QED
      BY <2>1, <2>2
  <1>6. ASSUME NEW v \in RankWorkers, RankAdmission(v)
        PROVE  \/ rankW'[w] = rankW[w] \/ rankW' = rankW
               \/ HasRead(w) /\ rankW'[w].final = rankW[w].final
    <2>1. CASE RankThrows(v)
      BY <1>3, <2>1
    <2>2. CASE ~RankThrows(v)
      <3>1. PICK a : rankW' = [rankW EXCEPT ![v].admission = a, ![v].pc = "enqueue"]
        BY <1>6, <2>2 DEF RankAdmission
      <3>2. rankW' = [rankW EXCEPT ![v] =
                        [rankW[v] EXCEPT !.admission = a, !.pc = "enqueue"]]
        BY <3>1
      <3>3. rankW[v] \in RankWork /\ rankW[v].pc = "admission"
            /\ (w # v => rankW'[w] = rankW[w])
        BY <1>0, <1>6, <3>2 DEF RankAdmission
      <3>4. [rankW[v] EXCEPT !.admission = a, !.pc = "enqueue"].final = rankW[v].final
        BY <3>3 DEF RankWork
      <3>5. w = v => rankW'[w].final = rankW[v].final
        BY <1>0, <3>2, <3>4
      <3>6. QED
        BY <3>3, <3>5
    <2>3. QED
      BY <2>1, <2>2
  <1>7. ASSUME NEW v \in RankWorkers, RankEnqueueRoll(v)
        PROVE  rankW'[w] = rankW[w]
    BY <1>0, <1>7 DEF RankEnqueueRoll, AddRollJob, RankStep, RankWork
  <1>8. \/ rankW' = rankW
        \/ \E v \in RankWorkers : Rank(v) \/ RankFault(v) \/ RankCrash(v)
    <2>1. ASSUME NEW r \in Requests, Call(r) \/ Handle(r)
          PROVE  rankW' = rankW
      BY <2>1 DEF Call, Handle, EnterRead, PublishRead, GenerateLockCheck,
         RecalculateBegin, UnlockBegin, ReadMiss, UnpublishRead,
         EnterWrite, PublishSet, AutoLockCheck, AutoSkip, UnpublishSet,
         CheckFinal, CheckAdmission, Unlock, AuditUnlock,
         Enqueue, AuditAuto, ClearCache, ReadSnapshot, CacheSet, rankVars
    <2>2. ASSUME NEW v \in RollWorkers, Roll(v) \/ RollFault(v) \/ RollCrash(v)
          PROVE  rankW' = rankW
      BY <2>2 DEF Roll, RollTake, RollAcquire, RollSaveHistory, SaveHistory,
                  RollCommit, Commit, RollDelCache, RollFault, RollCrash, rankVars
    <2>3. CASE \/ CacheExpire \/ Promote
               \/ \E k \in JobKinds : EvictCompleted(k)
               \/ \E r \in Requests : RequestFault(r)
               \/ UNCHANGED vars
      BY <2>3 DEF CacheExpire, Promote, RankPromote, RollPromote, EvictCompleted,
         RequestFault, vars, rankVars
    <2>4. QED
      BY <2>1, <2>2, <2>3 DEF Next, Fault
  <1>9. QED
    BY <1>1, <1>2, <1>3, <1>4, <1>5, <1>6, <1>7, <1>8 DEF Rank

\* Only RankEnqueueRoll adds a roll job, and no step changes what one rests on.
LEMMA FinalsKept ==
  ASSUME TypeOK, [Next]_vars, \A w \in RankWorkers : ~RankEnqueueRoll(w)
  PROVE  /\ DOMAIN rollJobs' = DOMAIN rollJobs
         /\ \A j \in DOMAIN rollJobs : rollJobs'[j].final = rollJobs[j].final
  <1>1. CASE UNCHANGED <<rollJobs, rollWait, rollW>>
    BY <1>1
  <1>2. ASSUME NEW w \in RollWorkers, RollTake(w)
        PROVE  /\ DOMAIN rollJobs' = DOMAIN rollJobs
               /\ \A j \in DOMAIN rollJobs : rollJobs'[j].final = rollJobs[j].final
    BY <1>2, TakeActivates
  <1>3. ASSUME NEW w \in RollWorkers, RollDelCache(w)
        PROVE  /\ DOMAIN rollJobs' = DOMAIN rollJobs
               /\ \A j \in DOMAIN rollJobs : rollJobs'[j].final = rollJobs[j].final
    <2> DEFINE j == rollW[w].job
    <2>1. /\ rollJobs' = [rollJobs EXCEPT ![j].state = "completed"]
          /\ j \in DOMAIN rollJobs
      BY <1>3, QueueTypes DEF RollDelCache, Busy
    <2> HIDE DEF j
    <2>2. QED
      BY <2>1, OneStateChanges
  <1>4. ASSUME NEW w \in RollWorkers, RollAcquire(w) \/ RollSaveHistory(w) \/ RollCommit(w)
        PROVE  rollJobs' = rollJobs
    BY <1>4 DEF RollAcquire, RollSaveHistory, SaveHistory, RollCommit, Commit
  <1>5. ASSUME NEW w \in RollWorkers, RollFault(w) \/ RollCrash(w)
        PROVE  /\ DOMAIN rollJobs' = DOMAIN rollJobs
               /\ \A j \in DOMAIN rollJobs : rollJobs'[j].final = rollJobs[j].final
    <2>1. DOMAIN rollJobs' = DOMAIN rollJobs
      BY <1>5 DEF RollFault, RollCrash
    <2>2. QED
      BY <1>5, <2>1, RollDataKept
  <1>6. ASSUME NEW j \in DOMAIN rollJobs, RollPromote(j)
        PROVE  /\ DOMAIN rollJobs' = DOMAIN rollJobs
               /\ \A i \in DOMAIN rollJobs : rollJobs'[i].final = rollJobs[i].final
    BY <1>6, OneStateChanges DEF RollPromote
  <1>7. QED
    BY <1>1, <1>2, <1>3, <1>4, <1>5, <1>6, QueueFrame DEF Roll

LEMMA ReadOrderStep ==
  ASSUME OneWorkerEach, TypeOK, TypeOK', ReadOrder, [Next]_vars
  PROVE  ReadOrder'
  <1> DEFINE r == rev["FINAL"]
  <1>1. r \in Nat /\ r' \in Nat
    BY DEF TypeOK, Exams
  <1>2. /\ \A w \in RankWorkers : rankW[w].final \in Nat /\ rankW'[w].final \in Nat
        /\ \A j \in DOMAIN rollJobs : j \in Nat /\ rollJobs[j].final \in Nat
        /\ \A j \in DOMAIN rollJobs' : j \in Nat /\ rollJobs'[j].final \in Nat
    <2>1. /\ rollJobs \in Seq(RollJob) /\ rollJobs' \in Seq(RollJob)
          /\ rankW \in [RankWorkers -> RankWork] /\ rankW' \in [RankWorkers -> RankWork]
      BY DEF TypeOK
    <2>2. /\ \A w \in RankWorkers : rankW[w] \in RankWork /\ rankW'[w] \in RankWork
          /\ \A j \in DOMAIN rollJobs : j \in Nat /\ rollJobs[j] \in RollJob
          /\ \A j \in DOMAIN rollJobs' : j \in Nat /\ rollJobs'[j] \in RollJob
      BY <2>1
    <2>3. QED
      BY <2>2 DEF RankWork, RollJob
  <1>3. /\ r <= r'
        /\ \A w \in RankWorkers : HasRead(w)' =>
             \/ HasRead(w) /\ rankW'[w].final = rankW[w].final
             \/ rankW'[w].final \in {0, r} 
    BY <1>1, RevGrows, RankerReads
  <1> HIDE DEF r
  <1>4. CASE \A w \in RankWorkers : ~RankEnqueueRoll(w)
    <2>1. /\ DOMAIN rollJobs' = DOMAIN rollJobs
          /\ \A j \in DOMAIN rollJobs : rollJobs'[j].final = rollJobs[j].final
      BY <1>4, FinalsKept
    <2>2. \A j \in DOMAIN rollJobs' : rollJobs'[j].final <= r'
      BY <1>1, <1>2, <1>3, <2>1 DEF ReadOrder, r
    <2>3. \A i, j \in DOMAIN rollJobs' :
            i < j => Later(rollJobs'[i].final, rollJobs'[j].final)
      BY <2>1 DEF ReadOrder
    <2>4. ASSUME NEW w \in RankWorkers, HasRead(w)'
          PROVE  /\ rankW'[w].final <= r'
                 /\ \A j \in DOMAIN rollJobs' :
                      Later(rollJobs'[j].final, rankW'[w].final)
      <3>1. CASE HasRead(w) /\ rankW'[w].final = rankW[w].final
        BY <1>1, <1>2, <1>3, <2>1, <3>1 DEF ReadOrder, r
      <3>2. CASE rankW'[w].final \in {0, r}
        BY <1>1, <1>2, <1>3, <2>1, <3>2 DEF ReadOrder, Later, r
      <3>3. QED
        BY <1>3, <2>4, <3>1, <3>2
    <2>5. QED
      BY <2>2, <2>3, <2>4 DEF ReadOrder, r
  <1>5. ASSUME NEW w \in RankWorkers, RankEnqueueRoll(w)
        PROVE  ReadOrder'
    <2> DEFINE n == Len(rollJobs) + 1
    <2>1. PICK job : job.final = rankW[w].final /\ rollJobs' = Append(rollJobs, job)
      BY <1>5 DEF RankEnqueueRoll, AddRollJob
    <2>2. rollJobs \in Seq(RollJob)
      BY DEF TypeOK
    <2>3. /\ DOMAIN rollJobs' = 1 .. n
          /\ DOMAIN rollJobs = 1 .. Len(rollJobs) /\ Len(rollJobs) \in Nat
          /\ \A i \in DOMAIN rollJobs : rollJobs'[i] = rollJobs[i]
          /\ rollJobs'[n].final = rankW[w].final
      BY <2>1, <2>2, AppendForm
    <2>4. HasRead(w) /\ rev' = rev /\ rankW' = [rankW EXCEPT ![w].pc = "finish"]
      BY <1>5 DEF RankEnqueueRoll, AddRollJob, RankStep, dbVars, HasRead
    <2>5. \A v \in RankWorkers : ~HasRead(v)'
      <3>1. rankW'[w].pc = "finish"
        BY <2>4 DEF TypeOK, RankWork
      <3>2. QED
        BY <3>1 DEF OneWorkerEach, HasRead
    <2>6. n \in Nat /\ \A i \in DOMAIN rollJobs : i # n
      BY <2>3
    <2>7. \A i \in DOMAIN rollJobs' : i = n \/ i \in DOMAIN rollJobs
      BY <2>3
    <2> HIDE DEF n
    <2>8. \A j \in DOMAIN rollJobs' : rollJobs'[j].final <= r'
      BY <2>3, <2>4, <2>7 DEF ReadOrder, r
    <2>9. ASSUME NEW i \in DOMAIN rollJobs', NEW j \in DOMAIN rollJobs', i < j
          PROVE  Later(rollJobs'[i].final, rollJobs'[j].final)
      <3>1. i \in DOMAIN rollJobs
        BY <2>3, <2>6, <2>7, <2>9
      <3>2. CASE j = n
        BY <2>3, <2>4, <3>1, <3>2 DEF ReadOrder
      <3>3. CASE j \in DOMAIN rollJobs
        BY <2>3, <2>9, <3>1, <3>3 DEF ReadOrder
      <3>4. QED
        BY <2>7, <3>2, <3>3
    <2>10. QED
      BY <2>5, <2>8, <2>9 DEF ReadOrder, r
  <1>6. QED
    BY <1>4, <1>5

\* Without a fault no roll job is ever delayed, so the wait list stays sorted.
LEMMA QueueOrderStep ==
  ASSUME OneWorkerEach, TypeOK, OnePlace, QueueOrder, [Next]_vars, ~Fault
  PROVE  QueueOrder'
  <1>1. CASE UNCHANGED <<rollJobs, rollWait, rollW>>
    BY <1>1 DEF QueueOrder, Busy
  <1>2. ASSUME NEW w \in RankWorkers, RankEnqueueRoll(w)
        PROVE  QueueOrder'
    <2> DEFINE n == Len(rollJobs) + 1
    <2>1. PICK job : job.state = "waiting" /\ rollJobs' = Append(rollJobs, job)
      BY <1>2 DEF RankEnqueueRoll, AddRollJob
    <2>2. rollWait' = Append(rollWait, n) /\ rollW' = rollW
      BY <1>2 DEF RankEnqueueRoll, AddRollJob
    <2>3. rollJobs \in Seq(RollJob) /\ rollWait \in Seq(1 .. Len(rollJobs))
      BY DEF TypeOK
    <2>4. /\ DOMAIN rollJobs' = 1 .. n
          /\ DOMAIN rollJobs = 1 .. Len(rollJobs) /\ Len(rollJobs) \in Nat
          /\ \A i \in DOMAIN rollJobs : rollJobs'[i] = rollJobs[i]
          /\ rollJobs'[n].state = "waiting"
      BY <2>1, <2>3, AppendForm
    <2>5. \A j \in DOMAIN rollJobs' : rollJobs'[j].state # "delayed"
      BY <2>4 DEF QueueOrder
    <2>6. \A j \in DOMAIN rollJobs : j < n
      BY <2>4
    <2> HIDE DEF n
    <2>7. /\ DOMAIN rollWait' = 1 .. (Len(rollWait) + 1)
          /\ DOMAIN rollWait = 1 .. Len(rollWait) /\ Len(rollWait) \in Nat
          /\ \A k \in DOMAIN rollWait : rollWait'[k] = rollWait[k]
          /\ rollWait'[Len(rollWait) + 1] = n
      BY <2>2, <2>3, AppendForm
    <2>8. ASSUME NEW k \in DOMAIN rollWait', NEW l \in DOMAIN rollWait', k < l
          PROVE  rollWait'[k] < rollWait'[l]
      <3>1. k \in DOMAIN rollWait
        BY <2>7, <2>8
      <3>2. CASE l \in DOMAIN rollWait
        BY <2>7, <2>8, <3>1, <3>2 DEF QueueOrder
      <3>3. CASE l = Len(rollWait) + 1
        BY <2>6, <2>7, <3>1, <3>3, QueueTypes
      <3>4. QED
        BY <2>7, <3>2, <3>3
    <2>9. ASSUME NEW v \in RollWorkers, NEW k \in DOMAIN rollWait', Busy(v)'
          PROVE  rollW'[v].job < rollWait'[k]
      <3>1. Busy(v) /\ rollW'[v] = rollW[v]
        BY <2>2, <2>9 DEF Busy
      <3>2. CASE k \in DOMAIN rollWait
        BY <2>7, <3>1, <3>2 DEF QueueOrder
      <3>3. CASE k = Len(rollWait) + 1
        BY <2>6, <2>7, <3>1, <3>3, QueueTypes
      <3>4. QED
        BY <2>7, <3>2, <3>3
    <2>10. QED
      BY <2>5, <2>8, <2>9 DEF QueueOrder
  <1>3. ASSUME NEW w \in RollWorkers, RollTake(w)
        PROVE  QueueOrder'
    <2>1. /\ \A k \in DOMAIN rollWait' :
               k + 1 \in DOMAIN rollWait /\ rollWait'[k] = rollWait[k + 1]
          /\ 1 \in DOMAIN rollWait /\ DOMAIN rollWait' = 1 .. (Len(rollWait) - 1)
          /\ rollW' = [rollW EXCEPT ![w] =
                         [pc |-> "acquire", job |-> rollWait[1], version |-> 0]]
          /\ Len(rollWait) \in Nat
      BY <1>3, TakeForm, QueueTypes
    <2>2. \A j \in DOMAIN rollJobs' : rollJobs'[j].state # "delayed"
      <3>1. /\ DOMAIN rollJobs' = DOMAIN rollJobs
            /\ rollJobs'[rollWait[1]].state = "active"
            /\ \A i \in DOMAIN rollJobs \ {rollWait[1]} : rollJobs'[i] = rollJobs[i]
        BY <1>3, TakeActivates
      <3>2. QED
        BY <3>1 DEF QueueOrder
    <2>3. ASSUME NEW k \in DOMAIN rollWait', NEW l \in DOMAIN rollWait', k < l
          PROVE  rollWait'[k] < rollWait'[l]
      <3>1. k + 1 < l + 1
        BY <2>1, <2>3
      <3>2. QED
        BY <2>1, <3>1 DEF QueueOrder
    <2>4. ASSUME NEW v \in RollWorkers, NEW k \in DOMAIN rollWait', Busy(v)'
          PROVE  rollW'[v].job < rollWait'[k]
      <3>1. v = w
        BY DEF OneWorkerEach
      <3>2. rollW'[v].job = rollWait[1]
        BY <2>1, <3>1, QueueTypes
      <3>3. 1 < k + 1
        BY <2>1
      <3>4. QED
        BY <2>1, <3>2, <3>3 DEF QueueOrder
    <2>5. QED
      BY <2>2, <2>3, <2>4 DEF QueueOrder
  <1>4. ASSUME NEW w \in RollWorkers,
               RollAcquire(w) \/ RollSaveHistory(w) \/ RollCommit(w)
        PROVE  QueueOrder'
    <2>1. /\ rollJobs' = rollJobs /\ rollWait' = rollWait
          /\ Busy(w) /\ rollW \in [RollWorkers -> RollWork]
      BY <1>4 DEF RollAcquire, RollSaveHistory, SaveHistory, RollCommit, Commit,
                  RollStep, Busy, TypeOK
    <2>2. \/ rollW' = [rollW EXCEPT ![w].pc = "commit", ![w].version = Latest + 1]
          \/ rollW' = [rollW EXCEPT ![w].pc = "save"]
          \/ rollW' = [rollW EXCEPT ![w].pc = "del"]
      BY <1>4 DEF RollAcquire, RollSaveHistory, SaveHistory, RollCommit, Commit, RollStep
    <2>3. \A v \in RollWorkers : rollW'[v].job = rollW[v].job /\ (Busy(v)' => Busy(v))
      BY <2>1, <2>2 DEF RollWork, Busy
    <2>4. QED
      BY <2>1, <2>3 DEF QueueOrder
  <1>5. ASSUME NEW w \in RollWorkers, RollDelCache(w)
        PROVE  QueueOrder'
    <2> DEFINE j == rollW[w].job
    <2>1. /\ rollJobs' = [rollJobs EXCEPT ![j].state = "completed"]
          /\ rollW' = [rollW EXCEPT ![w] = NoRollWork] /\ rollWait' = rollWait
          /\ j \in DOMAIN rollJobs
      BY <1>5, QueueTypes DEF RollDelCache, Busy
    <2> HIDE DEF j
    <2>2. /\ DOMAIN rollJobs' = DOMAIN rollJobs
          /\ rollJobs'[j].state = "completed"
          /\ \A i \in DOMAIN rollJobs \ {j} : rollJobs'[i] = rollJobs[i]
      BY <2>1, OneStateChanges
    <2>3. \A v \in RollWorkers : Busy(v)' => Busy(v) /\ rollW'[v] = rollW[v]
      BY <2>1, QueueTypes DEF Busy, NoRollWork
    <2>4. \A i \in DOMAIN rollJobs' : rollJobs'[i].state # "delayed"
      BY <2>2 DEF QueueOrder
    <2>5. QED
      BY <2>1, <2>3, <2>4 DEF QueueOrder
  <1>6. ASSUME NEW j \in DOMAIN rollJobs, RollPromote(j)
        PROVE  QueueOrder'
    BY <1>6 DEF RollPromote, QueueOrder
  <1>7. QED
    BY <1>1, <1>2, <1>3, <1>4, <1>5, <1>6, QueueFrame DEF Roll, Fault

\* Which workers are still to commit, and the jobs they have, only changes when
\* a job is taken, committed or given up.
LEMMA BehindStep ==
  ASSUME OneWorkerEach, TypeOK, QueueOrder, [Next]_vars, ~Fault,
         NEW j \in DOMAIN rollJobs, Behind(j)
  PROVE  j \in DOMAIN rollJobs' /\ Behind(j)'
  <1> USE DEF Behind
  <1>1. CASE UNCHANGED <<rollJobs, rollWait, rollW>>
    BY <1>1
  <1>2. ASSUME NEW w \in RankWorkers, RankEnqueueRoll(w)
        PROVE  j \in DOMAIN rollJobs' /\ Behind(j)'
    <2> DEFINE n == Len(rollJobs) + 1
    <2>1. PICK job : rollJobs' = Append(rollJobs, job)
      BY <1>2 DEF RankEnqueueRoll, AddRollJob
    <2>2. rollWait' = Append(rollWait, n) /\ rollW' = rollW
      BY <1>2 DEF RankEnqueueRoll, AddRollJob
    <2>3. rollJobs \in Seq(RollJob) /\ rollWait \in Seq(1 .. Len(rollJobs))
      BY DEF TypeOK
    <2>4. j \in DOMAIN rollJobs' /\ j < n
      BY <2>1, <2>3, AppendForm
    <2> HIDE DEF n
    <2>5. /\ DOMAIN rollWait' = 1 .. (Len(rollWait) + 1)
          /\ DOMAIN rollWait = 1 .. Len(rollWait) /\ Len(rollWait) \in Nat
          /\ \A k \in DOMAIN rollWait : rollWait'[k] = rollWait[k]
          /\ rollWait'[Len(rollWait) + 1] = n
      BY <2>2, <2>3, AppendForm
    <2>6. ASSUME NEW k \in DOMAIN rollWait'
          PROVE  j < rollWait'[k]
      <3>1. k \in DOMAIN rollWait \/ k = Len(rollWait) + 1
        BY <2>5
      <3>2. QED
        BY <2>4, <2>5, <3>1
    <2>7. QED
      BY <2>2, <2>4, <2>6
  <1>3. ASSUME NEW w \in RollWorkers, RollTake(w)
        PROVE  j \in DOMAIN rollJobs' /\ Behind(j)'
    <2>1. /\ \A k \in DOMAIN rollWait' :
               k + 1 \in DOMAIN rollWait /\ rollWait'[k] = rollWait[k + 1]
          /\ 1 \in DOMAIN rollWait
          /\ rollW' = [rollW EXCEPT ![w] =
                         [pc |-> "acquire", job |-> rollWait[1], version |-> 0]]
      BY <1>3, TakeForm
    <2>2. ASSUME NEW v \in RollWorkers
          PROVE  j < rollW'[v].job
      <3>1. v = w
        BY DEF OneWorkerEach
      <3>2. rollW'[v].job = rollWait[1]
        BY <2>1, <3>1, QueueTypes
      <3>3. QED
        BY <2>1, <3>2
    <2>3. j \in DOMAIN rollJobs'
      BY <1>3, TakeActivates
    <2>4. QED
      BY <2>1, <2>2, <2>3
  <1>4. ASSUME NEW w \in RollWorkers,
               RollAcquire(w) \/ RollSaveHistory(w) \/ RollCommit(w)
        PROVE  j \in DOMAIN rollJobs' /\ Behind(j)'
    <2>1. /\ rollJobs' = rollJobs /\ rollWait' = rollWait
          /\ rollW[w].pc \in {"acquire", "save", "commit"}
          /\ rollW \in [RollWorkers -> RollWork]
      BY <1>4 DEF RollAcquire, RollSaveHistory, SaveHistory, RollCommit, Commit,
                  RollStep, TypeOK
    <2>2. \/ rollW' = [rollW EXCEPT ![w].pc = "commit", ![w].version = Latest + 1]
          \/ rollW' = [rollW EXCEPT ![w].pc = "save"]
          \/ rollW' = [rollW EXCEPT ![w].pc = "del"]
      BY <1>4 DEF RollAcquire, RollSaveHistory, SaveHistory, RollCommit, Commit, RollStep
    <2>3. \A v \in RollWorkers :
            /\ rollW'[v].job = rollW[v].job
            /\ v = w \/ rollW'[v] = rollW[v]
      BY <2>1, <2>2 DEF RollWork
    <2>4. QED
      BY <2>1, <2>3
  <1>5. ASSUME NEW w \in RollWorkers, RollDelCache(w)
        PROVE  j \in DOMAIN rollJobs' /\ Behind(j)'
    <2>1. /\ rollW' = [rollW EXCEPT ![w] = NoRollWork] /\ rollWait' = rollWait
          /\ DOMAIN rollJobs' = DOMAIN rollJobs
      BY <1>5 DEF RollDelCache
    <2>2. \A v \in RollWorkers : rollW'[v] = NoRollWork \/ rollW'[v] = rollW[v]
      BY <2>1, QueueTypes
    <2>3. QED
      BY <2>1, <2>2 DEF NoRollWork
  <1>6. ASSUME NEW i \in DOMAIN rollJobs, RollPromote(i)
        PROVE  FALSE
    BY <1>6 DEF RollPromote, QueueOrder
  <1>7. QED
    BY <1>1, <1>2, <1>3, <1>4, <1>5, <1>6, QueueFrame DEF Roll, Fault

LEMMA HistoryOrderStep ==
  ASSUME OneWorkerEach, TypeOK, ReadOrder, QueueOrder, SnapshotsBehind, HistoryOrder,
         [Next]_vars, ~Fault
  PROVE  SnapshotsBehind' /\ HistoryOrder'
  <1>1. \A j \in DOMAIN rollJobs : Behind(j) => j \in DOMAIN rollJobs' /\ Behind(j)'
    BY BehindStep
  <1>2. CASE \A w \in RankWorkers : ~RankEnqueueRoll(w)
    <2>1. /\ DOMAIN rollJobs' = DOMAIN rollJobs
          /\ \A j \in DOMAIN rollJobs : rollJobs'[j].final = rollJobs[j].final
      BY <1>2, FinalsKept
    <2>2. CASE history' = history
      BY <1>1, <2>1, <2>2 DEF SnapshotsBehind, HistoryOrder
    <2>3. ASSUME NEW w \in RollWorkers, RollCommit(w)
          PROVE  SnapshotsBehind' /\ HistoryOrder'
      <3>0. PICK j \in DOMAIN rollJobs : j = rollW[w].job
        BY <2>3, QueueTypes DEF RollCommit, Commit, RollStep, Busy
      <3> DEFINE s == [version |-> rollW[w].version, kind |-> rollJobs[j].kind,
                        final |-> rollJobs[j].final,
                        admission |-> rollJobs[j].admission]
                 n == Len(history) + 1
      <3>1. /\ history' = Append(history, s) /\ history \in Seq(Snapshot)
            /\ rollW[w].pc = "commit" /\ rollW' = [rollW EXCEPT ![w].pc = "del"]
            /\ rollJobs' = rollJobs /\ rollWait' = rollWait
            /\ rollW \in [RollWorkers -> RollWork]
        BY <2>3, <3>0 DEF RollCommit, Commit, RollStep, TypeOK
      <3>2. s.final = rollJobs[j].final
        OBVIOUS
      <3> HIDE DEF s
      <3>3. /\ DOMAIN history' = 1 .. n
            /\ DOMAIN history = 1 .. Len(history) /\ Len(history) \in Nat
            /\ \A i \in DOMAIN history : history'[i] = history[i]
            /\ history'[n].final = rollJobs[j].final
        BY <3>1, <3>2, AppendForm
      <3>4. Busy(w)
        BY <3>1 DEF Busy
      <3>5. \A v \in RollWorkers : rollW'[v].pc = "del"
        BY <3>1 DEF OneWorkerEach, RollWork
      <3>6. \A k \in DOMAIN rollWait' : j < rollWait'[k]
        BY <3>0, <3>1, <3>4 DEF QueueOrder
      <3>7. j \in DOMAIN rollJobs' /\ Behind(j)'
        BY <3>1, <3>5, <3>6 DEF Behind
      <3>8. ASSUME NEW h \in DOMAIN history
            PROVE  \E i \in DOMAIN rollJobs' :
                     /\ history'[h].final = rollJobs'[i].final
                     /\ Behind(i)' /\ i < j
        <4>1. PICK i \in DOMAIN rollJobs :
                history[h].final = rollJobs[i].final /\ Behind(i)
          BY DEF SnapshotsBehind
        <4>2. i < j
          BY <3>0, <3>1, <4>1 DEF Behind
        <4>3. QED
          BY <1>1, <3>1, <3>3, <4>1, <4>2
      <3>9. SnapshotsBehind'
        <4>1. ASSUME NEW h \in DOMAIN history'
              PROVE  \E i \in DOMAIN rollJobs' :
                       history'[h].final = rollJobs'[i].final /\ Behind(i)'
          <5>1. CASE h \in DOMAIN history
            BY <3>8, <5>1
          <5>2. CASE h = n
            BY <3>1, <3>3, <3>7, <5>2
          <5>3. QED
            BY <3>3, <5>1, <5>2
        <4>2. QED
          BY <4>1 DEF SnapshotsBehind
      <3>10. HistoryOrder'
        <4>1. ASSUME NEW h \in DOMAIN history', NEW i \in DOMAIN history', h < i
              PROVE  Later(history'[h].final, history'[i].final)
          <5>1. h \in DOMAIN history
            BY <3>3, <4>1
          <5>2. CASE i \in DOMAIN history
            BY <3>3, <4>1, <5>1, <5>2 DEF HistoryOrder
          <5>3. CASE i = n
            <6>1. PICK k \in DOMAIN rollJobs :
                    history'[h].final = rollJobs[k].final /\ k < j
              BY <3>1, <3>8, <5>1
            <6>2. Later(rollJobs[k].final, rollJobs[j].final)
              BY <6>1 DEF ReadOrder
            <6>3. QED
              BY <3>3, <5>3, <6>1, <6>2
          <5>4. QED
            BY <3>3, <5>2, <5>3
        <4>2. QED
          BY <4>1 DEF HistoryOrder
      <3>11. QED
        BY <3>9, <3>10
    <2>4. QED
      BY <2>2, <2>3, HistoryStep
  <1>3. ASSUME NEW w \in RankWorkers, RankEnqueueRoll(w)
        PROVE  SnapshotsBehind' /\ HistoryOrder'
    <2>1. PICK job : rollJobs' = Append(rollJobs, job)
      BY <1>3 DEF RankEnqueueRoll, AddRollJob
    <2>2. rollJobs \in Seq(RollJob) /\ history' = history
      BY <1>3 DEF TypeOK, RankEnqueueRoll, AddRollJob, dbVars
    <2>3. \A j \in DOMAIN rollJobs : rollJobs'[j] = rollJobs[j]
      BY <2>1, <2>2, AppendForm
    <2>4. QED
      BY <1>1, <2>2, <2>3 DEF SnapshotsBehind, HistoryOrder
  <1>4. QED
    BY <1>2, <1>3

LEMMA OrderInvStep ==
  ASSUME OneWorkerEach, TypeOK, TypeOK', OnePlace, OrderInv, [Next]_vars
  PROVE  OrderInv'
  <1>1. ReadOrder'
    BY ReadOrderStep DEF OrderInv
  <1>2. ASSUME faults' = 0
        PROVE  QueueOrder' /\ SnapshotsBehind' /\ HistoryOrder'
    <2>1. faults = 0
      BY <1>2, FaultsCount
    <2>2. ~Fault
      BY <1>2, <2>1, FaultCounts
    <2>3. ReadOrder /\ QueueOrder /\ SnapshotsBehind /\ HistoryOrder
      BY <2>1 DEF OrderInv
    <2>4. QED
      BY <2>2, <2>3, QueueOrderStep, HistoryOrderStep
  <1>3. QED
    BY <1>1, <1>2 DEF OrderInv

\* With one worker for each queue and no retry, a later snapshot never rests on
\* older FINAL results than an earlier one, however publishing, entering and
\* generating interleave (queue.service.ts:40-60, roll.engine.ts:61-75).
THEOREM SnapshotsInOrder ==
  ASSUME OneWorkerEach
  PROVE  Spec => []BasisMonotone
  <1>1. Init => OnePlace /\ OrderInv
    <2>1. ASSUME Init PROVE ReadOrder /\ QueueOrder /\ SnapshotsBehind /\ HistoryOrder
      <3>1. /\ DOMAIN rollJobs = {} /\ DOMAIN rollWait = {} /\ DOMAIN history = {}
            /\ \A w \in RankWorkers : ~HasRead(w)
        BY <2>1 DEF Init, HasRead, NoRankWork
      <3>2. QED
        BY <3>1 DEF ReadOrder, QueueOrder, SnapshotsBehind, HistoryOrder
    <2>2. QED
      BY <2>1, InitOnePlace DEF OrderInv
  <1>2. LedgerInv => TypeOK
    BY DEF LedgerInv
  <1>3. /\ TypeOK /\ TypeOK' /\ OnePlace /\ OrderInv /\ [Next]_vars
        => OnePlace' /\ OrderInv'
    BY OnePlaceStep, OrderInvStep
  <1>4. OrderInv => BasisMonotone
    BY DEF OrderInv, HistoryOrder, Later, BasisMonotone
  <1>5. QED
    BY <1>1, <1>2, <1>3, <1>4, LedgerInvariant, PTL DEF Spec

-----------------------------------------------------------------------------
(* The pipeline implements RankingLedger                                   *)

Versioned == [i \in 1 .. Len(history) |-> history[i].version]

LEMMA VersionedType ==
  ASSUME TypeOK
  PROVE  Versioned \in Seq(Nat) /\ Len(Versioned) = Len(history)
  <1>1. Len(history) \in Nat
    BY DEF TypeOK
  <1>2. ASSUME NEW i \in 1 .. Len(history)
        PROVE  history[i].version \in Nat
    <2>1. history[i] \in Snapshot
      BY DEF TypeOK
    <2>2. QED
      BY <2>1 DEF Snapshot
  <1>3. Versioned \in [1 .. Len(history) -> Nat]
    BY <1>2 DEF Versioned
  <1>4. QED
    BY <1>1, <1>3, SeqDef, LenProperties

\* What a step that is no COMMIT does to the rows the ledger is about.
LEMMA NoCommitStep ==
  ASSUME TypeOK, [Next]_vars, ~ \E w \in RollWorkers : RollCommit(w)
  PROVE  /\ history' = history
         /\ audit'["GENERATE"] = audit["GENERATE"]
         /\ locked' = locked \/ (locked' = FALSE /\ cache' = cache)
  <1> USE DEF dbVars, rankVars, rollVars, reqVars
  <1>1. history' = history
    BY HistoryStep
  <1>2. ASSUME NEW r \in Requests, Call(r)
        PROVE  UNCHANGED <<audit, locked>>
    BY <1>2 DEF Call, EnterRead, PublishRead, UnpublishRead, GenerateLockCheck,
                RecalculateBegin, UnlockBegin, ReadMiss
  <1>3. ASSUME NEW r \in Requests, Handle(r)
        PROVE  /\ \/ audit' = audit
                  \/ \E a \in {"AUTO_TRIGGER", "AUTO_TRIGGER_SKIP", "UNLOCK"} : Count(a)
               /\ locked' = locked \/ (locked' = FALSE /\ cache' = cache)
    BY <1>3 DEF Handle, EnterWrite, PublishSet, AutoLockCheck, AutoSkip,
                UnpublishSet, CheckFinal, CheckAdmission, Unlock, AuditUnlock,
                Enqueue, AuditAuto, ClearCache, ReadSnapshot, CacheSet
  <1>4. ASSUME NEW a \in {"AUTO_TRIGGER", "AUTO_TRIGGER_SKIP", "UNLOCK"}, Count(a)
        PROVE  audit'["GENERATE"] = audit["GENERATE"]
    BY <1>4 DEF Count, TypeOK, AuditActions
  <1>5. ASSUME NEW w \in RankWorkers, Rank(w) \/ RankFault(w) \/ RankCrash(w)
        PROVE  UNCHANGED <<audit, locked>>
    BY <1>5 DEF Rank, RankTake, RankLockCheck, RankMerit, RankAdmission,
                RankEnqueueRoll, AddRollJob, RankFinish, RankFault, RankCrash
  <1>6. ASSUME NEW w \in RollWorkers, Roll(w) \/ RollFault(w) \/ RollCrash(w)
        PROVE  UNCHANGED <<audit, locked>>
    BY <1>6 DEF Roll, RollTake, RollAcquire, RollSaveHistory, SaveHistory,
                RollDelCache, RollFault, RollCrash
  <1>7. CASE \/ Promote \/ CacheExpire
             \/ \E r \in Requests : RequestFault(r)
             \/ \E k \in JobKinds : EvictCompleted(k)
             \/ UNCHANGED vars
    BY <1>7 DEF Promote, RankPromote, RollPromote, CacheExpire, RequestFault,
                EvictCompleted, vars
  <1>8. QED
    BY <1>1, <1>2, <1>3, <1>4, <1>5, <1>6, <1>7 DEF Next, Fault

\* A COMMIT appends the next version to the ledger.
LEMMA CommitStep ==
  ASSUME LedgerInv, NEW w \in RollWorkers, RollCommit(w)
  PROVE  /\ Versioned' = Append(Versioned, Len(Versioned) + 1)
         /\ locked' = TRUE
         /\ audit'["GENERATE"] = audit["GENERATE"] + 1
         /\ cache' = cache
  <1>1. rollW[w].version = Len(history) + 1
    BY DEF LedgerInv, Consecutive, RollCommit, Commit, RollStep
  <1>2. PICK s \in Snapshot : /\ s.version = Len(history) + 1
                             /\ history' = Append(history, s)
    BY <1>1, CommitAppends DEF LedgerInv
  <1>3. Len(history) \in Nat /\ history \in Seq(Snapshot)
    BY DEF LedgerInv, TypeOK
  <1>4. /\ Len(history') = Len(history) + 1
        /\ history'[Len(history) + 1] = s
        /\ \A i \in 1 .. Len(history) : history'[i] = history[i]
    BY <1>2, <1>3
  <1>5. Versioned \in Seq(Nat) /\ Len(Versioned) = Len(history)
    BY VersionedType DEF LedgerInv
  <1>6. Versioned' = Append(Versioned, Len(Versioned) + 1)
    <2>1. Versioned' = [i \in 1 .. Len(history) + 1 |-> history'[i].version]
      BY <1>4 DEF Versioned
    <2>2. Append(Versioned, Len(history) + 1) =
            [i \in 1 .. Len(history) + 1 |->
               IF i = Len(history) + 1 THEN Len(history) + 1 ELSE Versioned[i]]
      BY <1>3, <1>5
    <2>3. \A i \in 1 .. Len(history) + 1 :
            history'[i].version =
              IF i = Len(history) + 1 THEN Len(history) + 1 ELSE Versioned[i]
      BY <1>2, <1>3, <1>4 DEF Versioned
    <2>4. QED
      BY <1>5, <2>1, <2>2, <2>3
  <1>7. audit'["GENERATE"] = audit["GENERATE"] + 1
    BY DEF RollCommit, Commit, Count, LedgerInv, TypeOK, AuditActions
  <1>8. QED
    BY <1>6, <1>7 DEF RollCommit, Commit

\* The versions of ranking_history, the lock, the GENERATE audit rows and the
\* cached version behave as RankingLedger says, for any number of roll workers,
\* whatever fails or is retried (roll.engine.ts:50-112).
THEOREM PipelineImplementsLedger == Spec => ImplementsLedger
  <1>1. Init => Ledger!Init
    <2> SUFFICES ASSUME Init
                 PROVE  Ledger!Init
      OBVIOUS
    <2>1. Versioned = <<>>
      BY DEF Init, Versioned
    <2>2. QED
      BY <2>1 DEF Init, Versioned, Ledger!Init, AuditActions
  <1>2. LedgerInv /\ LedgerInv' /\ [Next]_vars => [Ledger!Next]_(Ledger!vars)
    <2> SUFFICES ASSUME LedgerInv, LedgerInv', [Next]_vars
                 PROVE  [Ledger!Next]_(Ledger!vars)
      OBVIOUS
    <2>1. ASSUME NEW w \in RollWorkers, RollCommit(w)
          PROVE  Ledger!Generate
      BY <2>1, CommitStep DEF Versioned, Ledger!Generate
    <2>2. CASE ~ \E w \in RollWorkers : RollCommit(w)
      <3>1. /\ history' = history
            /\ audit'["GENERATE"] = audit["GENERATE"]
            /\ locked' = locked \/ (locked' = FALSE /\ cache' = cache)
        BY <2>2, NoCommitStep DEF LedgerInv
      <3>2. Versioned' = Versioned /\ Len(Versioned) = Len(history)
        BY <3>1, VersionedType DEF LedgerInv, Versioned
      <3>3. cache' \in 0 .. Len(history)
        BY <3>1 DEF LedgerInv, TypeOK, ServedCommitted
      <3>4. CASE locked' = locked
        BY <3>1, <3>2, <3>3, <3>4 DEF Versioned, Ledger!Next, Ledger!Serve
      <3>5. CASE locked' = FALSE /\ cache' = cache
        BY <3>1, <3>2, <3>5 DEF Versioned, Ledger!Next, Ledger!Unlock
      <3>6. QED
        BY <3>1, <3>4, <3>5
    <2>3. QED
      BY <2>1, <2>2 DEF Ledger!Next
  <1>3. QED
    BY <1>1, <1>2, LedgerInvariant, PTL DEF Spec, ImplementsLedger, Ledger!Spec
=============================================================================
