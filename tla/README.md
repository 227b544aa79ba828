# Verification of the student ERP backend

TLA+ models of the Express / PostgreSQL / Redis / BullMQ school ERP under `src/`,
TLC runs over small instances of them, and TLAPS proofs about the core.
`PROJECT.json` lists every run, the source lines each definition stands for, the
hazards the properties aim at, the disagreements between code and documentation
the runs show, and the theorems.

## 1. The system

One Node process serves HTTP (`src/src/server.ts`) and runs the two BullMQ workers
(`src/src/jobs`), which `jobs/index.ts` also allows to be started as a separate
process, so several copies of either may run.  All state is in PostgreSQL and Redis.
`config/db.ts` gives every statement its own pooled autocommit connection;
only callers of `withTransaction` group statements.  Node interleaves handlers at
every `await`, and several processes do so without even that restriction, so
between two statements of a handler anything may happen.

| component | state | operations | what makes it correct |
|---|---|---|---|
| Exams and results (`modules/exams`, `modules/exam-results`) | `exams.status`, `exam_results` | create, update, delete, enter marks, publish, unpublish | results of a published exam do not change; a published exam has results; publishing the last missing exam triggers the ranking |
| Ranking service (`modules/ranking`, `modules/ranking-locks`) | `ranking_locks`, `ranking_history`, `ranking_audit_log`, Redis key `ranking:current:*` | generate, recalculate, unlock, auto-trigger, read | a locked ranking is not recomputed unless unlocked; every unlock is audited; readers see committed snapshots |
| Queues and workers (`queues`, `jobs`, `services/queue.service.ts`) | the BullMQ queues `ranking` and `roll` | enqueue with or without a jobId, process, retry three times with backoff, keep 500 completed jobs | no accepted job is lost, every job settles, the order of the results is kept |
| Ranking engine (`core/ranking.engine.ts`, the view `student_merit_list`) | none | merit list, admission scores, tie-break, FIFO | each student is ranked once, in the documented order |
| Roll engine (`core/roll.engine.ts`) | `student_enrollments.roll_number`, `.section_id`, history, lock, audit | one transaction under an advisory lock | all or nothing, one generation at a time, no seat beyond a section's capacity, no roll number twice |
| Sections and enrollments (`modules/sections`, `modules/student-enrollments`) | `sections.max_capacity`, `student_enrollments` | create, move, delete, set capacity | a section never holds more students than its capacity; one enrollment per student and session |
| Academic sessions (`modules/academic-sessions`) | `is_active`, `admission_test_enabled` | create, activate, deactivate, toggle | at most one session is active |
| Permissions (`core/permission.engine.ts`, `modules/roles`, `role-permissions`, `permissions`, `middlewares/rbac`) | `role_permissions`, Redis key `role_permissions:<role>` with a TTL of an hour | resolve, sync, assign, revoke, invalidate | a revoked permission stops being granted |
| Authentication (`modules/auth`, `modules/users`) | Redis refresh token per user, bcrypt hash, `is_active` | login, refresh with rotation, logout | a refresh token is good for one refresh; a disabled user gets no new token |
| Uploads (`modules/uploads`, `services/storage.service.ts`) | `uploads.status`, objects in S3 | presign, confirm, download, delete, restore, purge | a READY row has its object |
| Attendance (`modules/attendance`, `core/attendance.engine.ts`) | `student_attendance`, `attendance_logs` | mark, bulk mark, check in, check out | one row per student and day, one open check-in per staff member |
| People, classes, subjects, assignments (CRUD) | their tables, soft-deleted rows | check, then insert or update | uniqueness survives concurrent requests and soft deletion |
| HTTP layer (`server/app.ts`, `routes`, `middlewares`) | the routers, in their order of registration; `error_logs` | authenticate, dispatch, authorise, answer, log | a request reaches the handler it means, with the permission that one asks for |
| Validation and PATCH (`utils/validators.ts`, `utils/query.ts` and thirteen services) | none | check a body, build the UPDATE | the answer tells what became of the row |
| Lists (`utils/pagination.ts`, `utils/order.ts`, the repositories) | none | a page, a total, an order | following the pages gives every row |
| Bootstrap scripts (`database`, `package.json`) | tables, roles, permissions, grants | schema, migrate, seed, truncate, init, fresh | a script that stops leaves nothing half done; after the bootstrap the roles are there |
| Start-up and configuration (`config`, `server/server.ts`, `docs`) | none that handlers change | read the environment, listen, describe the API | not modelled |

The parts meet in four places.  Publishing an exam calls
`rankingService.autoTriggerAfterPublish`, which adds a job to the queue `ranking`;
its worker computes the ranked list and adds it as the payload of a job of the
queue `roll`; that worker writes sections and roll numbers into the enrollments
that the HTTP handlers of enrollments and sections also write; and every guarded
route asks the permission engine.  What is hard in this code follows from that:
checks and writes of one handler are separate statements, a list is computed
long before it is written, two queues retry what may already have been done,
and two caches are filled by readers and cleared by writers.  The complete list
of such hazards, each at its line, is in `PROJECT.json`.

## 2. Modules and plan

| module | models | status |
|---|---|---|
| `RankingLedger` | abstract specification: what the ranking promises, without queues or handlers | done |
| `RankingPipeline`, `MCRankingPipeline`, `RankingPipelineProofs` | exams, results, ranking service, both queues and workers, the roll transaction, ranking cache; refines `RankingLedger` | done |
| `RankingOrder`, `MCRankingOrder`, `RankingOrderProofs` | the orders of SQL view and JavaScript comparator, and the combined lists | done |
| `SectionSeats`, `MCSectionSeats`, `SectionSeatsProofs` | enrollments, sections, capacities, the placement of a ranked list | done |
| `PermissionCache`, `PermissionCacheProofs` | rows of a role, the cached permission set, concurrent changes | done |
| `Handlers` | what the modules below share: a bounded number of requests between two statements | done |
| `Uploads` | one file: its row, its object in S3, the presigned URL, the audit trail | done |
| `AcademicSessions` | activation in two UPDATEs with row locks, deactivation, deletion | done |
| `Attendance` | the bulk sheet of a day in one transaction, check-in and check-out | done |
| `Accounts` | users with the profiles of students and teachers, e-mail addresses, student codes | done |
| `SingleUseTokens` | abstract specification: one refresh token per user, exchanged in one step, good for one exchange | done |
| `RefreshTokens` | login, refresh with rotation, logout, password changes, deactivation; refines `SingleUseTokens` | done |
| `ExamResults` | the life of one exam and the marks entered for it | done |
| `References` | soft-deleted parents and the rows that point to them, for all links | done |
| `Names` | unique names among live rows, in seven tables with and without a constraint | done |
| `Patches` | the checks of a PATCH body and the UPDATE built from what they leave | done |
| `Listing` | pages, limits, totals and orders of sixteen lists | done |
| `HttpApi` | nineteen routers, both middlewares, the error handler | done |
| `Bootstrap` | the npm scripts that make and fill the database, with the transaction of the seed; the names they insert are checked against the guards of `HttpApi` | done |
| `MCRecords` | the modules from `Uploads` on, side by side, for TLC | done |
| `OrderLemmas` | finite sets in a strict order, least numbers: lemmas of `RankingOrderProofs` and `SectionSeatsProofs` | done |
| `AccessProofs` | proofs about `Accounts`, `RefreshTokens`, `HttpApi` and `Bootstrap` | done |
| `SchoolYearProofs` | proofs about `AcademicSessions` and `ExamResults` | done |
| `RecordsProofs` | proofs about `Uploads`, `References`, `Names`, `Attendance`, `Patches`, `Listing` and `MCRecords` | done |

The order is that of importance: the ranking is what the system exists for, the
seats are what it writes, permissions and tokens guard it, files and records are
around it.  `RankingPipeline` abstracts a ranked list to the revisions of the
results it was computed from; `RankingOrder` is what is inside such a list, and
`SectionSeats` starts where the roll job hands the list to the engine.  The three
are separate because each of them fills the state space TLC can search.  The
modules from `Uploads` on are about tables that no statement of another one
writes, so `MCRecords` does not multiply them: a variable `part` picks the one
that moves, and the others stand still.

What is left: `findExact` of subject assignments, and the percentages of
`attendance.engine`.

## 3. Models and code

A step of a model is one statement on PostgreSQL or Redis, or a group of reads
between which nothing relevant is written.  A handler is a record in `req` or
`task` with a program counter; its first step is a call that a client may make at
any time, and `Handle` are the steps that Node then takes.  The map in
`PROJECT.json` gives the lines of every definition.

**RankingPipeline** is one class and session.  `status` and `rev` stand for
the FINAL and the ADMISSION exam and the revision of their results; `history`,
`locked` and `audit` for the three ranking tables; `cache` for
`ranking:current:*`.  `rankJob` holds the two deterministic jobIds (`auto`,
`recalc`), `rollJobs` all jobs of the other queue, which have no jobId.  The
transaction of `generateRolls` is `RollAcquire` (BEGIN and the advisory lock),
`RollSaveHistory` (reads MAX(version)) and `RollCommit`; everything else it
writes becomes visible at COMMIT.  BullMQ itself is external and modelled from
its use: a job is taken once, retried `attempts` times after a delay, taken over
once when its worker dies, and `add` with a known jobId does nothing.
A fault is a statement that fails or a process that dies between two steps.

**RankingOrder** has rows as the view produces them (one per student, totals of
the published exams) and the two comparisons, field by field.  Microseconds of
PostgreSQL become milliseconds of a JavaScript `Date` by `Millis`.

**SectionSeats** has the row of every student in `student_enrollments` and the
rows of `sections`.  A handler is two steps: the check, all reads included, and the
write, whose parameters `task` holds in between; what the UPDATE's own WHERE
clause repeats is tested again in the write.  A roll job has a list (`Rank`), reads
the free seats (`TxSections`) and writes (`TxCommit`, or `TxRollback`).
The list is one that `buildCombinedRanking` can return (`CombinedRankings`): a merit
list and then everybody of the class who has no roll, which before the first generation
is everybody, or old results and admission results merged, where a student may be twice.
The UPDATEs run in the order of the list, so the last entry of a student is
the one that stays (`LastOf`), while the earlier one has used a seat and a number.
`NextPlace` is the `while` loop of `_assignWithSectionDistribution`.

**PermissionCache** is one role.  `row` distinguishes a missing row from a
soft-deleted one, because `assign` inserts in one case and restores in the other.
The transaction of a synchronisation has its UPDATE in two steps (snapshot; then
the rows are read again and locked, as READ COMMITTED does) and its upsert with
COMMIT in a third; `Locked` is the row locks of others.  `late` is a history
variable: the set was already out of date when it was stored.

The modules of the records have one shape.  A request is a record with a program
counter `pc`; a `...Call` is its first lookup, which decides whether it goes on,
and each later action is one statement.  In between anything else may happen, and
an `...Aborts` or `...Fault` may end the request, which rolls a transaction back
and leaves single statements done.  An `...Overlap` is a history variable: it
says that two requests have been in flight together, so that a property can tell
what the code keeps always from what it keeps for one request at a time.

**Uploads**: `file` is the row, `object` what S3 has under its key, `up` the
requests.  `ConfirmHead` is `headObject` with the comparison of sizes, `Purge` the
`deleteObject` of a file too large, `MarkReady` and `MarkFailed` the UPDATEs,
which miss a row deleted meanwhile, and `WriteAudit` the row of
`upload_audit_logs` that each handler writes last.  The client is `PutObject`.

**AcademicSessions**: `term` has the committed rows.  `activate` is
`DeactivateSnapshot`, which fixes the rows the UPDATE has found,
`DeactivateLock`, which waits for other transactions and looks at the rows again,
and `SetActive`, the second UPDATE with COMMIT.

**Attendance**: `sheet` has the rows of every pupil and `logs` those of one member of
staff.  A bulk marking finds and writes pupil after pupil in its transaction;
what it has written is in `rows` of its request until it commits.

**Accounts**: `users` has the committed rows, each with its profile and its code.
An INSERT waits for a transaction that has inserted the same address
(`EmailPending`) and then fails; `GenerateStudentCode` is the `COUNT(*)`.

**RefreshTokens**: a token is the second of its signing, since a JWT of the same user
signed twice within a second is the same string; `stored` is the key in Redis, `held`
what the client was given last.  Logins and refreshes are one half of the
specification (`TokenNext`), passwords the other.  **SingleUseTokens** is what a client
may count on: one token, an exchange that looks and replaces in one step, and a
token that was exchanged is refused for good.  The mapping takes `stored` for the token, `spent`
for the used ones and the first overlap of two requests for `Meet`, after which the
abstract specification lets the last writer win and nothing else: the code has a GET and a
SETEX with two lookups in between.

**ExamResults**: `exam` and `results` are the rows, `entry` the requests of
`exam-result.service` and `exam.service`.  `early` are the requests that were in
flight when the exam was published last.

**References** and **Names** are about all tables at once: the first choice picks
a link (`CreateFinds`, `Updating` and `DeleteKeeps` have, per service, what it
looks at) or a table (`Unique` says which of them have a constraint).

**Patches** has a record per service (`examUpdate`, `userUpdate` ...) with the
check of each field and the options of that call; `Checked` is
`utils/validators.ts`: a text of blanks is missing for a string, 0 for a number (as is
`[]`, and `true` is 1) and refused as a date or one of a list of values.  `CheckPatch` is the handler, and
`UpdatePatched` the UPDATE with the columns that are left.  **Listing** has the sortable
columns of each repository (the lookup also finds `constructor`, which every object
inherits, and the statement then fails with 500), the arithmetic of `pagination.ts`, and a client that follows
`hasNextPage`; the page and the count are two statements.

**HttpApi** has every route of the API in the order of registration; a
client means one of them, and `Dispatch` takes the first that matches.
**Bootstrap** has the scripts of `package.json` as sequences of steps, each with what it needs
(a table, a column, the roles), and stops at the first that fails.  A statement outside a
transaction commits by itself; seed.sql is one transaction, so `seen` is what
its connection sees and `db` what is committed.  `RunSeedNames` inserts roles,
permissions and grants, and `RunSeedRows` the rest with COMMIT, which needs the columns of
migration 001 and one fee structure per class and session (`FeesAreUnique`); the file has two for
two of its classes.

## 4. Runs

| run | bounds | shows |
|---|---|---|
| `ranking_workers` | 1 request of any kind, 1 ranking and 2 roll workers, 2 attempts, 1 fault, cache expiry | mutual exclusion of generations; a completed roll job left its snapshot; every job settles; `ImplementsLedger`, and the inductive invariant of the proofs, which contains the types |
| `ranking_handlers` | 2 requests, admission exam, 3 counted requests, 2 revisions, evicted jobs | unlocks are audited, later snapshots rest on later results, no trigger is missed |
| `ranking_order` | 3 students, 2 marks, 3 times of which 2 share a millisecond | ranks are distinct and contiguous; both comparisons agree where they can |
| `seats` | 2 students, 2 sections of capacity 1 or unlimited, 1 request, 1 generation, with and without admission tests | checks keep capacities until a generation; places follow the last entries of a list that may repeat students, and only the last section overflows |
| `seats_overshoot` | 3 students, 2 requests | capacities are exceeded by less than the requests in flight |
| `permissions` | 2 permissions, 2 requests of every kind, 1 fault | a stale set is about to be cleared, synchronisations are disjoint, a lost permission is gone in the end |
| `records` | 2 requests; 2 uses of the URL; 2 sessions; 2 pupils and 2 markings, 3 minutes; 2 addresses and users; 3 seconds, 2 passwords; 2 names, 3 rows; 2 pairs of student and subject, marks 33 and 80; 2 fields in a body; 3 rows in a list, limits 0 (none), 1 and 2 | what each module of the records keeps, see its properties, and that `RefreshTokens` implements `SingleUseTokens` (`ExchangesAreAtomic`) |
| `bug_recalculate_dropped`, `bug_auto_when_locked`, `bug_rolls_repeated`, `bug_seats_generation`, `bug_sync_merges` | the smallest that show it | code and its documentation disagree, see section 6 |

Why these bounds: two requests or two workers are what it takes for one to act
between the steps of another, and none of the properties relates three (the
overshoot one and those of the records listed in section 5 are proved for any
number).  One fault is enough for a retry and for
work done twice; two attempts separate a retried job from one that has failed.
Two revisions distinguish older from newer results.  One capacity below the
number of students and one above fill and never fill a section.  `seats` has a
single class: a second multiplies the states by seven, and no property it checks
compares classes; the theorem about seats covers any number.

In `records`, faults are not counted: any request may end between any two
statements.  Two uses of the URL let an object be replaced after a look at it; two
sessions and two pupils are the least in which transactions lock rows in opposite
orders; three rows of a name let one be deleted, taken again and renamed into; three
seconds let two tokens differ and two agree; marks of 33 and 80 are the edges of
two grades; three rows in pages of 1 and 2 give a last page that is full, one that is
not, and an empty table.  A body with two fields has one that is
good next to one that is not; the services check their fields one by one.  The
routers, the services, the links, the lists and the scripts are all of those in
the code.

Symmetry is used in runs without liveness only; in `records` it is that of the
requests.  Where deadlock is not checked (all runs except `permissions`),
the bounds on requests and generations make the model stop; the system waits for clients.

Fairness.  Weak fairness of `Handle`, of the workers, of job promotion and of the
expiry of a key: Node runs a handler to its end once its statement has returned,
a BullMQ worker polls its queue, and Redis and BullMQ have timers.  Weak is
enough since none of these is disabled again and again by others: a roll worker
waiting for the advisory lock is the only case, and there the other worker leaves it
for good once the bounded number of jobs is done.  Clients have no fairness, faults neither.
The modules of the records have only safety properties and state no fairness:
a handler cut off by a crash leaves nothing that another one waits for.

## 5. Proofs

All theorems hold for any number of requests, workers, students, sections and
permissions, and for any value of the bounds, under the named assumptions of each
module, which only give constants their types.

- `RankingPipelineProofs`: `LedgerInv` is `TypeOK`, `OneGeneration`,
  `Consecutive` and `ServedCommitted`.  None of the last three is inductive
  alone: that the next version is MAX+1 at COMMIT needs that no one else committed
  since it was read, hence that the holder of the advisory lock is alone between
  `save` and `commit`; and a cached version is committed because the reader that
  stores it holds one that was (`seen`).  From it follow `PipelineImplementsLedger`
  (each action of the pipeline maps to a step of the ledger or to a stutter),
  `OneGenerationAlways` and `TypeCorrect`.  `UnlockIsAudited` is inductive given
  the types, since only a COMMIT makes a first snapshot and it locks.
  `NoMissedTrigger` is not: `TriggerDue` adds that, as long as nothing is queued, a
  publish is on its way to the queue, and `RollsCameFirst` that a lock, a completed
  ranking job or a worker about to complete one only exist after a roll job was
  added.  So nothing that skips a trigger or frees a jobId comes before one.
  `RollJobsCommit` needs the step between COMMIT and the end of a job: `CommitInv`
  says the same of the jobs whose worker is there (`Committed`), and `OnePlace` that a job
  is in one place only, waiting, delayed or with one worker, or one commit would
  count twice.  For `BasisMonotone`, `OrderInv` follows the FINAL results from
  where they are read to where they are written: jobs are added in the order in
  which their results were read (`ReadOrder`), they wait in the order in which they were
  added (`QueueOrder`), and every snapshot is of a job before all that are still to
  commit (`SnapshotsBehind`).  The theorem assumes `OneWorkerEach`, one process with the
  concurrency of 1 that BullMQ has by default; `ranking_handlers` with a
  second roll worker violates it.
- `RankingOrderProofs`: `ViewBefore` is a strict total order on rows of
  different students (three lemmas); a row that comes before another has a strictly
  smaller set of rows before it, so its rank is smaller.  Finiteness of the rows is the
  strengthening in `OrderInv`, which also gives the type invariant, one row per
  student in every table.  For `RanksContiguous`, a finite set in a strict total order can be
  arranged (`ArrangedExists`: each element goes behind as many as come before it), and
  in an arrangement the i-th element has i - 1 before it (`PlaceIsCount`), which
  is what RANK() counts; the FIFO numbers go on from there.
- `SectionSeatsProofs`: `OvershootBounded` is not inductive, because it forgets
  the requests that have checked and not yet written.  `SeatsInv` bounds the students
  in a section together with those about to arrive.  With a single request
  (`OneRequest`, an assumption of the two theorems and not of the module)
  `SeatsKept` and `NobodyInDeletedSection` hold as the code means them: `AloneInv` adds
  that what the request has found, a free seat, a new capacity not below the
  members, a section without any, is still so when it writes, and that a section not
  yet created is empty.  With two requests both fail, see section 6.
  The distribution is a recursive function over the list.  `PlacementIs` shows that it is
  what its equation says, by a least counterexample (`LeastNumber`), since induction
  theorems cannot be used; `NextPlaceAfter` that the `while` loop ends and
  where; `PlacesInOrder` and `RollsWithinSeats`, by least counterexamples again, that places
  ascend and that a roll exceeds the seats in the last section only.  With `GenFits`, a
  list of students and sections in ascending order, this gives the type invariant,
  `SeatsByRank` and `OnlyLastOverflows` as properties of the step that commits.  Repeated
  students are no case of their own: of two students the one whose last entry is later has the
  later place, and different students have different last entries, so no section gets more of them than
  entries.
- `PermissionCacheProofs`: `CacheInv` joins types, the row locks of transactions
  and the pending invalidations.  `StaleIsCleared` holds since every step that
  changes a row goes to `del` at once, and only a step of a request that is at
  `del`, which clears the cache itself, leaves it.
- `AccessProofs`: `CountedCodes` bounds the number a transaction has counted by the
  next free one.  A count can only fall behind, the UNIQUE constraint
  refuses one that has, and what it lets through is the next.  Of the refresh tokens,
  `LastTokenIsStored` and `SpentIsRefused` rest on each other: a token is
  refused because another one is stored, and what is stored is what the client was
  given last (`NoneSpent`) and was not signed later than now (`TokensInTime`), so that the
  next token differs from every one exchanged before this second.
  `ExchangesAreAtomic`, the refinement, needs one thing more: `NoneSpent` says which tokens are
  not stored, and `GivenIsStored` that a lonely refresh past its GET still has the
  one that is, so that its SETEX is the exchange (`StoreIsExchange`) and every other
  statement a stutter, a login, an end or a meeting.
  - Routes: `NoneHidden` says of a router that no route takes the requests that a client
    sends for a later one; two routes differ in their method, their length or one of
    their first three segments (`Apart`), and `EachRouter` goes through all nineteen.
    `FirstIsMeant` concludes that the first route that matches is the one meant, and
    `StrayMeetsNone` that a path of no router matches nothing.  `WayInv` then follows a request
    through the middlewares: what it has passed is what its own route asks for.
  - Scripts: `NothingOfTheSeedStays` forgets the transaction under way.  `BootInv` adds that a
    transaction is open exactly when the names or the rows of the seed come next, that outside of one
    the connection sees what is committed, and so that what the seed has inserted so far cannot
    get out before its last step, which fails.  It rests on the order of the statements:
    in every script, and in what is left of it (`TailOrderly`), the names and the rows of the seed
    are right behind its BEGIN.
    `EachAsksFor` lists what each of the nineteen routers asks for, and `GuardsSeeded` finds
    these among the names that the scripts insert, except the two of attendance
    (`Unseeded`), which no script inserts.
- `SchoolYearProofs`: for `OneActivePerRequest` the strengthening is
  `LocksOwn`, that a transaction holds the rows of every active session its
  request has activated before; without it the last UPDATE could leave one of
  them.  `OneActiveAlone` needs that the one request in flight, if it is past its
  locks, holds the active session, and that one about to delete has an inactive one.
  `PublishedFrozen` is about steps and rests on
  `WritersAreEarly`: whoever has found the exam open and may still write was in
  flight when it was published.  `ResultsFollowExam` needs what the single
  request in flight has found (`FollowInv`).
- `RecordsProofs`, one component after the other.
  - Uploads: `ReadyIsStored` forgets the requests that have looked at the
    object and not yet written.  `SeenStored` adds what they carry: with one use of the
    URL, the object either fits for all of them or for none, so a purge and a READY
    never meet.
  - References: `LinkedRowsLive` needs that what a lonely request has found stays
    (`FoundStays`): a live parent before the child is written, no child before
    the parent is deleted.
  - Names: `NamesApart` counts rows, and a row can lose a name and get it back from a
    rename under way.  `RoomForAll` counts the rows that have a name together with those a
    rename is about to give it and the inserts still to come: each was let through by a
    lookup that found none of them, so there are no more than requests.
    `NoTwoRows` is the UNIQUE constraint, `LonelyName` the case without overlap.
  - Attendance: `RoomOnSheet` and `RoomForLogs` are the same count for
    the rows of a pupil and the logs of a day; `NoneAfterNow` says that no log ends later
    than the clock.  A sum of minutes is stated as the number of pairs of a log
    and a minute it is paid for, which needs no induction.
  - Patches: `PatchInv` says that no row is touched and nothing answered before the
    UPDATE, and that the UPDATE is reached only with a value to set and none
    refused; a coerced value comes from a number's check only.  Its lemma `UpdatesAreOK` goes through the calls of the thirteen
    services: none lets a null through to a NOT NULL column.
  - Lists: `PagesFull` says that all pages before this one were full and this one has what is
    left, `PagesInOrder` that with a unique ORDER BY they are the first rows of
    the table; `PlaceInOrder` and `PageLength` are the facts about orders behind them.
  - Side by side: `RunIsEach` shows that a behaviour of `MCRecords` is one of every module
    (`StepOfEach`: a part that moves does a step of its own, the others stand still),
    the scripts included, so
    the theorems about the modules are theorems about what `records` checks;
    `RecordsTypeOK` follows.

Each component also has the theorem of its type invariant.

Assumptions.  The modules give constants their types, and say where something must
exist: sessions, addresses, names, passwords, entries of a sheet, and a second
besides the first.  Requests are finitely many and marks are between 0 and 100.
`OneRequest` and `OneWorkerEach` are hypotheses of the theorems that need them.

Only model-checked: the liveness properties `JobsSettle` and `RevokedInTheEnd`, since
fairness and ENABLED are out of the prover's reach.  Every invariant and every action
property that a passing run checks, and both refinements, are proved.

## 6. Where the code and its documentation disagree

Shown by a run, with the quoted lines in `PROJECT.json`:

- `recalculate` unlocks a ranking, and its job is dropped when an earlier one with
  the same jobId is still kept, so nothing locks it again.
- An automatic job that was queued before a recalculation writes its snapshot after that one
  has locked the ranking (`AutoNeverWhenLocked`).
- The first list of a class repeats the merit list in its FIFO part, and the later entry
  of a student overwrites the earlier: rolls do not follow the ranks (`RollsFollowRanks`).
- A generation counts the students it is about to place as occupying their seats.
- Two synchronisations of a role at once leave it with permissions of both.

Stated as properties and not kept either; to see one fail, name it in the run's
configuration:

- RankingPipeline: `UnpublishBlockedWhenLocked`, `ResultsFrozenWhenPublished`,
  `FinalInEveryRanking`; `CacheFreshWhenQuiet`: a reader that has read a snapshot caches it after
  a roll job has committed a newer one and deleted the key, and the old ranking is served
  for an hour.
- RankingOrder: `SortAgreesWithView`, `ListedOnce`, and `FifoOnlyNewStudents`: before
  the first generation the FIFO part of a list repeats the merit list.
- SectionSeats: `SectionOfOwnClass`, `RollsDistinct`, and with two requests
  `SeatsKept` and `NobodyInDeletedSection`.
- PermissionCache: `FreshWhenQuiet`.
- Uploads: `ReadyStaysReady`, a slow confirmation fails a file that another one
  has made READY.
- AcademicSessions: `OneActive`, two activations at once leave two active sessions.
- ExamResults: `PublishedIsClosed`, marks written by a request that was under way;
  `PublishedIsPlaced`, a PATCH takes the class of a published exam away.
- References: `KeptParentsLive`, a class is deleted under its enrollments, and an
  assignment is moved to a deleted subject.
- Names: `FreeNamesInsert`, the name of a deleted role, permission or subject code is refused for good.
- Patches: `NullIsHeard`, a null for a user's gender, an exam's type or an
  enrollment's class is passed over when the body sets something else;
  `BlankStoresNothing`, a PATCH of an exam result with blanks for marks stores 0 and answers
  200, although `validators.ts:18` calls a blank an accident.
- Bootstrap: `InitBootstraps`, `npm run db:init` on an empty database, the "shortcut for the
  full bootstrap" of `src/README.md:59`, stops at the grants of `004_uploads.sql`, whose roles only the seed
  inserts; `SeedGivesRoles`, `npm run db:seed` leaves nothing, since its fee structures violate the UNIQUE
  constraint of their table and its one transaction takes the roles, permissions and users with
  it.  `records` and a theorem show the positive side, `NothingOfTheSeedStays`.
- Listing: `EveryRowOnce`, rows equal in the column sorted by come twice or never.

Met on the way: nothing inserts `ATTENDANCE_MARK` and `ATTENDANCE_READ`, so a route of
attendance that asks for them lets nobody through until they are created by hand (`Unseeded`
of `AccessProofs`); `sortBy=constructor` passes the list of sortable columns and ends in a
500 (`FindAllFails`); a null for a NOT NULL column is answered with 400, where
`validators.ts:16` says 500.  Outside of what the models tell apart: the super-admin of the seed is `superadmin@school.com`, while the `admin@school.com`
that the README calls one has the role ADMIN; a malformed id in a path is an error of PostgreSQL
answered with 500; an access token outlives the deactivation of its user by up to
fifteen minutes.

## 7. Abstractions

- RankingPipeline: `AdmissionEnabled` is constant; results are not all deleted;
  every generation writes at least one history row; hash collisions of
  `hashtext`, which could only add waiting, are left out; BullMQ is taken to accept a jobId
  with colons; a crash stops one worker at a time.  A retried roll job goes
  behind later ones, so `BasisMonotone` is about runs without faults, and a job
  that fails after COMMIT writes its snapshot again, so `RollJobsCommit` counts
  snapshots only without faults.
- RankingOrder: the order of equal rows in the FIFO query, which SQL leaves open,
  is by student.
- SectionSeats: one roll job at a time (the advisory lock); a list has any of the
  enrolled students in any order, as far as `CombinedRankings` allows; the UPDATEs of a transaction take
  effect at COMMIT; the counts of a distribution are read in one step.  Teachers,
  names and roll numbers given by hand are left out.
- PermissionCache: one role, names are ids, renaming is left out; the checks at the
  start of a handler are one step; a bulk assignment is a sequence of assignments;
  a statement takes its row locks in one step, so a cycle of locks, which
  PostgreSQL resolves by failing one of the transactions, appears as a fault.
- Modules of the records: one file, exam, user, link, table, list or request each;
  a rename, a deletion or another statement that needs no second look is one step; what a
  handler reads before its first step and nothing else writes is part of that step.
  `by`, `early`, `spent`, `lost` and the overlaps are history variables
  that no action's guard reads.  Operators whose comment begins with "Mutated"
  are variants of the definition they name, with a bug; no specification uses them.
- Uploads: types, names and sizes are reduced to "fits" and "oversize"; whoever may
  not access a file changes nothing and does not appear.
- AcademicSessions: a cycle of row locks, which PostgreSQL ends by failing one
  transaction, is `ActivateAborts`.
- Attendance: one day; teachers, classes and rights are left out.
- Accounts: addresses are in lower case already, roles exist, codes are of one year.
- RefreshTokens: signatures cannot be forged; the seven days of a token do not end;
  access tokens are in `HttpApi`.
- References: one row of the parent and of the child table; what else a service asks
  for can only end a request early.
- Patches: a value is what the checks and the database tell apart (`Values`); lookups of a service may refuse any body.
- Listing: a page beyond the last, filters and searches are what the client never asks for, or a
  row that is not `kept`.
- HttpApi: Swagger, CORS, helmet, body parsing and the validity of ids are left out.
- Bootstrap: views and the seed rows that fit their tables are left out; the rows of roles, permissions
  and grants that are changed through the API are not part of the module.

### Not modelled

- Start-up, environment and the OpenAPI documents: nothing there is changed by a handler.
- The percentages of `attendance.engine`, `getMarksheet` and the completion report of an
  exam: sums over rows that one request reads and nothing is written from.
- `findExact`, which refuses a second equal subject assignment, the warning about
  other teachers of a slot, `assertDateOrder`, `assertArray` and `assertBoolean`.
- Exhaustion of the connection pool: a connection that is not given in time is one
  more failing statement.
- The contents of `error_logs`: reading and clearing it are a list and two routes.
