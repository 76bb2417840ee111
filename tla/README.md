# JobRelay in TLA+

JobRelay accepts image uploads over HTTP, records each as a job in Postgres,
hands it to worker processes through BullMQ (Redis) and keeps the thumbnails
they produce until a retention time has passed. This directory holds the TLA+
modules that model its core and what surrounds it (the registry of workers, the
pool of demo workers, the list, the downloads, the page in the browser), the TLC
runs that check them on small instances and the TLAPS proofs for every instance.

    tlc -config MCProcessing_faults.cfg MCProcessing
    tlapm Processing_proofs.tla

`PROJECT.json` maps every definition to the lines it models and lists the runs,
the hazards, the theorems and the mutants (the faulty variants the modules
define, each of which breaks the property it is listed with).

## 1. Inventory

| Component | State | Operations | What is hard |
|---|---|---|---|
| `jobs` row (`db/jobsRepo.ts`) | status, attempts, running_token, result_attempt_token | four guarded UPDATEs | written by attempts that do not know of each other |
| processJob (`worker/processor.ts`) | where each call stands, its directory, its `job_attempts` row | claim, work, commit, finalize, clean up | stalled locks make attempts overlap; any await may fail, the success UPDATE ambiguously; a process may die anywhere |
| BullMQ (`queue/*`, options in `worker/worker.ts`) | entry state, lock, attemptsMade, stall counter | deliver, expire, recover, retry after backoff, trim | its idea of a job and that of Postgres can drift apart |
| submission (`api/submitImageJob.ts`, `createJobWithOutbox`) | uploads on disk, the transaction, `jobs`, `outbox_events` | write the file, INSERT, COMMIT, clean up | same key at the same time; COMMIT errors that are no rollback |
| outbox (`outbox/dispatcher.ts`) | `outbox_events`, row locks, open transactions | immediate publish, periodic sweep | two systems and one transaction: queue.add is not undone |
| retention (`cleanup/retention.ts`, `storage/paths.ts`) | files_purged_at, files | delete, then mark | deletes beside attempts that still write; a job is swept once |
| worker registry (`worker.ts`, `routes/workers.ts`) | `workers`, activeJobIds | heartbeat, shutdown, pruning | heartbeats are not awaited and may be reordered |
| demo pool (`api/demoWorkerManager.ts`, `api/server.ts`) | child processes, respawn timers | start, spawn, kill, stopAll, shutdown | timers that outlive the stop; an API that dies leaves its children |
| download (`routes/files.ts`) | none | look up the winner, send the file | retention and losing attempts in between |
| job list (`listJobs`) | none | cursor pages | rows change and are committed between pages; the cursor is coarser than the timestamps |
| page (`public/app.js`) | jobs on the board, selected ticket, ticket detail | poll, click, submit | requests overlap and nobody waits for the ones before |
| migrations (`db/migrate.ts`) | schema_migrations | apply what is missing | two processes starting at once |

They interact through Postgres (submission writes `jobs` and `outbox_events`,
the dispatcher reads the latter, attempts and retention update the former),
through BullMQ (dispatcher to worker) and through the disk (upload by
submission, read by attempts, thumbnails by attempts, all deleted by
retention). There are no callbacks between components: a submission starts
`publishOnce` and does not wait for it; both sweepers are timers of the API
process.

What makes each correct:

* **job row**: terminal statuses are final, and only the attempt that claimed
  last moves a row out of `running`.
* **processJob**: the directory `result_attempt_token` names is complete, losers
  clean up, every job ends, a redelivered job is not worked on again.
* **queue**: when BullMQ is done with a job, so is Postgres.
* **submission**: a key has one job, the job has its event and its upload, and
  the answers agree with it.
* **outbox**: an event counts as published only after its job was queued, and
  every event is published in the end.
* **retention**: nothing goes too early, every job is swept, and nothing stays of it
  but what is written later.
* **registry**: `busy` is honest, the board catches up with what a worker does,
  and a worker that has left is unlisted.
* **demo pool**: no place of it is lost or filled twice, and it does not outlive
  the API.
* **download**: a request finds the result that exists until its retention expires,
  and none is served with one that was found gone.
* **job list**: no job twice, none out of order, none left out.
* **page**: what it shows is, or soon will be, what Postgres has.

## 2. Modules

| Module | Models | Abstract specification |
|---|---|---|
| `JobsRepo` | the row and its UPDATEs, as operators with the WHERE clauses as predicates | |
| `Processing` (extends `JobsRepo`) | one job from its outbox row to its last attempt: dispatcher, BullMQ's entry, calls of processJob | `Ticket`: queued, running, retrying, then succeeded with its files, or failed |
| `Submission` | concurrent calls of submitImageJob | `IdempotentStore`: a key's first job is for ever, and every answer agrees with it |
| `Outbox` | concurrent calls of publishOnce | `Relay`: queued at least once before it is published, never after |
| `Retention` | the sweep beside the attempts' file operations | |
| `Download` (extends `Retention`) | clients between the two steps of the download endpoint, while attempts and the sweep write and delete | |
| `WorkerRegistry` | a worker process, its heartbeats in flight, its row, and who prunes it | |
| `DemoPool` | the API process from start to exit, and the processes it spawns and respawns | |
| `JobList` | a client that follows cursors while jobs are inserted, committed and changed | |
| `Board` | the page: overlapping requests, answers in any order, the form | |
| `MC*` | the faults each run allows, symmetry | |
| `*_proofs` | theorems and proofs about the module of that name | |

### Conventions

Each `await` ends a step. Where a call stands is a program counter named for
what it awaits next; the list in the module (`PCs`) says which call that is.
Code between two awaits is one action, its early returns are the alternatives
of the action's next program counter.

Everything that may go wrong is an action of its own that spends one unit of
`faults[kind]`; `MaxFaults` bounds them for TLC, and the proofs hold for any
bound. Attempts are limited by `QueueAttempts`, stalls by `MaxStalledCount`, and
calls by their names (`Tokens`, `Requests`, `Events`, `Sweeps`). The other bounds
are constants too, named with the guards that use them: heartbeats in flight
(`MaxSent`), requests in flight (`MaxRequests`, `MaxDetails`) and the clock of
`JobList` (`MaxMs`, `Micros`). `Board` lets a job change three times.

A statement whose acknowledgment is lost is modelled as what it is. In
`Processing` it stays in `inflight` and may execute at any later time under
its WHERE clause (`Land`), or never (`Vanish`). In `Submission` and `Outbox`,
where several statements form a transaction, the transaction is `uncertain`
and lands or aborts as a whole; one whose connection broke before the COMMIT
is `doomed`, and keeps its locks until Postgres notices.

Postgres, BullMQ and the operating system are external. They are modelled from
how the code uses them: a unique index that makes an INSERT wait for an
uncommitted row of the same key, `FOR UPDATE SKIP LOCKED`, `add` as a no-op
for an id BullMQ still has, locks that expire, a stalled check that counts.

### Correspondence

* `Processing`. A fencing token names the call of processJob that draws it,
  and its directory and its history row. `Fetch` is getJobById and the
  duplicate guard, `Claim` transitionToRunning, `Recheck` the read after a
  claim that matched no row, `Start` recordAttemptStart, `WriteFirst` and
  `WriteLast` generateThumbnails, `FailTransiently` and `FailValidation` what
  it may throw, `Discard` the three calls of discardAttemptResult, `Finalize`
  the two failing transitions, `Commit` transitionToSucceeded, `ResolveDoubt`
  the re-check after it threw, `ReadLatest` the read of a loser, `Record`
  recordAttemptEnd, `Settle` what BullMQ does with the outcome. Jobs share no
  row, queue entry or directory, so the module has one job.
* `Submission`. A request names the UUID it draws, its upload and its row.
  `Insert` is the transaction up to the INSERT, which waits while another
  transaction holds the key; `InsertEvent`, `Commit`, `Compare` and `Discard`
  follow the code. `Handle` is the code, `Throws` its errors, `Server` what
  Postgres does with transactions whose client is gone.
* `Outbox`. A call of publishOnce is named by the event whose submission
  started it, or is one of the sweeper's. `Claim` locks the batch, `Add`,
  `Mark` and `Record` are the loop's body, `Commit` ends it. The sweeper's
  next call has a new name while Postgres still holds the transaction of one
  that died. `created` counts how often BullMQ took a job in as a new one.
* `Retention`. Time is the order in which jobs finished; `Expire` moves a job
  past its retention. `Tick` is the query, `Delete` deleteJobFiles, `Mark`
  markFilesPurged. Attempts are reduced to what they do to files; which
  attempt may end a job is `Processing`'s matter, here any may, a superset of
  what the code does. One ends in `Win`, in `Lose` (the three calls of
  discardAttemptResult), in `Preserve` (a commit whose outcome stays uncertain keeps
  the files, and may still turn out to have won) or in `Leave` (the discard throws, or
  the worker dies). `early` and `undeleted` are history: which attempts had left
  files when a job's were deleted, and for which jobs that threw. The sweep's last statement, which prunes the `workers`
  table, is `Prune` of `WorkerRegistry`.
* `Download`. `Lookup` is getJobResultLocation and `Send` is sendFile, which finds
  the file or does not; `SendFails` is any other error its callback gets, which is
  answered 404 all the same. `missing` remembers which results were not there when
  last looked for: a client cannot tell the two apart.
* `WorkerRegistry`. `slot` is what BullMQ has given the worker, `active` is
  activeJobIds, `sent` counts the heartbeats in flight by what they say.
  `Start` and `End` are the callbacks onJobStart and onJobEnd, `Shutdown`,
  `Closed`, `DeleteWorker` and `Exit` the awaits of shutdown(), `Upsert` the
  statement, `Shown` what GET /api/workers makes of the row. The first
  heartbeat is the one main() waits for before it handles signals.
* `DemoPool`. `workers` is the manager's map, `timers` the timers to respawn,
  `child` the processes of the operating system, which outlive the API.
  `Start`, `Shutdown` and `Exit` are main() and shutdown() of server.ts,
  `Stop` the route, `Exited` the exit event, `Respawn` the timer.
* `JobList`. `List` is a request: `Listable` is its WHERE clause, `IsPage` its
  order and limit, `NextCursor` what it returns. `created` is set by the INSERT
  and `visible` by the COMMIT, in any order of jobs; `Enter` and `Leave` are the
  transitions as the status filter sees them. `due` remembers the jobs that could
  be listed all the time since the first page.
* `Board`. A request is in flight from the moment the API executes it, so that
  its answer is a value of that moment. `RefreshJobs` and `ListAnswered` are the
  two halves of refreshJobs, `RenderDetail` and `DetailAnswered` those of
  renderDetail, `Submit` and `Submitted` those of the form, which may have several
  POSTs in flight. A job is known by how
  far it is.

## 3. Runs

| Run | Instance | Distinct states | Shows |
|---|---|---|---|
| `processing_faults` | 3 attempts; 1 stall of a live attempt, 1 crash, 2 errors, 1 late statement | 1.5 million | TypeOK, PublishedIntact, NoPrematureFailure, LosersCleanUp, TerminalFinal, DuplicateDeliveryInert, OwnerDecides, refines Ticket |
| `processing_crashes` | 4 attempts; 1 crash, 1 duplicate publication; fairness | 109 thousand | QueueCompletionIsRecorded, QueueFailureIsRecorded, AttemptsMonotonic, EventuallyTerminal |
| `processing_lateclaim` | 2 attempts, 1 stall | violation | finding 1 |
| `submission_faults` | 3 requests for 1 key, or without one, 2 fingerprints; 1 fault of each kind; fairness | 109 thousand | TypeOK, OneJobPerKey, OutboxComplete, UploadKept, NoOrphanUploads, refines IdempotentStore, EventuallyAnswered |
| `submission_lostcommit` | 2 requests, 2 keys, 1 lost COMMIT | violation | finding 2 |
| `outbox_faults` | 2 events, 1 sweeper name, batches of 2; 1 fault of each kind; fairness | 309 thousand | TypeOK, NoDoubleClaim, DuplicatesCostFaults, refines Relay, EventuallyPublished |
| `retention_faults` | 2 jobs of 2 attempts, batches of 1, 1 download at a time; 1 fault of each kind; fairness | 1.6 million | TypeOK, UnexpiredKept, OnlyLateFilesStay, EventuallyPurged, GoneForGood |
| `retention_deletefails` | 1 job, 1 failing delete | violation | finding 3 |
| `registry_faults` | 2 jobs, 2 slots, 3 heartbeats in flight; 1 fault of each kind; fairness | 26 thousand | BusyIsHonest, StatusCatchesUp, QuietDepartureUnlists, EventuallyUnlisted |
| `pool_faults` | 5 names for a pool of 2; 2 stops, 1 fault of each other kind; fairness | 66 thousand | PoolAtStrength, NoOrphans, EventuallyFull |
| `list_pages` | 3 jobs, pages of 1 or 2, 3 milliseconds of 2 moments | 470 thousand | NewestFirst, NothingSkipped |
| `board_page` | 2 jobs, 2 details in flight; 1 overlapping poll, 1 failure, 1 click; fairness | 773 thousand | BoardNeverGoesBack, ViewsConverge |

Why the bounds are enough. Every conflict in this system is between two
parties over one thing: two attempts over a row, two requests over a key, two
calls over a batch, an attempt and the sweep over a directory. Three attempts
or requests give each conflict a bystander or a successor (a stale attempt, the
one that replaced it and the one after a retry; a loser, a winner that rolls
back, and the next in line), and two errors in one attempt are needed to reach
the paths that handle an error of an error handler. One key is enough in
`submission_faults` because no statement looks at two: every WHERE clause and
the unique index name the request's own. In `retention_faults` batches of one
make the limit bind; in `outbox_faults` batches of two make a rollback undo more
than one row, and two immediate calls and a sweeper still meet over them. Three
heartbeats in flight are the least with which an old one executes after a newer
pair; three demo names beyond the pool of two allow a child that is dying, one
that an API process left behind and a replacement at once. Three jobs are a
page's last, the one that a page leaves out and the next; two moments per
millisecond are what a cursor cannot tell apart. Two lists and two details in
flight are what it takes for an answer to arrive late. Safety that TLC checks at
these bounds is, for most properties, also proved for any.

Symmetry: `Processing` and `Submission` only compare tokens, requests, keys and
fingerprints. No run that checks a liveness property uses symmetry.

`CHECK_DEADLOCK FALSE` is set where behaviours really end (a job is over, all
requests are answered, all files are purged, a worker has left, the list is at
its end). `Outbox`, `DemoPool` and `Board` do not end: a timer or a start is
always possible, and their runs check that nothing blocks it.

### Fairness

* `Processing`: the dispatcher's sweep is repeated (`setInterval`), some worker
  of the queue is up and BullMQ's timers fire, and a call of processJob that is
  not killed goes on (each await is resolved or rejected). Nothing is assumed
  of faults, of the trimming of BullMQ's sets, or of which of several enabled
  steps an attempt takes: it may fail transiently every time, and then
  exhausts its attempts.
* `Submission`, `Outbox`: a call goes on while its process lives; Postgres ends
  the transaction of a dead connection (TCP keepalive or the socket's close);
  the sweeper's timer goes on firing, also after a restart.
* `Retention`: the same of its sweeper. Nothing is assumed of attempts or of the
  clients of `Download`.
* `WorkerRegistry`: the timer goes on firing while the worker is up, its shutdown
  goes on, a heartbeat in flight executes or fails, and some API process prunes
  (`setInterval` in both). Nothing is assumed of jobs.
* `DemoPool`: a SIGKILL works, exit events are handled, timers fire. Nothing is
  assumed of the start or the end of the API.
* `Board`: the timer goes on firing (`setInterval`), and each request is answered
  or fails. Nothing is assumed of visitors or workers.

## 4. Proofs

All theorems hold for arbitrary constants under the ASSUMEs of the modules
(positive limits, null values outside the sets they extend, finite sets of
jobs, ids that are numbers) and for any number of faults.

| Theorem | States |
|---|---|
| `Processing_proofs!TypeCorrect` | `Spec => []TypeOK` |
| `Processing_proofs!TerminalRowsAreFinal` | `Spec => TerminalFinal` |
| `Processing_proofs!PublishedFilesSurvive` | `Spec => []PublishedIntact` |
| `Processing_proofs!OnlyOwnersDecide` | `Spec => OwnerDecides` |
| `Processing_proofs!LateDeliveriesAreInert` | `Spec => DuplicateDeliveryInert` |
| `Processing_proofs!FailuresAreExhausted` | `Spec => []NoPrematureFailure` |
| `Processing_proofs!LosersLeaveNothing` | `Spec => []LosersCleanUp` |
| `Processing_proofs!RefinesTicket` | `Spec => TicketSpec` |
| `Processing_proofs!AttemptsDoNotOverlap` | `Spec => [](NoPause => \A d, e \in Tokens : Live(d) /\ Live(e) => d = e)` |
| `Processing_proofs!CompletionsAreRecorded` | `Spec => [](Prompt => QueueCompletionIsRecorded)` |
| `Processing_proofs!FailuresAreRecorded` | `Spec => [](Calm => QueueFailureIsRecorded)` |
| `Processing_proofs!NoJobStranded` | `Spec => [](Calm => ...)`: done, to be published, or in BullMQ's hands |
| `Processing_proofs!AttemptsNeverGoBack` | `Spec /\ []Orderly => AttemptsMonotonic` |
| `Submission_proofs!TypeCorrect` | `Spec => []TypeOK` |
| `Submission_proofs!OneJobForEveryKey` | `Spec => []OneJobPerKey` |
| `Submission_proofs!JobsHaveEvents` | `Spec => []OutboxComplete` |
| `Submission_proofs!UploadsOutliveJobs` | `Spec => []UploadKept` |
| `Submission_proofs!UploadsHaveJobs` | `Spec => []NoOrphanUploads` |
| `Submission_proofs!RefinesStore` | `Spec => StoreSpec` |
| `Submission_proofs!AnswersAgree` | `Spec => []ClientsAgree` |
| `Submission_proofs!AcceptedJobsLast` | `Spec => []AnswersAreBacked /\ [][WordKept]_vars` |
| `Submission_proofs!NoWaitingInCircles` | `Spec => []WaitsAreShort` |
| `Outbox_proofs!TypeCorrect` | `Spec => []TypeOK` |
| `Outbox_proofs!ClaimsAreExclusive` | `Spec => []NoDoubleClaim` |
| `Outbox_proofs!DuplicatesArePaidFor` | `Spec => []DuplicatesCostFaults` |
| `Outbox_proofs!RefinesRelay` | `Spec => RelaySpec` |
| `Outbox_proofs!NoRowStranded` | `Spec => []RowsFreeOrHeld` |
| `Outbox_proofs!MissesAreCountedOnce` | `Spec => [](\A e \in Events : tries[e] <= faults["add"])` |
| `Retention_proofs!TypeCorrect` | `Spec => []TypeOK` |
| `Retention_proofs!UnexpiredFilesAreKept` | `Spec => []UnexpiredKept` |
| `Retention_proofs!OnlyFilesOfLateAttemptsStay` | `Spec => []OnlyLateFilesStay` |
| `Retention_proofs!OldestArePurgedFirst` | `Spec => []PurgedInOrder` |
| `Retention_proofs!ResultsAreGoneForGood` | `DownloadSpec => GoneForGood` |
| `WorkerRegistry_proofs!TypeCorrect` | `Spec => []TypeOK` |
| `WorkerRegistry_proofs!BusyStatusIsHonest` | `Spec => []BusyIsHonest` |
| `WorkerRegistry_proofs!DepartureUnlists` | `Spec => QuietDepartureUnlists` |
| `WorkerRegistry_proofs!NoGhostWorkers` | `Spec => []ExitedInv /\ [][NoGhost]_vars` |
| `DemoPool_proofs!TypeCorrect` | `Spec => []TypeOK` |
| `DemoPool_proofs!PoolIsAtStrength` | `Spec => []PoolAtStrength` |
| `DemoPool_proofs!ShutdownLeavesNoOrphans` | `Spec => []NoOrphans` |
| `JobList_proofs!TypeCorrect` | `Spec => []TypeOK` |
| `JobList_proofs!PagesAreInOrder` | `Spec => []NewestFirst` |
| `JobList_proofs!ListIsComplete` | `Spec => []NothingSkipped` |
| `Board_proofs!TypeCorrect` | `Spec => []TypeOK` |
| `Board_proofs!TicketsDoNotGoBack` | `Spec => BoardNeverGoesBack` |
| `Board_proofs!NothingIsMadeUp` | `Spec => []PageIsBehind` |

Four conditions on the faults of a behaviour occur in the theorems about Processing;
TLC's runs have behaviours of each kind, and the initial states satisfy all of them
(Calm if the constants are as it says).
`NoPause`: no live attempt has lost its lock. `Prompt`: nor has a statement whose
client had given it up executed late. `Calm`: besides, nothing threw, at most
MaxStalledCount processes died, and MaxAttempts <= QueueAttempts (both are read from
MAX_JOB_ATTEMPTS, one at submission and one at publication). `Orderly`: NoPause, and
either Calm or no second publication, which after a Trim would make BullMQ count
attempts anew.

The arguments:

* **PublishedIntact** is not inductive: it says nothing of an attempt whose
  success UPDATE may still execute, and that attempt's directory may be
  discarded before. `FilesInv` adds that a directory is complete from its last
  thumbnail on for as long as its attempt can win, that an attempt whose
  success is in flight has left the states that lead to a discard, and that
  "outvoted" is reached with the job terminal, so that nothing can land.
  `WinnerInv` ties result_attempt_token to the status.
* **TicketSpec** needs that a row only leaves `running` by its owner's
  statement. `OwnershipInv` says that an unfinished job is `running` while its
  owner has yet to finalize, in flight or not, and that a call which has just
  claimed has nothing in flight. `AttemptInv` bounds attempt numbers by what
  BullMQ starts.
* **NoPrematureFailure** needs `PatienceInv`: only the validation of the bytes makes
  an outcome unrecoverable, and a `failed` in flight is that of a last attempt; the
  attempt keeps its number, since a call that has yet to be delivered has nothing
  in flight (`OwnershipInv`).
* **LosersCleanUp** needs `TidyInv`: until an operation throws, files that are not
  the published result belong to an attempt that is at work, has yet to discard
  them, or died.
* **QueueCompletionIsRecorded** and **QueueFailureIsRecorded** are proved in layers.
  `ExclusiveInv`: without lost locks a call under way holds the lock and has the
  number of the entry's next attempt, so that it is alone (AttemptsDoNotOverlap).
  `CompletionInv`: it then owns the row from its claim to its last statement, so that
  it reports success only for a job that is done. `FailureInv`: an attempt that
  reports a failure has recorded it or leaves BullMQ another attempt; every stall was
  a death, of which the entry has yet to be charged the last if it is abandoned; and
  no entry is dropped before the job is done. NoJobStranded follows from the same
  invariant. Each condition is needed: the findings in section 5 violate
  QueueCompletionIsRecorded without NoPause, and a death too many or a database error
  on the last attempt violates QueueFailureIsRecorded.
* **AttemptsMonotonic** needs `NumberInv`: all numbers in use are behind the entry's,
  and the attempt whose token the row bears has the highest of those that may still
  write theirs. It allows errors, deaths and late statements in any number.
* **OneJobPerKey** rests on `LockInv`: an open transaction is the only one of
  its key and finds no committed job; this must survive lost COMMITs, which is
  why `uncertain` transactions still hold the key. `PhaseInv` ties the program
  counter to what the server holds, and `OutcomeInv` says that a replay or a
  conflict is about another request's committed job, which `StoreSpec` needs.
* **ClientsAgree** and **AnswersAreBacked** are proved of the abstract store and
  inherited through RefinesStore: `AnswersMatch` says that each answer is true of the
  key's owner, which `WordKept` says never changes.
* **WaitsAreShort** follows from `LockInv`: what a blocked INSERT waits for is the only
  transaction of the key, so it is not blocked itself.
* **UploadKept** is inductive with `UploadInv`, up to the first lost COMMIT:
  whoever is about to discard an upload has no job and no transaction that
  could still give it one.
* **NoOrphanUploads** needs `OwnedInv`: an upload belongs to a job or to a call that
  has yet to commit or to discard it.
* **NoDoubleClaim** and **RelaySpec** rest on `ClaimInv` (a locked row is
  unpublished, and locked once), `SessionInv` (what a call holds follows from
  where it stands) and `AddedInv` (what is marked has been queued).
* **MissesAreCountedOnce** needs `MissInv`: a miss that is about to be counted, or is in
  an open transaction, is of a row that no other call has locked, and has not been
  counted yet.
* **DuplicatesCostFaults** is an account, `DebtInv`: an event is settled when it is
  published, marked in an open transaction, or queued and about to be marked; each
  job made of it but that of a settled publication has been paid for by a fault. A
  row that is about to be added is never settled, because its claim is exclusive.
* **UnexpiredKept** needs `SweepInv` (the sweep has only expired jobs before
  it) and `WinnerInv` (the winner is over, so that it cannot discard).
* **OnlyLateFilesStay** needs `GoneInv`: from its delete on, not only from its mark
  on, a job has no file but what an attempt at work then has written since, and the
  attempts that had left files by then do not come back to work (`EarlyInv`). The
  job between its delete and its mark is `Current`, the first of the sweep's to have
  finished; `TimesInv` says that no two finish at the same time, so that it stays
  the same while other jobs finish. No condition on faults is needed: a delete that
  threw is counted against its own job only.
* **PurgedInOrder** needs `OrderInv`: who finished first expired first, and what a sweep
  has taken or purged finished before all that it left, whether it was cut short or not.
* **GoneForGood** needs `ReaderInv`: a request has the winner's token, and a
  winner that has left its directory does not come back to it.
* **QuietDepartureUnlists** is of the form `[](P => []Q)`: an invariant that P
  establishes and every later step keeps.
* **NoGhostWorkers** counts the heartbeats in flight, which a process that is over only
  loses.
* **PoolAtStrength** is a count: with `MapInv` (the map has the children whose
  exit has not been handled) each exit moves one place from the map to a timer
  and each timer one back.
* **NewestFirst** and **NothingSkipped** rest on `CursorInv`: the cursor is below
  all that has been listed, and above all that still has to be, but for the
  milliseconds that pages ended in.
* **BoardNeverGoesBack** needs `ListInv`: the board is behind the one list in
  flight, and that behind Postgres.

The conjunction `IInv` of each module, and the invariants of the later layers, were
checked by TLC before they were proved.

Only model-checked: the liveness properties (EventuallyTerminal, EventuallyAnswered,
EventuallyPublished, EventuallyPurged, EventuallyUnlisted, StatusCatchesUp,
EventuallyFull, ViewsConverge), because the provers do not reason about fairness and
ENABLED. Of six of them the part that is a safety property is proved: that there is
always a step to take, or that nothing gets in its way (NoJobStranded for
EventuallyTerminal, NoWaitingInCircles, NoRowStranded, OldestArePurgedFirst,
NoGhostWorkers, and PoolIsAtStrength for EventuallyFull).

Some properties hold only while certain faults do not occur, and say so:
LosersCleanUp while no operation throws, UploadKept while no COMMIT is lost,
NoOrphanUploads while no process dies and no file operation throws,
BusyIsHonest while a worker is not given a job it still has, QuietDepartureUnlists
while no heartbeat is in flight at the delete, NoOrphans while the API is not
killed and no timer fires during its shutdown, NothingSkipped but for equal
milliseconds, and BoardNeverGoesBack while polls do not overlap. They do not cover
the hazards their conditions leave out, which PROJECT.json lists without them; what
happens then is in section 5.
AttemptsMonotonic and the two Queue... properties are stated without such a condition
and are checked in a run whose faults are those that the theorems allow; the findings
show what happens otherwise.

## 5. Findings

1. **A late claim strands the job** (`jobsRepo.ts:230`). transitionToRunning
   stamps its token on any unfinished row. An attempt stalled between
   getJobById and its claim can claim after its replacement did; the
   replacement's success is then rejected, its files are discarded and BullMQ
   is told that the job completed. If the stale attempt then fails transiently
   the row stays `retrying` with nothing to retry it.
2. **A COMMIT that threw but executed** (`submitImageJob.ts:88`). The upload of
   a durable job is removed; its attempts fail with ENOENT, and a client that
   repeats the request is referred to that job.
3. **A failed delete is not retried** (`retention.ts:26`). The log line says
   "will retry", but the job is marked purged.

Each of these has a run that expects the violation. The limits below are what the
conditions of the checked properties, or the faults of their runs, leave out.

* Past MAX_STALLED_COUNT BullMQ fails its entry without calling processJob, and
  a database error outside phase 1 on the last attempt ends the job for BullMQ
  only; the row stays as it is for ever (QueueFailureIsRecorded).
* What an attempt writes after its job's only sweep stays if it then ends without a
  discard: its process dies, the discard throws, or its commit stays uncertain and
  the files are preserved (OnlyLateFilesStay; PurgedIsGone is false of such a
  behaviour as well). `processor.ts:266` calls that a cost "the retention sweep
  eventually cleans up", and ARCHITECTURE.md:158-165 and FAILURE_SCENARIOS.md:199 say
  the like of orphaned directories: it is so for what was left by the time of the
  sweep, and no sweep comes after it.
* A download is answered 404 on any error of sendFile, so that a 404 is no proof that
  the result is gone (GoneForGood is about requests that looked).
* A worker that is given again a job it still has, after its lock expired, has it
  twice in flight and once in activeJobIds; the first to end makes it `idle`
  (BusyIsHonest).
* A heartbeat in flight when shutdown deletes the row may execute after it; the
  row then stays until it is pruned as stale (QuietDepartureUnlists).
* A timer to respawn does not ask whether the manager is stopping, and a killed
  API process leaves its demo workers alive (NoOrphans).
* A cursor is cut to milliseconds: the rows of the same millisecond that a page
  did not take are on no later page (NothingSkipped).
* The answer to an older poll may replace that to a newer one, for one interval
  (BoardNeverGoesBack), and the detail may be of a ticket that is no longer
  selected, until the next poll (ViewsConverge).

## 6. Not modelled, and why

* The `!record` branch of processJob and "could not be read back" in
  createJobWithOutbox: no code deletes jobs, so neither is reachable.
* Which of the two queues a job goes to, filenames, image formats, sizes,
  error texts: data no property distinguishes.
* The death of a whole worker process with several attempts in it:
  one job has at most one attempt per process unless that process stalls and
  takes its own job back, which two crashes cover.
* More than one API process: one is deployed (demo workers and sweepers belong
  to it). `Outbox` would allow several immediate calls and sweeps anyway.
* Metrics, health, logging, configuration, CLI, benchmark: they read or present
  and decide nothing.
* The rest of the page: worker stations, drag and drop, and the demo controls,
  which are scripts of the same requests for one visitor; the list's limit of 100
  jobs, and that the detail joins two requests.
* The length of a backoff and the canonicalization of a fingerprint: pure
  functions of a few numbers and a few fields, with unit tests; no property here
  depends on the one, and the other is a value that is compared.
* Migrations: they run before everything else, in the one API process.
* The order in which the API closes its server, its queues and its pool: no
  module has more than one of them, and what waits for them is a stop like any
  other.
