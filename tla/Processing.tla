----------------------------- MODULE Processing -----------------------------
(***************************************************************************)
(* One job from its outbox event to its last attempt: the dispatcher that  *)
(* adds it to BullMQ (outbox/dispatcher.ts), BullMQ's entry for it, and    *)
(* the calls of processJob (worker/processor.ts) that work on it, each     *)
(* await of which is a step of its own, against the shared `jobs` row.     *)
(*                                                                         *)
(* Jobs share no row, queue entry or directory, so one job is enough.  An  *)
(* attempt is one call of processJob; it is named by the fencing token it  *)
(* draws.  Several attempts overlap when a lock expires under a live one.  *)
(*                                                                         *)
(* The environment may crash an attempt's process, stall one past its      *)
(* lock, and make a statement or a file operation throw.  A statement that *)
(* threw (or that its process died waiting for) may still execute later:   *)
(* it is "in flight" until it lands or vanishes.                           *)
(***************************************************************************)
EXTENDS JobsRepo, FiniteSets

CONSTANTS
    MaxAttempts,      \* jobs.max_attempts, from MAX_JOB_ATTEMPTS at submission
    QueueAttempts,    \* BullMQ's `attempts`, from MAX_JOB_ATTEMPTS at publication
    MaxStalledCount,  \* MAX_STALLED_COUNT
    MaxFaults         \* bound: how many faults of each kind a behaviour has

\* A killed worker process, a live one stalled past its lock, an operation that
\* throws, an unacknowledged statement that executes after all, a dispatcher
\* transaction that rolls back after queue.add.
FaultKinds == {"crash", "pause", "error", "late", "republish"}

ASSUME ProcessingAssumption ==
    /\ MaxAttempts \in Nat \ {0}
    /\ QueueAttempts \in Nat \ {0}
    /\ MaxStalledCount \in Nat \ {0}
    /\ MaxFaults \in [FaultKinds -> Nat]

VARIABLES
    upload,    \* whether the uploaded bytes are a valid image
    job,       \* the row of `jobs`
    event,     \* the outbox row: "pending", "added" in an open transaction, "published"
    entry,     \* BullMQ's record of the job
    run,       \* the calls of processJob, by token
    inflight,  \* by token: the status an unacknowledged UPDATE would set
    history,   \* by token: the attempt's row in `job_attempts`
    dir,       \* by token: the attempt's directory under results/_attempts
    faults     \* faults spent so far

queueVars == <<event, entry>>
diskVars  == <<upload, dir>>
vars == <<upload, job, event, entry, run, inflight, history, dir, faults>>

EntryStates == {"absent", "waiting", "active", "delayed", "completed", "failed"}

\* `holder` is the attempt whose worker took the entry, `locked` whether its lock
\* key still exists, `made` is attemptsMade and `stalls` the stalled counter.
Entry == [state:  EntryStates,
          holder: Tokens \cup {NoToken},
          locked: BOOLEAN,
          made:   Nat,
          stalls: Nat]

NoEntry == [state  |-> "absent",
            holder |-> NoToken,
            locked |-> FALSE,
            made   |-> 0,
            stalls |-> 0]

\* Where a call of processJob stands: before which await.
PCs == {"idle",
        "fetched",      \* getJobById, the duplicate-delivery guard
        "claiming",     \* transitionToRunning
        "recheck",      \* getJobById, after transitionToRunning matched no row
        "starting",     \* recordAttemptStart
        "working",      \* applyFault and generateThumbnails
        "faulted",      \* phase 1 threw: discardAttemptResult
        "finalizing",   \* transitionToFailed or transitionToRetrying
        "committing",   \* transitionToSucceeded
        "doubt",        \* it threw: getJobById
        "outvoted",     \* another attempt owns the outcome: discardAttemptResult
        "lost",         \* it matched no row: discardAttemptResult
        "lostread",     \* getJobById
        "recording",    \* recordAttemptEnd
        "settling",     \* returned or threw: BullMQ moves the entry
        "ended", "crashed"}

\* How the call ends for BullMQ: returned, threw, threw an UnrecoverableError.
Outcomes == {"completed", "error", "unrecoverable"}
Verdicts == {"succeeded", "failed", "retrying"}

Run == [pc: PCs, attempt: Nat, outcome: Outcomes, verdict: Verdicts]

NoRun == [pc |-> "idle", attempt |-> 0, outcome |-> "error", verdict |-> "retrying"]

Live(d)   == run[d].pc \notin {"idle", "ended", "crashed"}
HoldsLock(d) == entry.state = "active" /\ entry.locked /\ entry.holder = d
Done      == job.status \in Terminal

Init == /\ upload \in {"image", "garbage"}
        /\ job = NewJobRow
        /\ event = "pending"
        /\ entry = NoEntry
        /\ run = [d \in Tokens |-> NoRun]
        /\ inflight = [d \in Tokens |-> "none"]
        /\ history = [d \in Tokens |-> "none"]
        /\ dir = [d \in Tokens |-> "none"]
        /\ faults = [k \in FaultKinds |-> 0]

Spend(k) == /\ faults[k] < MaxFaults[k]
            /\ faults' = [faults EXCEPT ![k] = @ + 1]

Goto(d, pc) == run' = [run EXCEPT ![d].pc = pc]

\* The call is over but for what BullMQ makes of it.
Exit(d, outcome) ==
    run' = [run EXCEPT ![d] = [@ EXCEPT !.pc = "settling", !.outcome = outcome]]

\* The call goes on to recordAttemptEnd(verdict), then returns or throws.
Conclude(d, verdict, outcome) ==
    run' = [run EXCEPT ![d] = [@ EXCEPT !.pc = "recording", !.verdict = verdict,
                                        !.outcome = outcome]]

-----------------------------------------------------------------------------
\* The dispatcher: one transaction claims the outbox row, adds the job to BullMQ
\* and marks the row published.

\* queue.add with jobId: a no-op while BullMQ still has an entry of that id.
QueueAdd ==
    /\ event = "pending"
    /\ event' = "added"
    /\ entry' = IF entry.state = "absent"
                THEN [NoEntry EXCEPT !.state = "waiting"] ELSE entry
    /\ UNCHANGED <<job, run, inflight, history, diskVars, faults>>

CommitPublished ==
    /\ event = "added"
    /\ event' = "published"
    /\ UNCHANGED <<job, entry, run, inflight, history, diskVars, faults>>

\* The API process dies, or the COMMIT or queue.add's reply is lost: the row is
\* claimed again by a later sweep although BullMQ has the job.
RollbackPublished ==
    /\ event = "added"
    /\ event' = "pending"
    /\ Spend("republish")
    /\ UNCHANGED <<job, entry, run, inflight, history, diskVars>>

-----------------------------------------------------------------------------
\* BullMQ (external), as the worker's options configure it.

\* A worker takes the waiting entry and calls processJob with a new token.
Deliver(d) ==
    /\ entry.state = "waiting"
    /\ run[d].pc = "idle"
    /\ entry' = [entry EXCEPT !.state = "active", !.holder = d, !.locked = TRUE]
    /\ run' = [run EXCEPT ![d] = [@ EXCEPT !.pc = "fetched", !.attempt = entry.made + 1]]
    /\ UNCHANGED <<job, event, inflight, history, diskVars, faults>>

\* The lock of a dead process is not renewed.
LockOfDeadExpires ==
    /\ entry.locked
    /\ ~Live(entry.holder)
    /\ entry' = [entry EXCEPT !.locked = FALSE]
    /\ UNCHANGED <<job, event, run, inflight, history, diskVars, faults>>

\* Nor is the lock of a process stalled for longer than LOCK_DURATION_MS.
LockOfLiveExpires ==
    /\ entry.locked
    /\ Live(entry.holder)
    /\ Spend("pause")
    /\ entry' = [entry EXCEPT !.locked = FALSE]
    /\ UNCHANGED <<job, event, run, inflight, history, diskVars>>

\* The stalled-job check of any worker: back to waiting, or, past
\* maxStalledCount, to BullMQ's failed set without a call of processJob.
RecoverStalled ==
    /\ entry.state = "active"
    /\ ~entry.locked
    /\ entry' = [entry EXCEPT !.stalls = @ + 1,
                              !.state = IF entry.stalls + 1 > MaxStalledCount
                                        THEN "failed" ELSE "waiting"]
    /\ UNCHANGED <<job, event, run, inflight, history, diskVars, faults>>

\* The backoff delay of a failed attempt is over.
Promote ==
    /\ entry.state = "delayed"
    /\ entry' = [entry EXCEPT !.state = "waiting"]
    /\ UNCHANGED <<job, event, run, inflight, history, diskVars, faults>>

\* removeOnComplete and removeOnFail: enough other jobs finished since.
Trim ==
    /\ entry.state \in {"completed", "failed"}
    /\ entry' = NoEntry
    /\ UNCHANGED <<job, event, run, inflight, history, diskVars, faults>>

\* What BullMQ makes of a call that returned or threw, while its lock is held.
SettledEntry(d) ==
    LET exhausted == entry.made + 1 >= QueueAttempts
    IN  [entry EXCEPT
            !.locked = FALSE,
            !.made = @ + 1,
            !.state = CASE run[d].outcome = "completed"     -> "completed"
                        [] run[d].outcome = "unrecoverable" -> "failed"
                        [] OTHER -> IF exhausted THEN "failed" ELSE "delayed"]

\* A worker that lost the lock cannot move the entry.
Settle(d) ==
    /\ run[d].pc = "settling"
    /\ Goto(d, "ended")
    /\ entry' = IF HoldsLock(d) THEN SettledEntry(d) ELSE entry
    /\ UNCHANGED <<job, event, inflight, history, diskVars, faults>>

-----------------------------------------------------------------------------
\* processJob, up to the end of phase 1.

\* Faulty variant: a job someone already started counts as a duplicate.
Fetch_SkipsStarted(d) ==
    /\ run[d].pc = "fetched"
    /\ IF job.status # "queued" THEN Exit(d, "completed") ELSE Goto(d, "claiming")
    /\ UNCHANGED <<job, queueVars, inflight, history, diskVars, faults>>

Fetch(d) ==
    /\ run[d].pc = "fetched"
    /\ IF Done THEN Exit(d, "completed") ELSE Goto(d, "claiming")
    /\ UNCHANGED <<job, queueVars, inflight, history, diskVars, faults>>

Claim(d) ==
    /\ run[d].pc = "claiming"
    /\ job' = TransitionToRunning(job, d)
    /\ Goto(d, IF CanRun(job) THEN "starting" ELSE "recheck")
    /\ UNCHANGED <<queueVars, inflight, history, diskVars, faults>>

Recheck(d) ==
    /\ run[d].pc = "recheck"
    /\ IF Done THEN Exit(d, "completed") ELSE Goto(d, "starting")
    /\ UNCHANGED <<job, queueVars, inflight, history, diskVars, faults>>

Start(d) ==
    /\ run[d].pc = "starting"
    /\ history' = [history EXCEPT ![d] = "running"]
    /\ Goto(d, "working")
    /\ UNCHANGED <<job, queueVars, inflight, diskVars, faults>>

\* generateThumbnails validates the bytes before it writes the first file.
WriteFirst(d) ==
    /\ run[d].pc = "working"
    /\ upload = "image"
    /\ dir[d] = "none"
    /\ dir' = [dir EXCEPT ![d] = "partial"]
    /\ UNCHANGED <<upload, job, queueVars, run, inflight, history, faults>>

WriteLast(d) ==
    /\ run[d].pc = "working"
    /\ dir[d] = "partial"
    /\ dir' = [dir EXCEPT ![d] = "complete"]
    /\ Goto(d, "committing")
    /\ UNCHANGED <<upload, job, queueVars, inflight, history, faults>>

\* applyFault or a file operation throws.
FailTransiently(d) ==
    /\ run[d].pc = "working"
    /\ run' = [run EXCEPT ![d] = [@ EXCEPT !.pc = "faulted", !.outcome = "error"]]
    /\ UNCHANGED <<job, queueVars, inflight, history, diskVars, faults>>

\* validateImageBuffer throws a ValidationError.
FailValidation(d) ==
    /\ run[d].pc = "working"
    /\ upload = "garbage"
    /\ run' = [run EXCEPT ![d] = [@ EXCEPT !.pc = "faulted", !.outcome = "unrecoverable"]]
    /\ UNCHANGED <<job, queueVars, inflight, history, diskVars, faults>>

\* discardAttemptResult on the three paths that call it.
Discard(d) ==
    /\ \/ run[d].pc = "faulted"  /\ Goto(d, "finalizing")
       \/ run[d].pc = "lost"     /\ Goto(d, "lostread")
       \/ run[d].pc = "outvoted" /\ Conclude(d, "succeeded", "completed")
    /\ dir' = [dir EXCEPT ![d] = "none"]
    /\ UNCHANGED <<upload, job, queueVars, inflight, history, faults>>

\* Faulty variants: one attempt too few, one too many.
GivesUp_Early(d) == run[d].outcome = "unrecoverable" \/ run[d].attempt + 1 >= MaxAttempts
GivesUp_Late(d)  == run[d].outcome = "unrecoverable" \/ run[d].attempt > MaxAttempts

\* No further attempt: the input is invalid, or this was the last one.
GivesUp(d) == run[d].outcome = "unrecoverable" \/ run[d].attempt >= MaxAttempts

Finalize(d) ==
    /\ run[d].pc = "finalizing"
    /\ IF GivesUp(d)
       THEN /\ job' = TransitionToFailed(job, run[d].attempt, d)
            /\ Conclude(d, "failed", run[d].outcome)
       ELSE /\ job' = TransitionToRetrying(job, run[d].attempt, d)
            /\ Conclude(d, "retrying", run[d].outcome)
    /\ UNCHANGED <<queueVars, inflight, history, diskVars, faults>>

-----------------------------------------------------------------------------
\* processJob, phases 2 and 3.

\* Faulty variant: the loser's directory stays behind.
Commit_LoserKeepsFiles(d) ==
    /\ run[d].pc = "committing"
    /\ job' = TransitionToSucceeded(job, run[d].attempt, d)
    /\ Conclude(d, "succeeded", "completed")
    /\ UNCHANGED <<queueVars, inflight, history, diskVars, faults>>

Commit(d) ==
    /\ run[d].pc = "committing"
    /\ job' = TransitionToSucceeded(job, run[d].attempt, d)
    /\ IF CanSucceed(job, d) THEN Conclude(d, "succeeded", "completed")
                             ELSE Goto(d, "lost")
    /\ UNCHANGED <<queueVars, inflight, history, diskVars, faults>>

\* Faulty variant: a row that is not terminal is taken for a rollback.
ResolveDoubt_AssumesRollback(d) ==
    /\ run[d].pc = "doubt"
    /\ IF job.status = "succeeded" /\ job.resultToken = d
       THEN Conclude(d, "succeeded", "completed")
       ELSE Goto(d, "outvoted")
    /\ UNCHANGED <<job, queueVars, inflight, history, diskVars, faults>>

\* After transitionToSucceeded threw: ask Postgres what happened.
ResolveDoubt(d) ==
    /\ run[d].pc = "doubt"
    /\ IF job.status = "succeeded" /\ job.resultToken = d
       THEN Conclude(d, "succeeded", "completed")
       ELSE IF Done THEN Goto(d, "outvoted")
                    ELSE Conclude(d, "retrying", "error")
    /\ UNCHANGED <<job, queueVars, inflight, history, diskVars, faults>>

\* After an ownership loss the latest result is read only to be returned.
ReadLatest(d) ==
    /\ run[d].pc = "lostread"
    /\ Conclude(d, "succeeded", "completed")
    /\ UNCHANGED <<job, queueVars, inflight, history, diskVars, faults>>

Record(d) ==
    /\ run[d].pc = "recording"
    /\ history' = [history EXCEPT ![d] = run[d].verdict]
    /\ Goto(d, "settling")
    /\ UNCHANGED <<job, queueVars, inflight, diskVars, faults>>

-----------------------------------------------------------------------------
\* Errors.  A statement or a file operation throws; what it was to do may have
\* happened, may still happen, or may never happen.

\* The status the UPDATE awaited at this point would set.
Statement(d) ==
    CASE run[d].pc = "claiming"   -> "running"
      [] run[d].pc = "committing" -> "succeeded"
      [] run[d].pc = "finalizing" -> IF GivesUp(d) THEN "failed" ELSE "retrying"
      [] OTHER                    -> "none"

Unacknowledged(d) == inflight' = [inflight EXCEPT ![d] = Statement(d)]

\* getJobById: the error leaves processJob.
ReadThrows(d) ==
    /\ run[d].pc \in {"fetched", "recheck", "lostread"}
    /\ Spend("error")
    /\ Exit(d, "error")
    /\ UNCHANGED <<job, queueVars, inflight, history, diskVars>>

\* transitionToRunning, transitionToRetrying or transitionToFailed: likewise.
UpdateThrows(d) ==
    /\ run[d].pc \in {"claiming", "finalizing"}
    /\ Spend("error")
    /\ Unacknowledged(d)
    /\ Exit(d, "error")
    /\ UNCHANGED <<job, queueVars, history, diskVars>>

StartThrows(d) ==
    /\ run[d].pc = "starting"
    /\ Spend("error")
    /\ history' \in {history, [history EXCEPT ![d] = "running"]}
    /\ Exit(d, "error")
    /\ UNCHANGED <<job, queueVars, inflight, diskVars>>

\* transitionToSucceeded: the error is caught.
CommitThrows(d) ==
    /\ run[d].pc = "committing"
    /\ Spend("error")
    /\ Unacknowledged(d)
    /\ Goto(d, "doubt")
    /\ UNCHANGED <<job, queueVars, history, diskVars>>

\* The re-check itself fails: .catch(() => undefined).
DoubtUnread(d) ==
    /\ run[d].pc = "doubt"
    /\ Spend("error")
    /\ Conclude(d, "retrying", "error")
    /\ UNCHANGED <<job, queueVars, inflight, history, diskVars>>

\* rm fails, with part of the directory gone or not.
DiscardThrows(d) ==
    /\ run[d].pc \in {"faulted", "lost", "outvoted"}
    /\ dir[d] # "none"
    /\ Spend("error")
    /\ dir' \in {dir, [dir EXCEPT ![d] = "partial"]}
    /\ Exit(d, "error")
    /\ UNCHANGED <<upload, job, queueVars, inflight, history>>

\* recordAttemptEnd: swallowed once the outcome is settled (after a success, an
\* ownership loss or an uncertain commit); after a failure in phase 1 the error
\* replaces the one about to be thrown, an UnrecoverableError included.
RecordThrows(d) ==
    /\ run[d].pc = "recording"
    /\ Spend("error")
    /\ history' \in {history, [history EXCEPT ![d] = run[d].verdict]}
    /\ Exit(d, IF run[d].verdict = "succeeded" THEN "completed" ELSE "error")
    /\ UNCHANGED <<job, queueVars, inflight, diskVars>>

\* The process is killed, a statement it awaits possibly on its way.
Crash(d) ==
    /\ Live(d)
    /\ Spend("crash")
    /\ Goto(d, "crashed")
    /\ \/ Statement(d) # "none" /\ Unacknowledged(d)
       \/ UNCHANGED inflight
    /\ UNCHANGED <<job, queueVars, history, diskVars>>

\* An unacknowledged UPDATE executes now, under its WHERE clause.
Land(d) ==
    /\ inflight[d] # "none"
    /\ Spend("late")
    /\ job' = CASE inflight[d] = "running"   -> TransitionToRunning(job, d)
                [] inflight[d] = "retrying"  -> TransitionToRetrying(job, run[d].attempt, d)
                [] inflight[d] = "succeeded" -> TransitionToSucceeded(job, run[d].attempt, d)
                [] inflight[d] = "failed"    -> TransitionToFailed(job, run[d].attempt, d)
    /\ inflight' = [inflight EXCEPT ![d] = "none"]
    /\ UNCHANGED <<queueVars, run, history, diskVars>>

\* It never reached Postgres.
Vanish(d) ==
    /\ inflight[d] # "none"
    /\ inflight' = [inflight EXCEPT ![d] = "none"]
    /\ UNCHANGED <<job, queueVars, run, history, diskVars, faults>>

-----------------------------------------------------------------------------
Dispatch == QueueAdd \/ CommitPublished
Queue    == LockOfDeadExpires \/ RecoverStalled \/ Promote \/ (\E d \in Tokens : Deliver(d))

\* What a call of processJob does on its own.
Proceed(d) ==
    \/ Fetch(d) \/ Claim(d) \/ Recheck(d) \/ Start(d)
    \/ WriteFirst(d) \/ WriteLast(d) \/ FailTransiently(d) \/ FailValidation(d)
    \/ Discard(d) \/ Finalize(d)
    \/ Commit(d) \/ ResolveDoubt(d) \/ ReadLatest(d) \/ Record(d)
    \/ Settle(d)

Throws(d) ==
    \/ ReadThrows(d) \/ UpdateThrows(d) \/ StartThrows(d) \/ CommitThrows(d)
    \/ DoubtUnread(d) \/ DiscardThrows(d) \/ RecordThrows(d)

Next ==
    \/ Dispatch \/ RollbackPublished
    \/ Queue \/ LockOfLiveExpires \/ Trim
    \/ \E d \in Tokens : Proceed(d) \/ Throws(d) \/ Crash(d) \/ Land(d) \/ Vanish(d)

Spec == Init /\ [][Next]_vars

\* The sweeper keeps sweeping, some worker of the queue is up, and a call of
\* processJob that is not killed goes on.
Fairness == /\ WF_vars(Dispatch)
            /\ WF_vars(Queue)
            /\ \A d \in Tokens : WF_vars(Proceed(d))

FairSpec == Spec /\ Fairness

-----------------------------------------------------------------------------
TypeOK ==
    /\ upload \in {"image", "garbage"}
    /\ job \in JobRow
    /\ event \in {"pending", "added", "published"}
    /\ entry \in Entry
    /\ run \in [Tokens -> Run]
    /\ inflight \in [Tokens -> {"none", "running", "retrying", "succeeded", "failed"}]
    /\ history \in [Tokens -> {"none", "running", "succeeded", "failed", "retrying"}]
    /\ dir \in [Tokens -> {"none", "partial", "complete"}]
    /\ faults \in [FaultKinds -> Nat]

-----------------------------------------------------------------------------
\* The inductive invariant.

\* A row names a result exactly when it is `succeeded`.
WinnerInv == (job.status = "succeeded") <=> (job.resultToken # NoToken)

\* Where an attempt may stand once its transitionToSucceeded may have executed.
AfterCommit == {"doubt", "recording", "settling", "ended", "crashed"}

\* From its last thumbnail on, an attempt's directory stays complete for as long
\* as it is the result or may become it; only attempts that can no longer win
\* reach a discardAttemptResult.
FilesInv ==
    \A d \in Tokens :
        /\ run[d].pc \in {"committing", "doubt"} => dir[d] = "complete"
        /\ inflight[d] = "succeeded" /\ ~Done
              => dir[d] = "complete" /\ run[d].pc \in AfterCommit
        /\ job.resultToken = d
              => dir[d] = "complete" /\ run[d].pc \in AfterCommit
        /\ run[d].pc = "outvoted" => Done

\* Where an attempt has claimed and not yet presented its token.
Unfinalized == {"starting", "working", "faulted", "finalizing", "committing"}

YetToFinalize(d) == \/ run[d].pc \in Unfinalized
                    \/ inflight[d] \in {"retrying", "succeeded", "failed"}

\* While the owner has yet to finalize, the row of an unfinished job is `running`.
OwnershipInv ==
    \A d \in Tokens :
        /\ run[d].pc \in {"idle", "fetched", "claiming", "recheck"} \cup Unfinalized
              => inflight[d] = "none"
        /\ run[d].pc = "recheck" => Done
        /\ job.runningToken = d /\ ~Done /\ YetToFinalize(d) => job.status = "running"

\* BullMQ starts no attempt beyond its `attempts`.
AttemptInv ==
    /\ entry.state \in {"waiting", "active", "delayed"} => entry.made < QueueAttempts
    /\ \A d \in Tokens : run[d].pc # "idle" => run[d].attempt \in 1 .. QueueAttempts

IInv == TypeOK /\ WinnerInv /\ FilesInv /\ OwnershipInv /\ AttemptInv

-----------------------------------------------------------------------------
\* The directory result_attempt_token points at holds every thumbnail, however
\* attempts overlap, crash, lose acknowledgments or clean up after themselves
\* (processor.ts: "a false 'delete the real published result' is data loss").
PublishedIntact == job.status = "succeeded" => dir[job.resultToken] = "complete"

\* A terminal row never changes again: no stale, duplicate or late statement
\* moves it (jobsRepo.ts: "protect terminal states from stale or duplicate
\* workers").
TerminalFinal == [][Done => UNCHANGED job]_vars

\* Only the attempt that most recently claimed the job decides its outcome: when
\* the row leaves `running`, it is by a statement of that attempt, awaited or in
\* flight, never by a superseded one (003_attempt_ownership.sql).
OwnerDecides ==
    [][LET owner == job.runningToken
       IN  job' # job /\ job'.status # "running"
             => job'.status \in {inflight[owner], Statement(owner)}]_vars

\* A job with a valid image fails only by exhausting max_attempts.
NoPrematureFailure ==
    job.status = "failed" /\ upload = "image" => job.attempts >= MaxAttempts

\* As long as no operation throws, an attempt that ends leaves a directory behind only
\* as the published result (processor.ts: losers discard theirs).
LosersCleanUp ==
    faults["error"] = 0 =>
        \A d \in Tokens : run[d].pc = "ended" /\ dir[d] # "none" => job.resultToken = d

\* A delivery that has yet to claim when the job is already terminal never comes to
\* work, wherever the job's end overtakes it (FAILURE_SCENARIOS.md: "returns the
\* stored result untouched").
DuplicateDeliveryInert ==
    [][Done => \A d \in Tokens :
          run[d].pc \in {"idle", "fetched", "claiming", "recheck"}
              => run'[d].pc \notin Unfinalized]_vars

\* jobs.attempts never goes back to an earlier attempt's number.  Holds while no
\* live attempt loses its lock and BullMQ's entry of an unfinished job is not added
\* a second time, with attempts counted anew.
AttemptsMonotonic == [][job'.attempts >= job.attempts]_vars

\* No attempt runs and no statement is on its way.
Quiet == \A d \in Tokens : ~Live(d) /\ inflight[d] = "none"

\* Once BullMQ considers the job completed (failed) and nothing is under way any
\* more, Postgres has a terminal status for it: no ticket is stranded in
\* `running` or `retrying`, where nothing would ever move it again.
QueueCompletionIsRecorded == Quiet /\ entry.state = "completed" => Done
QueueFailureIsRecorded    == Quiet /\ entry.state = "failed" => Done

\* Every accepted job is eventually succeeded or failed.
EventuallyTerminal == <>Done

\* What a visitor sees is a behaviour of the abstract ticket.
ServedResult == job.status = "succeeded" /\ dir[job.resultToken] = "complete"

T == INSTANCE Ticket WITH MaxAttempts <- QueueAttempts,
                          status <- job.status,
                          attempts <- job.attempts,
                          served <- ServedResult

TicketSpec == T!Spec
=============================================================================
