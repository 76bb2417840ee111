----------------------------- MODULE Submission -----------------------------
(***************************************************************************)
(* POST /api/jobs: concurrent calls of submitImageJob                      *)
(* (api/submitImageJob.ts) and, in them, the transaction of                *)
(* createJobWithOutbox (db/jobsRepo.ts).  Each await is a step.            *)
(*                                                                         *)
(* A request names the job id it draws with randomUUID(), so it also names *)
(* the uploaded file and the row, if it gets one.  A client that repeats a *)
(* request is another request with the same key.                           *)
(***************************************************************************)
EXTENDS Naturals, FiniteSets

CONSTANTS
    Requests,
    NoRequest,
    Keys,        \* idempotency keys
    NoKey,       \* stands for a 400: no key, one of over 200 characters, or no file
    Prints,      \* payload fingerprints
    MaxFaults    \* bound: how many faults of each kind a behaviour has

\* A statement that throws, a COMMIT that throws, a file operation that throws, an
\* API process that dies.
FaultKinds == {"statement", "commit", "file", "crash"}

ASSUME SubmissionAssumption ==
    /\ NoRequest \notin Requests
    /\ NoKey \notin Keys
    /\ MaxFaults \in [FaultKinds -> Nat]

VARIABLES
    key,       \* the Idempotency-Key each request carries
    print,     \* the fingerprint of its payload
    req,       \* the calls of submitImageJob
    uploads,   \* the requests whose upload is on disk, complete or not
    tx,        \* by request: its transaction, as the server holds it
    jobs,      \* the committed rows of `jobs`
    events,    \* the jobs with a committed row in `outbox_events`
    faults     \* faults spent so far

input == <<key, print>>
tables == <<jobs, events>>
vars == <<input, req, uploads, tx, tables, faults>>

PCs == {"received",
        "inserting",    \* connect, BEGIN, INSERT INTO jobs ... ON CONFLICT DO NOTHING
        "recording",    \* INSERT INTO outbox_events
        "committing",   \* COMMIT
        "comparing",    \* the key was taken: SELECT, COMMIT
        "discarding",   \* rm of the upload
        "answered", "crashed"}

Answers == {"none", "created", "replayed", "conflict", "invalid", "error"}

\* `outcome` is what the call will answer once it has discarded the upload.
Request == [pc: PCs, outcome: Answers, answer: Answers]

\* Uncommitted at the server: nothing, the job, the job and its event, or both with
\* a COMMIT on its way of which the client will not hear.
TxStates == {"none", "job", "event", "doomed", "uncertain"}

Init == /\ key \in [Requests -> Keys \cup {NoKey}]
        /\ print \in [Requests -> Prints]
        /\ req = [r \in Requests |->
                    [pc |-> "received", outcome |-> "none", answer |-> "none"]]
        /\ uploads = {}
        /\ tx = [r \in Requests |-> "none"]
        /\ jobs = {}
        /\ events = {}
        /\ faults = [k \in FaultKinds |-> 0]

Spend(k) == /\ faults[k] < MaxFaults[k]
            /\ faults' = [faults EXCEPT ![k] = @ + 1]

Live(r) == req[r].pc \notin {"answered", "crashed"}

Goto(r, pc) == req' = [req EXCEPT ![r] = [@ EXCEPT !.pc = pc]]

AnswerWith(r, a) == req' = [req EXCEPT ![r] = [@ EXCEPT !.pc = "answered", !.answer = a]]

\* Remove the upload, then answer a.
DiscardFor(r, a) == req' = [req EXCEPT ![r] = [@ EXCEPT !.pc = "discarding", !.outcome = a]]

\* The committed row with r's key.
Existing(r) == CHOOSE j \in jobs : key[j] = key[r]
Taken(r)    == \E j \in jobs : key[j] = key[r]

\* The unique index makes an INSERT wait for an uncommitted one of the same key.
Blocked(r)  == \E o \in Requests \ {r} : tx[o] # "none" /\ key[o] = key[r]

-----------------------------------------------------------------------------
\* submitImageJob and createJobWithOutbox.

Reject(r) ==
    /\ req[r].pc = "received"
    /\ key[r] = NoKey
    /\ AnswerWith(r, "invalid")
    /\ UNCHANGED <<input, uploads, tx, tables, faults>>

\* Faulty variant: the upload is named after the idempotency key.
WriteUpload_NamedByKey(r) ==
    /\ req[r].pc = "received"
    /\ key[r] # NoKey
    /\ uploads' = uploads \cup {key[r]}
    /\ Goto(r, "inserting")
    /\ UNCHANGED <<input, tx, tables, faults>>

WriteUpload(r) ==
    /\ req[r].pc = "received"
    /\ key[r] # NoKey
    /\ uploads' = uploads \cup {r}
    /\ Goto(r, "inserting")
    /\ UNCHANGED <<input, tx, tables, faults>>

\* Faulty variants: the key is looked up before the INSERT, with no unique index;
\* the INSERT is not part of the transaction.
Insert_Unlocked(r) ==
    /\ req[r].pc = "inserting"
    /\ IF Taken(r)
       THEN Goto(r, "comparing") /\ UNCHANGED tx
       ELSE Goto(r, "recording") /\ tx' = [tx EXCEPT ![r] = "job"]
    /\ UNCHANGED <<input, uploads, tables, faults>>

Insert_AutoCommit(r) ==
    /\ req[r].pc = "inserting"
    /\ ~Blocked(r)
    /\ IF Taken(r)
       THEN Goto(r, "comparing") /\ UNCHANGED <<tx, jobs>>
       ELSE /\ Goto(r, "recording")
            /\ tx' = [tx EXCEPT ![r] = "job"]
            /\ jobs' = jobs \cup {r}
    /\ UNCHANGED <<input, uploads, events, faults>>

Insert(r) ==
    /\ req[r].pc = "inserting"
    /\ ~Blocked(r)
    /\ IF Taken(r)
       THEN Goto(r, "comparing") /\ UNCHANGED tx
       ELSE Goto(r, "recording") /\ tx' = [tx EXCEPT ![r] = "job"]
    /\ UNCHANGED <<input, uploads, tables, faults>>

InsertEvent(r) ==
    /\ req[r].pc = "recording"
    /\ tx' = [tx EXCEPT ![r] = "event"]
    /\ Goto(r, "committing")
    /\ UNCHANGED <<input, uploads, tables, faults>>

\* Faulty variant: the upload is removed on every way out.
Commit_Discards(r) ==
    /\ req[r].pc = "committing"
    /\ jobs' = jobs \cup {r}
    /\ events' = events \cup {r}
    /\ tx' = [tx EXCEPT ![r] = "none"]
    /\ DiscardFor(r, "created")
    /\ UNCHANGED <<input, uploads, faults>>

\* The 202 is gated on the COMMIT; the immediate publishOnce is not awaited.
Commit(r) ==
    /\ req[r].pc = "committing"
    /\ jobs' = jobs \cup {r}
    /\ events' = events \cup {r}
    /\ tx' = [tx EXCEPT ![r] = "none"]
    /\ AnswerWith(r, "created")
    /\ UNCHANGED <<input, uploads, faults>>

\* Faulty variant: the fingerprints are not compared.
Compare_KeyOnly(r) ==
    /\ req[r].pc = "comparing"
    /\ DiscardFor(r, "replayed")
    /\ UNCHANGED <<input, uploads, tx, tables, faults>>

Compare(r) ==
    /\ req[r].pc = "comparing"
    /\ DiscardFor(r, IF print[Existing(r)] = print[r] THEN "replayed" ELSE "conflict")
    /\ UNCHANGED <<input, uploads, tx, tables, faults>>

\* Faulty variant: the loser's upload is kept.
Discard_Keeps(r) ==
    /\ req[r].pc = "discarding"
    /\ AnswerWith(r, req[r].outcome)
    /\ UNCHANGED <<input, uploads, tx, tables, faults>>

Discard(r) ==
    /\ req[r].pc = "discarding"
    /\ uploads' = uploads \ {r}
    /\ AnswerWith(r, req[r].outcome)
    /\ UNCHANGED <<input, tx, tables, faults>>

-----------------------------------------------------------------------------
\* Errors.

\* writeFile throws, possibly with some bytes written; nothing cleans up.
WriteThrows(r) ==
    /\ req[r].pc = "received"
    /\ key[r] # NoKey
    /\ Spend("file")
    /\ uploads' \in {uploads, uploads \cup {r}}
    /\ AnswerWith(r, "error")
    /\ UNCHANGED <<input, tx, tables>>

\* rm throws: .catch(() => {}).
DiscardThrows(r) ==
    /\ req[r].pc = "discarding"
    /\ Spend("file")
    /\ AnswerWith(r, req[r].outcome)
    /\ UNCHANGED <<input, uploads, tx, tables>>

\* Faulty variant: the connection is kept with its transaction open.
StatementThrows_NoRollback(r) ==
    /\ req[r].pc \in {"inserting", "recording", "comparing"}
    /\ Spend("statement")
    /\ DiscardFor(r, "error")
    /\ UNCHANGED <<input, uploads, tx, tables>>

\* A statement before the COMMIT, or the COMMIT of the read, throws: ROLLBACK, if
\* the connection still works, or the server drops the transaction in its time.
StatementThrows(r) ==
    /\ req[r].pc \in {"inserting", "recording", "comparing"}
    /\ Spend("statement")
    /\ tx' \in {[tx EXCEPT ![r] = "none"],
                [tx EXCEPT ![r] = IF @ = "none" THEN "none" ELSE "doomed"]}
    /\ DiscardFor(r, "error")
    /\ UNCHANGED <<input, uploads, tables>>

\* COMMIT throws: the ROLLBACK that follows cannot undo it if it executed.
CommitThrows(r) ==
    /\ req[r].pc = "committing"
    /\ Spend("commit")
    /\ tx' = [tx EXCEPT ![r] = "uncertain"]
    /\ DiscardFor(r, "error")
    /\ UNCHANGED <<input, uploads, tables>>

\* The server executes the COMMIT after all ...
Land(r) ==
    /\ tx[r] = "uncertain"
    /\ jobs' = jobs \cup {r}
    /\ events' = events \cup {r}
    /\ tx' = [tx EXCEPT ![r] = "none"]
    /\ UNCHANGED <<input, req, uploads, faults>>

\* ... or finds the connection closed and rolls back.
Abort(r) ==
    /\ tx[r] \in {"doomed", "uncertain"}
    /\ tx' = [tx EXCEPT ![r] = "none"]
    /\ UNCHANGED <<input, req, uploads, tables, faults>>

\* The API process dies, with it every call in it.
Crash ==
    /\ \E r \in Requests : Live(r)
    /\ Spend("crash")
    /\ req' = [r \in Requests |->
                 IF Live(r) /\ req[r].pc # "received"
                 THEN [req[r] EXCEPT !.pc = "crashed"] ELSE req[r]]
    /\ tx' = [r \in Requests |->
                 CASE req[r].pc = "recording"  -> "doomed"
                   [] req[r].pc = "committing" -> "uncertain"
                   [] OTHER                    -> tx[r]]
    /\ UNCHANGED <<input, uploads, tables>>

-----------------------------------------------------------------------------
Handle(r) ==
    \/ Reject(r) \/ WriteUpload(r) \/ Insert(r) \/ InsertEvent(r)
    \/ Commit(r) \/ Compare(r) \/ Discard(r)

Throws(r) == WriteThrows(r) \/ DiscardThrows(r) \/ StatementThrows(r) \/ CommitThrows(r)

Server(r) == Land(r) \/ Abort(r)

Next == \/ \E r \in Requests : Handle(r) \/ Throws(r) \/ Server(r)
        \/ Crash

Spec == Init /\ [][Next]_vars

\* A call goes on while its process lives, and Postgres ends the transaction of a
\* dead connection.
Fairness == \A r \in Requests : WF_vars(Handle(r)) /\ WF_vars(Server(r))

FairSpec == Spec /\ Fairness

-----------------------------------------------------------------------------
TypeOK ==
    /\ key \in [Requests -> Keys \cup {NoKey}]
    /\ print \in [Requests -> Prints]
    /\ req \in [Requests -> Request]
    /\ uploads \subseteq Requests
    /\ tx \in [Requests -> TxStates]
    /\ jobs \subseteq Requests
    /\ events \subseteq Requests
    /\ faults \in [FaultKinds -> Nat]

-----------------------------------------------------------------------------
\* The inductive invariant.

\* An open transaction is the only one of its key, and finds no committed job.
LockInv ==
    \A r \in Requests :
        tx[r] # "none" => key[r] \in Keys /\ ~Taken(r) /\ ~Blocked(r)

\* Where a call stands tells what it holds at the server.
PhaseInv ==
    \A r \in Requests :
        /\ req[r].pc = "recording"  <=> tx[r] = "job"
        /\ req[r].pc = "committing" <=> tx[r] = "event"
        /\ req[r].pc \in {"received", "inserting", "comparing"} =>
              tx[r] = "none" /\ r \notin jobs
        /\ tx[r] # "none" => r \notin jobs
        /\ r \in jobs => key[r] \in Keys

\* A call that will answer from another request's job has seen that job.
OutcomeInv ==
    \A r \in Requests :
        /\ req[r].pc # "answered" => req[r].answer = "none"
        /\ req[r].pc \notin {"received", "answered", "crashed"} => key[r] \in Keys
        /\ req[r].pc = "comparing" => Taken(r)
        /\ req[r].pc = "discarding" =>
              \/ req[r].outcome = "error"
              \/ \E j \in jobs \ {r} :
                    /\ key[j] = key[r]
                    /\ req[r].outcome = IF print[j] = print[r] THEN "replayed" ELSE "conflict"

-----------------------------------------------------------------------------
\* However requests race, fail and die, a key has at most one job (jobsRepo.ts:
\* "exactly one of N concurrent callers with the same idempotency key wins").
OneJobPerKey == \A a, b \in jobs : key[a] = key[b] => a = b

\* A job never exists without its outbox event, or an event without its job
\* (001_init.sql: "and vice versa").
OutboxComplete == jobs = events

\* All of them together are inductive.
IInv == TypeOK /\ LockInv /\ PhaseInv /\ OutcomeInv /\ OneJobPerKey /\ OutboxComplete

\* By the time a job row exists the upload it refers to is on disk, and nothing
\* but retention removes it (ARCHITECTURE.md, "Life of one job").
UploadBehindJob == jobs \subseteq uploads

\* It does hold as long as no acknowledgment of a COMMIT is lost, whatever else fails.
UploadKept == faults["commit"] = 0 => UploadBehindJob

\* Why: until then, whoever removes an upload has, and gets, no job.
UploadInv ==
    \A r \in Requests :
        /\ \/ req[r].pc \in {"inserting", "recording", "committing"}
           \/ tx[r] = "uncertain"
           \/ r \in jobs
           => r \in uploads
        /\ req[r].pc = "discarding" => tx[r] # "uncertain" /\ r \notin jobs

\* As long as no process dies and no file operation throws, once every call is over
\* and no transaction is open, each upload on disk belongs to a job: losers, replays
\* and failures removed theirs.
NoOrphanUploads ==
    /\ faults["crash"] = 0 /\ faults["file"] = 0
    /\ \A r \in Requests : ~Live(r) /\ tx[r] = "none"
    => uploads \subseteq jobs

\* Every request is answered, or its process died.
EventuallyAnswered == \A r \in Requests : <>(~Live(r))

\* The answers are those of a store in which a key's first job is for ever.
Owner == [k \in Keys |-> IF \E j \in jobs : key[j] = k
                         THEN CHOOSE j \in jobs : key[j] = k ELSE NoRequest]

Told == [r \in Requests |-> req[r].answer]

S == INSTANCE IdempotentStore WITH owner <- Owner, answer <- Told

StoreSpec == S!Spec
=============================================================================
