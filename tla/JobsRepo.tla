------------------------------ MODULE JobsRepo ------------------------------
(***************************************************************************)
(* The `jobs` row of one job and the guarded UPDATEs of db/jobsRepo.ts.    *)
(*                                                                         *)
(* Each statement is an operator from a row to a row.  Its WHERE clause is *)
(* the predicate Can...: when it is false the UPDATE matches zero rows and *)
(* leaves the row as it was, and the function returns undefined.           *)
(*                                                                         *)
(* A token stands for one random UUID, drawn by one call of processJob, so *)
(* it also names that call (an attempt) and its results directory.         *)
(***************************************************************************)
EXTENDS Naturals

CONSTANTS
    Tokens,     \* the fencing tokens attempts draw with randomUUID()
    NoToken     \* SQL NULL in running_token and result_attempt_token

ASSUME NoTokenAssumption == NoToken \notin Tokens

Statuses == {"queued", "running", "retrying", "succeeded", "failed"}
Terminal == {"succeeded", "failed"}

JobRow == [status:       Statuses,
           attempts:     Nat,
           runningToken: Tokens \cup {NoToken},
           resultToken:  Tokens \cup {NoToken}]

\* Faulty variant: a status the table's CHECK does not know.
NewJobRow_UnknownStatus == [status       |-> "pending",
                            attempts     |-> 0,
                            runningToken |-> NoToken,
                            resultToken  |-> NoToken]

\* The row createJobWithOutbox inserts.
NewJobRow == [status       |-> "queued",
              attempts     |-> 0,
              runningToken |-> NoToken,
              resultToken  |-> NoToken]

-----------------------------------------------------------------------------
\* Faulty variants: no guard on terminal rows, `running` not re-entrant, no
\* fencing token.
CanRun_Always(row)          == TRUE
CanRun_NotReentrant(row)    == row.status \in {"queued", "retrying"}
CanRetry_AnyToken(row, t)   == row.status = "running"
CanSucceed_AnyToken(row, t) == row.status \notin Terminal

\* The WHERE clauses.

CanRun(row)        == row.status \notin Terminal
CanRetry(row, t)   == row.status = "running" /\ row.runningToken = t
CanSucceed(row, t) == row.status \notin Terminal /\ row.runningToken = t
CanFail(row, t)    == row.status \notin Terminal /\ row.runningToken = t

\* Faulty variant: a new claim forgets the attempts so far.
TransitionToRunning_ResetsAttempts(row, t) ==
    IF CanRun(row)
    THEN [row EXCEPT !.status = "running", !.runningToken = t, !.attempts = 0]
    ELSE row

\* The UPDATEs.

TransitionToRunning(row, t) ==
    IF CanRun(row)
    THEN [row EXCEPT !.status = "running", !.runningToken = t]
    ELSE row

TransitionToRetrying(row, n, t) ==
    IF CanRetry(row, t)
    THEN [row EXCEPT !.status = "retrying", !.attempts = n]
    ELSE row

TransitionToSucceeded(row, n, t) ==
    IF CanSucceed(row, t)
    THEN [row EXCEPT !.status = "succeeded", !.attempts = n, !.resultToken = t]
    ELSE row

TransitionToFailed(row, n, t) ==
    IF CanFail(row, t)
    THEN [row EXCEPT !.status = "failed", !.attempts = n]
    ELSE row
=============================================================================
