------------------------------- MODULE Ticket -------------------------------
(***************************************************************************)
(* What JobRelay promises a visitor about one ticket, whatever happens to  *)
(* workers, the queue and the connections in between: the status moves     *)
(* along queued -> running -> (retrying -> running)* -> succeeded | failed,*)
(* a terminal status is final, and the thumbnails of a succeeded ticket    *)
(* are complete and downloadable from the moment it succeeds.              *)
(***************************************************************************)
EXTENDS Naturals

CONSTANT MaxAttempts

VARIABLES
    status,     \* what GET /api/jobs/:id shows
    attempts,   \* the number of the attempt that last changed the outcome
    served      \* TRUE iff every thumbnail of the result can be downloaded

ticketVars == <<status, attempts, served>>

Init == /\ status = "queued"
        /\ attempts = 0
        /\ served = FALSE

\* A worker takes the ticket.
Run == /\ status \in {"queued", "retrying"}
       /\ status' = "running"
       /\ UNCHANGED <<attempts, served>>

\* A running attempt failed and another will follow.
Retry == /\ status = "running"
         /\ status' = "retrying"
         /\ attempts' \in 1 .. MaxAttempts
         /\ UNCHANGED served

\* A running attempt published its result.
Succeed == /\ status = "running"
           /\ status' = "succeeded"
           /\ attempts' \in 1 .. MaxAttempts
           /\ served' = TRUE

\* The input was invalid or the retries were exhausted.
Fail == /\ status = "running"
        /\ status' = "failed"
        /\ attempts' \in 1 .. MaxAttempts
        /\ UNCHANGED served

Next == Run \/ Retry \/ Succeed \/ Fail

Spec == Init /\ [][Next]_ticketVars
=============================================================================
