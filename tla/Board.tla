-------------------------------- MODULE Board --------------------------------
(***************************************************************************)
(* The page of public/app.js: the upload form, the dispatch board and the  *)
(* ticket detail, which poll the API.  The page sends requests from timers *)
(* and from clicks and does not wait for the ones before: their answers    *)
(* arrive in any order.  A request is in flight here from the moment the   *)
(* API executes it.                                                        *)
(*                                                                         *)
(* What the page shows of a job is known by how many times its rows have   *)
(* changed.                                                                *)
(***************************************************************************)
EXTENDS Naturals, FiniteSets

CONSTANTS
    Jobs,
    NoJob,
    MaxDetails,  \* bound: how many requests for a detail are in flight
    MaxFaults    \* bound: how many faults of each kind a behaviour has

\* A list is asked for while another is in flight, a request fails, a click on a ticket.
FaultKinds == {"overlap", "fail", "click"}

ASSUME BoardAssumption ==
    /\ NoJob \notin Jobs
    /\ MaxDetails \in Nat \ {0}
    /\ MaxFaults \in [FaultKinds -> Nat]

VARIABLES
    rows,      \* Postgres: by job, how far it is
    board,     \* state.jobs: the same, as the page shows it
    selected,  \* state.selectedId
    detail,    \* the ticket detail: a job and how far it was, or nothing yet
    lists,     \* the answers to GET /api/jobs in flight
    details,   \* those to GET /api/jobs/:id
    posts,     \* the jobs whose POST has executed and is not answered
    faults     \* faults spent so far

views    == <<board, selected, detail>>
requests == <<lists, details>>
vars == <<rows, views, requests, posts, faults>>

\* How far a job is; bound: it runs once.
Versions == 0..3
Absent   == 0
Queued   == 1
Running  == 2
Finished == 3

Details == [job : Jobs, version : Versions]
Nothing == [job |-> NoJob, version |-> Absent]

Init == /\ rows = [j \in Jobs |-> Absent]
        /\ board = rows
        /\ selected = NoJob
        /\ detail = Nothing
        /\ lists = {}
        /\ details = {}
        /\ posts = {}
        /\ faults = [k \in FaultKinds |-> 0]

Spend(k) == /\ faults[k] < MaxFaults[k]
            /\ faults' = [faults EXCEPT ![k] = @ + 1]

-----------------------------------------------------------------------------
\* Requests and views.

\* refreshJobs, up to its answer.
RefreshJobs ==
    /\ IF lists = {} THEN UNCHANGED faults ELSE Spend("overlap")
    /\ lists' = lists \cup {rows}

\* renderDetail, up to its answers.  (It asks for the attempts of the job as well.)
RenderDetail(j) ==
    /\ Cardinality(details) < MaxDetails
    /\ details' = details \cup {[job |-> j, version |-> rows[j]]}

SelectJob(j) ==
    /\ selected' = j
    /\ RenderDetail(j)

\* setInterval(tick, POLL_MS).
Tick ==
    /\ RefreshJobs
    /\ UNCHANGED <<rows, views, details, posts>>

\* Faulty variant: the detail is only loaded by a click.
ListAnswered_BoardOnly(list) ==
    /\ lists' = lists \ {list}
    /\ board' = list
    /\ UNCHANGED <<rows, selected, detail, details, posts, faults>>

\* The rest of refreshJobs.
ListAnswered(list) ==
    /\ lists' = lists \ {list}
    /\ board' = list
    /\ IF selected = NoJob THEN UNCHANGED details ELSE RenderDetail(selected)
    /\ UNCHANGED <<rows, selected, detail, posts, faults>>

\* The rest of renderDetail.  It does not ask which job is selected by now.
DetailAnswered(d) ==
    /\ details' = details \ {d}
    /\ detail' = d
    /\ UNCHANGED <<rows, board, selected, lists, posts, faults>>

\* A poll that fails changes nothing on the page.
RequestFails ==
    /\ Spend("fail")
    /\ \/ \E list \in lists : lists' = lists \ {list} /\ UNCHANGED details
       \/ \E d \in details : details' = details \ {d} /\ UNCHANGED lists
    /\ UNCHANGED <<rows, views, posts>>

Click(j) ==
    /\ board[j] # Absent
    /\ Spend("click")
    /\ SelectJob(j)
    /\ UNCHANGED <<rows, board, detail, lists, posts>>

-----------------------------------------------------------------------------
\* The upload form.  Its button is disabled while it waits, but enabled again by the choice
\* of another file, so that more than one POST may be in flight.

Submit(j) ==
    /\ rows[j] = Absent
    /\ rows' = [rows EXCEPT ![j] = Queued]
    /\ posts' = posts \cup {j}
    /\ UNCHANGED <<views, requests, faults>>

\* Faulty variant: the job of the answer is put on the board at once.
Submitted_Inserts(j) ==
    /\ board' = [board EXCEPT ![j] = Queued]
    /\ SelectJob(j)
    /\ RefreshJobs
    /\ posts' = posts \ {j}
    /\ UNCHANGED <<rows, detail>>

Submitted(j) ==
    /\ SelectJob(j)
    /\ RefreshJobs
    /\ posts' = posts \ {j}
    /\ UNCHANGED <<rows, board, detail>>

\* The form shows an error; the job may exist.
SubmitFails(j) ==
    /\ Spend("fail")
    /\ posts' = posts \ {j}
    /\ UNCHANGED <<rows, views, requests>>

-----------------------------------------------------------------------------
\* The workers, who may also leave a job as it is.
Work(j) ==
    /\ rows[j] \in {Queued, Running}
    /\ rows' = [rows EXCEPT ![j] = @ + 1]
    /\ UNCHANGED <<views, requests, posts, faults>>

Next == \/ Tick \/ RequestFails
        \/ \E list \in lists : ListAnswered(list)
        \/ \E d \in details : DetailAnswered(d)
        \/ \E j \in posts : Submitted(j) \/ SubmitFails(j)
        \/ \E j \in Jobs : Click(j) \/ Submit(j) \/ Work(j)

Spec == Init /\ [][Next]_vars

\* The timer goes on firing, and every request is answered or fails.
\* Nothing is assumed of workers.
Fairness == /\ WF_vars(Tick)
            /\ WF_vars(\E j \in posts : Submitted(j))
            /\ WF_vars(\E list \in lists : ListAnswered(list))
            /\ WF_vars(\E d \in details : DetailAnswered(d))

FairSpec == Spec /\ Fairness

-----------------------------------------------------------------------------
TypeOK ==
    /\ rows \in [Jobs -> Versions]
    /\ board \in [Jobs -> Versions]
    /\ selected \in Jobs \cup {NoJob}
    /\ detail \in Details \cup {Nothing}
    /\ lists \subseteq [Jobs -> Versions]
    /\ details \subseteq Details
    /\ posts \subseteq Jobs
    /\ faults \in [FaultKinds -> Nat]

\* The board is behind what is in flight, and that behind Postgres, as long as one list
\* is asked for at a time.
ListInv ==
    faults["overlap"] = 0 =>
        /\ \A j \in Jobs : board[j] <= rows[j]
        /\ \A list \in lists, j \in Jobs : board[j] <= list[j] /\ list[j] <= rows[j]
        /\ \A l1, l2 \in lists : l1 = l2

-----------------------------------------------------------------------------
\* No ticket goes back on the board, whatever the form and the timer do meanwhile, as
\* long as no poll overtakes another.
BoardNeverGoesBack ==
    [][faults["overlap"] = 0 => \A j \in Jobs : board'[j] >= board[j]]_vars

\* When jobs, visitors and failures have come to rest, the page shows the truth and the
\* ticket that is selected, in whatever order the answers arrived (app.js: "Every status
\* shown here comes from a real backend response").
ViewsConverge ==
    <>[](/\ board = rows
         /\ selected # NoJob => detail = [job |-> selected, version |-> rows[selected]])
=============================================================================
