------------------------------- MODULE JobList -------------------------------
(***************************************************************************)
(* GET /api/jobs: listJobs and its cursor (db/jobsRepo.ts, api/routes/     *)
(* jobs.ts).  A client goes through the pages of the list, each asked for  *)
(* with the cursor of the one before, while jobs are created, committed in *)
(* another order than created_at's, and change their status.               *)
(*                                                                         *)
(* created_at counts microseconds.  A cursor holds it as toISOString says  *)
(* it, in milliseconds.                                                    *)
(***************************************************************************)
EXTENDS Naturals, FiniteSets

CONSTANTS
    Jobs,      \* the ids, by their order as uuids
    MaxLimit,  \* the greatest `limit` of a request
    MaxMs,     \* bound: the milliseconds that pass
    Micros     \* bound: the moments within one

ASSUME ListAssumption ==
    /\ Jobs \subseteq Nat
    /\ IsFiniteSet(Jobs)
    /\ MaxLimit \in Nat \ {0}
    /\ MaxMs \in Nat
    /\ Micros \in Nat \ {0}

VARIABLES
    now,       \* the clock of Postgres
    created,   \* by job: created_at, NoTime before its INSERT
    visible,   \* the jobs whose transaction is committed
    matching,  \* the jobs whose status is the one the client asks for
    filter,    \* which status that is
    pc,        \* the client
    cursor,    \* that of its next request
    page,      \* the last page it was sent
    seen,      \* the jobs of the pages before
    due        \* those that could be listed all the time since its first request

database == <<now, created, visible, matching>>
client   == <<filter, pc, cursor, page, seen>>
vars == <<database, client, due>>

Times    == [ms : 0..MaxMs, us : 0..(Micros - 1)]
NoTime   == [ms |-> MaxMs + 1, us |-> 0]
NoCursor == [at |-> NoTime, id |-> 0]

\* No filter at all, the status of a new job, one that a job may have several times
\* (running, retrying), one it keeps (succeeded, failed).
Filters == {"none", "first", "passing", "last"}

Earlier(s, t) == s.ms < t.ms \/ (s.ms = t.ms /\ s.us < t.us)

\* (created_at, id), as Postgres compares rows.
Before(at, id, c) == Earlier(at, c.at) \/ (at = c.at /\ id < c.id)

Newer(j, k) == Before(created[k], k, [at |-> created[j], id |-> j])

Init == /\ now = [ms |-> 0, us |-> 0]
        /\ created = [j \in Jobs |-> NoTime]
        /\ visible = {}
        /\ filter \in Filters
        /\ matching = IF filter \in {"none", "first"} THEN Jobs ELSE {}
        /\ pc = "start"
        /\ cursor = NoCursor
        /\ page = {}
        /\ seen = {}
        /\ due = {}

-----------------------------------------------------------------------------
\* Postgres.

Tick == /\ now' \in Times
        /\ \/ now'.ms = now.ms /\ now'.us = now.us + 1
           \/ now'.ms = now.ms + 1 /\ now'.us = 0
        /\ UNCHANGED <<created, visible, matching, client, due>>

\* The INSERT of createJobWithOutbox: DEFAULT now(), the start of its transaction.
Insert(j) ==
    /\ created[j] = NoTime
    /\ created' = [created EXCEPT ![j] = now]
    /\ UNCHANGED <<now, visible, matching, client, due>>

Commit(j) ==
    /\ created[j] # NoTime
    /\ j \notin visible
    /\ visible' = visible \cup {j}
    /\ UNCHANGED <<now, created, matching, client, due>>

\* The transitions of a job, by whether it then has the status asked for.
Enter(j) ==
    /\ j \in visible \ matching
    /\ filter \in {"passing", "last"}
    /\ matching' = matching \cup {j}
    /\ UNCHANGED <<now, created, visible, client, due>>

Leave(j) ==
    /\ j \in visible \cap matching
    /\ filter \in {"first", "passing"}
    /\ matching' = matching \ {j}
    /\ due' = due \ {j}
    /\ UNCHANGED <<now, created, visible, client>>

-----------------------------------------------------------------------------
\* listJobs.

\* Faulty variant: <= instead of <.
Listable_OrEqual ==
    {j \in visible \cap matching :
        cursor = NoCursor \/ Before(created[j], j, [cursor EXCEPT !.id = @ + 1])}

\* What the query selects, but for its LIMIT.
Listable == {j \in visible \cap matching : cursor = NoCursor \/ Before(created[j], j, cursor)}

\* The first rows of S in the order of the query, `limit` of them or all there are.
IsPage(P, S, limit) ==
    /\ \A j \in P, k \in S \ P : Newer(j, k)
    /\ Cardinality(P) <= limit
    /\ Cardinality(P) < limit => P = S

\* encodeCursor(j).
CursorAt(j) == [at |-> [created[j] EXCEPT !.us = 0], id |-> j]

\* Faulty variant: the last of the limit + 1 rows that were selected.
NextCursor_OfExtra(P, S) ==
    IF P = S THEN cursor' = NoCursor
    ELSE \E j \in S \ P : /\ \A k \in S \ P : k # j => Newer(j, k)
                          /\ cursor' = CursorAt(j)

\* No cursor when there are no more rows, else that of the last row of the page.
NextCursor(P, S) ==
    IF P = S THEN cursor' = NoCursor
    ELSE \E j \in P : /\ \A k \in P : k # j => Newer(k, j)
                      /\ cursor' = CursorAt(j)

\* A request, and its answer.
List(limit) ==
    /\ pc \in {"start", "more"}
    /\ \E P \in SUBSET Listable :
          /\ IsPage(P, Listable, limit)
          /\ NextCursor(P, Listable)
          /\ page' = P
    /\ seen' = seen \cup page
    /\ pc' = IF cursor' = NoCursor THEN "done" ELSE "more"
    /\ due' = IF pc = "start" THEN visible \cap matching ELSE due
    /\ UNCHANGED <<database, filter>>

-----------------------------------------------------------------------------
Next == \/ Tick
        \/ \E j \in Jobs : Insert(j) \/ Commit(j) \/ Enter(j) \/ Leave(j)
        \/ \E limit \in 1..MaxLimit : List(limit)

Spec == Init /\ [][Next]_vars

-----------------------------------------------------------------------------
TypeOK ==
    /\ now \in Times
    /\ created \in [Jobs -> Times \cup {NoTime}]
    /\ visible \subseteq Jobs
    /\ matching \subseteq Jobs
    /\ filter \in Filters
    /\ pc \in {"start", "more", "done"}
    /\ cursor \in [at : Times \cup {NoTime}, id : Nat]
    /\ page \subseteq visible
    /\ seen \subseteq visible
    /\ due \subseteq visible \cap matching

Listed == seen \cup page

SameMs(j, k) == created[j].ms = created[k].ms

\* The inductive invariant: the cursor is below all that has been listed, and above all
\* that still has to be, but for jobs of the milliseconds that pages ended in.
RowsInv ==
    /\ \A j \in visible : created[j] \in Times
    /\ pc = "start" => page = {} /\ seen = {} /\ cursor = NoCursor
    /\ pc = "more" => cursor.at \in Times

CursorInv ==
    pc = "more" => /\ \A j \in Listed : ~Before(created[j], j, cursor)
                   /\ \A j \in due \ Listed :
                         Before(created[j], j, cursor) \/ \E k \in Listed : SameMs(j, k)

-----------------------------------------------------------------------------
\* The list goes from the newest job to the oldest, and has none of them twice, whatever
\* is created, committed or changed between its pages (jobsRepo.ts: "Cursor pagination
\* ordered by (created_at DESC, id DESC)").
NewestFirst == \A j \in seen, k \in page : Newer(j, k)

\* At the end of the list every job that could be listed all the time has been, unless
\* another job of its millisecond was.
NothingSkipped ==
    pc = "done" => \A j \in due \ Listed : \E k \in Listed : SameMs(j, k)

IInv == TypeOK /\ RowsInv /\ CursorInv /\ NewestFirst /\ NothingSkipped
=============================================================================
