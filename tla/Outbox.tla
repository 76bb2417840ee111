------------------------------- MODULE Outbox -------------------------------
(***************************************************************************)
(* The outbox dispatcher (outbox/dispatcher.ts): concurrent calls of       *)
(* publishOnce, the one each submission starts and those of the sweeper,   *)
(* in one API process that may die and restart.  Each await is a step.     *)
(*                                                                         *)
(* An event is named by its id, which orders the batches; the submission   *)
(* that wrote it gives its immediate call the same name.                   *)
(***************************************************************************)
EXTENDS Naturals, FiniteSets

CONSTANTS
    Events,     \* ids of outbox rows
    Sweeps,     \* names of the sweeper's calls: a new one is used while Postgres
                \* still holds the transaction of one that died
    BatchSize,  \* OUTBOX_BATCH_SIZE
    MaxFaults   \* bound: how many faults of each kind a behaviour has

\* queue.add throws, a statement throws, a COMMIT throws, the process dies, the queue
\* forgets a finished job.
FaultKinds == {"add", "statement", "commit", "crash", "trim"}

ASSUME OutboxAssumption ==
    /\ Events \subseteq Nat
    /\ Events \cap Sweeps = {}
    /\ BatchSize \in Nat \ {0}
    /\ MaxFaults \in [FaultKinds -> Nat]

VARIABLES
    rows,      \* by event: its committed row, "none" before the submission commits
    tries,     \* by event: publish_attempts
    queued,    \* the events with a job in BullMQ, finished or not
    created,   \* by event: how many times queue.add made a new job of it
    pc,        \* by call of publishOnce: its next step
    tx,        \* by call: its transaction, as the server holds it
    claimed,   \* by call: the rows its transaction has locked
    marked,    \* by call: those it has set published, uncommitted
    missed,    \* by call: those whose publish_attempts it has raised, uncommitted
    faults     \* faults spent so far

tables  == <<rows, tries>>
queue   == <<queued, created>>
session == <<tx, claimed, marked, missed>>
vars == <<tables, queue, pc, session, faults>>

Calls == Events \cup Sweeps

PCs == {"idle",
        "claiming",    \* connect, BEGIN, SELECT ... FOR UPDATE SKIP LOCKED
        "adding",      \* queue.add of the next row
        "marking",     \* markOutboxPublished
        "recording",   \* markOutboxPublishAttempt
        "committing"}

\* Doomed: the connection is lost.  Uncertain: with a COMMIT on its way.
TxStates == {"none", "open", "doomed", "uncertain"}

Init == /\ rows = [e \in Events |-> "none"]
        /\ tries = [e \in Events |-> 0]
        /\ queued = {}
        /\ created = [e \in Events |-> 0]
        /\ pc = [c \in Calls |-> "idle"]
        /\ tx = [c \in Calls |-> "none"]
        /\ claimed = [c \in Calls |-> {}]
        /\ marked = [c \in Calls |-> {}]
        /\ missed = [c \in Calls |-> {}]
        /\ faults = [k \in FaultKinds |-> 0]

Spend(k) == /\ faults[k] < MaxFaults[k]
            /\ faults' = [faults EXCEPT ![k] = @ + 1]

Goto(c, s) == pc' = [pc EXCEPT ![c] = s]

\* The rows a call has yet to publish, and the one it is at.
Todo(c)    == claimed[c] \ (marked[c] \cup missed[c])
Current(c) == CHOOSE e \in Todo(c) : \A o \in Todo(c) : e <= o

\* The step that follows once event e is dealt with.
After(c, e) == IF Todo(c) = {e} THEN "committing" ELSE "adding"

\* What the server keeps of a transaction that has ended.
Release(c) == /\ tx' = [tx EXCEPT ![c] = "none"]
              /\ claimed' = [claimed EXCEPT ![c] = {}]
              /\ marked' = [marked EXCEPT ![c] = {}]
              /\ missed' = [missed EXCEPT ![c] = {}]

\* Faulty variant: a row whose publication failed is put aside.
Apply_SetsAside(c) ==
    /\ rows' = [e \in Events |-> CASE e \in marked[c] -> "published"
                                  [] e \in missed[c] -> "failed"
                                  [] OTHER           -> rows[e]]
    /\ tries' = tries
    /\ Release(c)

\* COMMIT executes.
Apply(c) == /\ rows' = [e \in Events |-> IF e \in marked[c] THEN "published" ELSE rows[e]]
            /\ tries' = [e \in Events |-> tries[e] + IF e \in missed[c] THEN 1 ELSE 0]
            /\ Release(c)

-----------------------------------------------------------------------------
\* Who calls publishOnce.

\* A submission commits and starts its immediate call.  Ids are drawn before the
\* COMMIT, so rows need not appear in the order of their ids.
Submit(e) ==
    /\ rows[e] = "none"
    /\ rows' = [rows EXCEPT ![e] = "unpublished"]
    /\ Goto(e, "claiming")
    /\ UNCHANGED <<tries, queue, session, faults>>

\* The sweeper's timer fires: nothing while its last call is `running`.
Tick(s) ==
    /\ \A q \in Sweeps : pc[q] = "idle"
    /\ tx[s] = "none"
    /\ Goto(s, "claiming")
    /\ UNCHANGED <<tables, queue, session, faults>>

-----------------------------------------------------------------------------
\* publishOnce.

\* The batch is the first BatchSize rows that are unpublished and not locked.
IsBatch(B, avail) ==
    /\ B \subseteq avail
    /\ \A e \in B, o \in avail \ B : e < o
    /\ Cardinality(B) <= BatchSize
    /\ Cardinality(B) < BatchSize => B = avail

Locked == UNION {claimed[c] : c \in Calls}

ClaimFrom(c, avail) ==
    /\ pc[c] = "claiming"
    /\ \E B \in SUBSET Events :
          /\ IsBatch(B, avail)
          /\ claimed' = [claimed EXCEPT ![c] = B]
          /\ Goto(c, IF B = {} THEN "committing" ELSE "adding")
    /\ tx' = [tx EXCEPT ![c] = "open"]
    /\ UNCHANGED <<tables, queue, marked, missed, faults>>

\* Faulty variants: rows that other calls have locked are not skipped; rows that are
\* published are not left out.
Claim_LockedToo(c) == ClaimFrom(c, {e \in Events : rows[e] = "unpublished"})

Claim_PublishedToo(c) == ClaimFrom(c, {e \in Events \ Locked : rows[e] # "none"})

Claim(c) == ClaimFrom(c, {e \in Events \ Locked : rows[e] = "unpublished"})

\* queue.add: BullMQ (external) ignores an id it has already.
Enqueue(e) ==
    /\ queued' = queued \cup {e}
    /\ created' = [created EXCEPT ![e] = IF e \in queued THEN @ ELSE @ + 1]

Add(c) ==
    /\ pc[c] = "adding"
    /\ Enqueue(Current(c))
    /\ Goto(c, "marking")
    /\ UNCHANGED <<tables, session, faults>>

\* Faulty variant: the row is left unpublished, as if it had been missed.
Mark_Missed(c) ==
    /\ pc[c] = "marking"
    /\ missed' = [missed EXCEPT ![c] = @ \cup {Current(c)}]
    /\ Goto(c, After(c, Current(c)))
    /\ UNCHANGED <<tables, queue, tx, claimed, marked, faults>>

Mark(c) ==
    /\ pc[c] = "marking"
    /\ marked' = [marked EXCEPT ![c] = @ \cup {Current(c)}]
    /\ Goto(c, After(c, Current(c)))
    /\ UNCHANGED <<tables, queue, tx, claimed, missed, faults>>

Record(c) ==
    /\ pc[c] = "recording"
    /\ missed' = [missed EXCEPT ![c] = @ \cup {Current(c)}]
    /\ Goto(c, After(c, Current(c)))
    /\ UNCHANGED <<tables, queue, tx, claimed, marked, faults>>

Commit(c) ==
    /\ pc[c] = "committing"
    /\ Apply(c)
    /\ Goto(c, "idle")
    /\ UNCHANGED <<queue, faults>>

-----------------------------------------------------------------------------
\* Errors.

\* queue.add throws, Redis having executed it or not.
AddThrows(c) ==
    /\ pc[c] = "adding"
    /\ Spend("add")
    /\ UNCHANGED queue \/ Enqueue(Current(c))
    /\ Goto(c, "recording")
    /\ UNCHANGED <<tables, session>>

\* Faulty variant: the transaction is left open.
StatementThrows_NoRollback(c) ==
    /\ pc[c] \in {"claiming", "marking", "recording"}
    /\ Spend("statement")
    /\ Goto(c, "idle")
    /\ UNCHANGED <<tables, queue, session>>

\* A statement throws, which aborts the transaction: markOutboxPublished's catch
\* then throws too, so the whole batch is rolled back, or dropped by the server in
\* its time.
StatementThrows(c) ==
    /\ pc[c] \in {"claiming", "marking", "recording"}
    /\ Spend("statement")
    /\ \/ Release(c)
       \/ /\ tx[c] = "open"
          /\ tx' = [tx EXCEPT ![c] = "doomed"]
          /\ UNCHANGED <<claimed, marked, missed>>
    /\ Goto(c, "idle")
    /\ UNCHANGED <<tables, queue>>

CommitThrows(c) ==
    /\ pc[c] = "committing"
    /\ Spend("commit")
    /\ tx' = [tx EXCEPT ![c] = "uncertain"]
    /\ Goto(c, "idle")
    /\ UNCHANGED <<tables, queue, claimed, marked, missed>>

\* The server executes the COMMIT after all ...
Land(c) ==
    /\ tx[c] = "uncertain"
    /\ Apply(c)
    /\ UNCHANGED <<queue, pc, faults>>

\* ... or finds the connection closed and rolls back.
Abort(c) ==
    /\ tx[c] \in {"doomed", "uncertain"}
    /\ Release(c)
    /\ UNCHANGED <<tables, queue, pc, faults>>

\* The API process dies; its sweeper starts again with the next one.
Crash ==
    /\ \E c \in Calls : pc[c] # "idle"
    /\ Spend("crash")
    /\ tx' = [c \in Calls |->
                 CASE pc[c] \in {"adding", "marking", "recording"} -> "doomed"
                   [] pc[c] = "committing"                         -> "uncertain"
                   [] OTHER                                        -> tx[c]]
    /\ pc' = [c \in Calls |-> "idle"]
    /\ UNCHANGED <<tables, queue, claimed, marked, missed>>

\* BullMQ (external) forgets a finished job, by removeOnComplete or removeOnFail.
Trim(e) ==
    /\ e \in queued
    /\ Spend("trim")
    /\ queued' = queued \ {e}
    /\ UNCHANGED <<tables, created, pc, session>>

-----------------------------------------------------------------------------
Publish(c) == Claim(c) \/ Add(c) \/ Mark(c) \/ Record(c) \/ Commit(c)

Throws(c) == AddThrows(c) \/ StatementThrows(c) \/ CommitThrows(c)

Server(c) == Land(c) \/ Abort(c)

Next == \/ \E e \in Events : Submit(e) \/ Trim(e)
        \/ \E s \in Sweeps : Tick(s)
        \/ \E c \in Calls : Publish(c) \/ Throws(c) \/ Server(c)
        \/ Crash

Spec == Init /\ [][Next]_vars

\* The timer goes on firing, a call goes on while its process lives, and Postgres
\* ends the transaction of a dead connection.
Fairness == /\ WF_vars(\E s \in Sweeps : Tick(s))
            /\ \A c \in Calls : WF_vars(Publish(c)) /\ WF_vars(Server(c))

FairSpec == Spec /\ Fairness

-----------------------------------------------------------------------------
TypeOK ==
    /\ rows \in [Events -> {"none", "unpublished", "published"}]
    /\ tries \in [Events -> Nat]
    /\ queued \subseteq Events
    /\ created \in [Events -> Nat]
    /\ pc \in [Calls -> PCs]
    /\ tx \in [Calls -> TxStates]
    /\ claimed \in [Calls -> SUBSET Events]
    /\ marked \in [Calls -> SUBSET Events]
    /\ missed \in [Calls -> SUBSET Events]
    /\ faults \in [FaultKinds -> Nat]

-----------------------------------------------------------------------------
\* The inductive invariant.

\* Where a call stands tells what it holds at the server.
SessionInv ==
    /\ \A e \in Events : rows[e] = "none" => pc[e] = "idle" /\ tx[e] = "none"
    /\ \A c \in Calls :
        /\ pc[c] = "claiming" => tx[c] = "none"
        /\ pc[c] \in {"adding", "marking", "recording", "committing"} <=> tx[c] = "open"
        /\ tx[c] = "none" => claimed[c] = {}
        /\ marked[c] \cup missed[c] \subseteq claimed[c]
        /\ pc[c] \in {"adding", "marking", "recording"} => Todo(c) # {}

\* A row is locked by one transaction, and stays unpublished until it ends.
ClaimInv ==
    \A c \in Calls : \A e \in claimed[c] :
        /\ rows[e] = "unpublished"
        /\ \A d \in Calls \ {c} : e \notin claimed[d]

\* What a call is about to mark, or has marked, is or was in the queue.
AddedInv ==
    /\ \A c \in Calls : /\ \A e \in marked[c] : created[e] > 0
                        /\ pc[c] = "marking" => created[Current(c)] > 0
    /\ \A e \in queued : created[e] > 0
    /\ \A e \in Events : rows[e] = "published" => created[e] > 0

IInv == TypeOK /\ SessionInv /\ ClaimInv /\ AddedInv

-----------------------------------------------------------------------------
\* No two calls publish the same row at the same time, immediate or swept, in one
\* process or after a restart (jobsRepo.ts: "never double-claim a row").
NoDoubleClaim == \A c, d \in Calls : c # d => claimed[c] \cap claimed[d] = {}

\* A job is made anew in the queue only if the transaction that published it did not
\* last or the add threw: each duplicate costs a fault (dispatcher.ts, "Duplicate
\* publication").
DuplicatesCostFaults ==
    \A e \in Events :
        created[e] <= 1 + faults["add"] + faults["statement"] + faults["commit"] + faults["crash"]

\* Every committed event is published, however the immediate call and any number of
\* sweeps failed.
EventuallyPublished ==
    \A e \in Events : rows[e] = "unpublished" ~> rows[e] = "published"

\* Whatever failed on the way, an event counts as published only if its job has been
\* in the queue, and is not queued again afterwards: nothing durably recorded is lost.
R == INSTANCE Relay

RelaySpec == R!Spec
=============================================================================
