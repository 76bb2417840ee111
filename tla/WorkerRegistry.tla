--------------------------- MODULE WorkerRegistry ---------------------------
(***************************************************************************)
(* A worker process and its row of the `workers` table: the heartbeats of  *)
(* worker/worker.ts, its graceful shutdown, the pruning that retention.ts  *)
(* does, and the status that GET /api/workers infers.  A process writes    *)
(* only the row of its own id, so one is enough.                           *)
(*                                                                         *)
(* Nobody waits for a heartbeat but main() for the first, and each takes   *)
(* whichever connection of the pool is free: those in flight execute in    *)
(* any order.                                                              *)
(***************************************************************************)
EXTENDS Naturals

CONSTANTS
    Jobs,
    NoJob,
    Concurrency,  \* WORKER_CONCURRENCY
    MaxSent,      \* bound: how many heartbeats are in flight at a time
    MaxFaults     \* bound: how many faults of each kind a behaviour has

\* The process is killed, a heartbeat fails, deleteWorker fails, the worker is given
\* again a job that it has in flight (its lock expired), an API process starts.
FaultKinds == {"kill", "heartbeat", "delete", "redelivery", "restart"}

ASSUME RegistryAssumption ==
    /\ NoJob \notin Jobs
    /\ Concurrency \in Nat \ {0}
    /\ MaxSent \in Nat \ {0}
    /\ MaxFaults \in [FaultKinds -> Nat]

VARIABLES
    kind,    \* WORKER_KIND
    pc,      \* how far main() and shutdown() are
    slot,    \* the calls of processJob in flight, by BullMQ's slots
    active,  \* activeJobIds
    sent,    \* heartbeats in flight, by what they say
    row,     \* the status its row has, "none" without a row
    age,     \* of last_heartbeat_at
    faults   \* faults spent so far

process == <<kind, pc, slot, active>>
table   == <<row, age>>
vars == <<process, sent, table, faults>>

Slots == 1..Concurrency

PCs == {"starting",  \* the first heartbeat; signals are not handled yet
        "up",
        "closing",   \* worker.close()
        "leaving",   \* deleteWorker
        "ending",    \* pool.end()
        "exited", "killed"}

\* First: the idle one that main() awaits.
Heartbeats == {"first", "idle", "busy"}

\* Fresh: less than WORKER_OFFLINE_THRESHOLD_MS, old: more than STALE_WORKER_ROW_MAX_AGE_MS.
Ages == {"fresh", "stale", "old"}

Running  == {slot[s] : s \in Slots} \ {NoJob}
InFlight == sent["first"] + sent["idle"] + sent["busy"]
Over     == pc \in {"exited", "killed"}

Init == /\ kind \in {"main", "demo"}
        /\ pc = "starting"
        /\ slot = [s \in Slots |-> NoJob]
        /\ active = {}
        /\ sent = [h \in Heartbeats |-> IF h = "first" THEN 1 ELSE 0]
        /\ row = "none"
        /\ age = "fresh"
        /\ faults = [k \in FaultKinds |-> 0]

Spend(k) == /\ faults[k] < MaxFaults[k]
            /\ faults' = [faults EXCEPT ![k] = @ + 1]

\* heartbeat(), with `ids` in activeJobIds.
Heartbeat(ids) ==
    /\ InFlight < MaxSent
    /\ sent' = [sent EXCEPT ![IF ids = {} THEN "idle" ELSE "busy"] = @ + 1]

-----------------------------------------------------------------------------
\* The worker process.

\* BullMQ (external) gives a free slot a job, and processJob calls onJobStart.
Start(s, j) ==
    /\ pc \in {"starting", "up"}
    /\ slot[s] = NoJob
    /\ IF j \in Running THEN Spend("redelivery") ELSE UNCHANGED faults
    /\ slot' = [slot EXCEPT ![s] = j]
    /\ active' = active \cup {j}
    /\ Heartbeat(active')
    /\ UNCHANGED <<kind, pc, table>>

\* Faulty variant: one variable for the current job, which every end clears.
End_ClearsAll(s) ==
    /\ pc \in {"starting", "up", "closing"}
    /\ slot[s] # NoJob
    /\ slot' = [slot EXCEPT ![s] = NoJob]
    /\ active' = {}
    /\ Heartbeat(active')
    /\ UNCHANGED <<kind, pc, table, faults>>

\* processJob ends, in whichever way, with onJobEnd.
End(s) ==
    /\ pc \in {"starting", "up", "closing"}
    /\ slot[s] # NoJob
    /\ slot' = [slot EXCEPT ![s] = NoJob]
    /\ active' = active \ {slot[s]}
    /\ Heartbeat(active')
    /\ UNCHANGED <<kind, pc, table, faults>>

\* Faulty variants: heartbeats on job events only; a timer that shutdown forgets.
Tick_Never == FALSE /\ UNCHANGED vars

Tick_NotCleared ==
    /\ pc \in {"up", "closing", "leaving", "ending"}
    /\ Heartbeat(active)
    /\ UNCHANGED <<process, table, faults>>

\* WORKER_HEARTBEAT_INTERVAL_MS.
Tick ==
    /\ pc = "up"
    /\ Heartbeat(active)
    /\ UNCHANGED <<process, table, faults>>

\* SIGINT or SIGTERM: the timer is cleared, and no more jobs are taken.
Shutdown ==
    /\ pc = "up"
    /\ pc' = "closing"
    /\ UNCHANGED <<kind, slot, active, sent, table, faults>>

\* worker.close() resolves once no job is in flight.
Closed ==
    /\ pc = "closing"
    /\ Running = {}
    /\ pc' = "leaving"
    /\ UNCHANGED <<kind, slot, active, sent, table, faults>>

DeleteWorker ==
    /\ pc = "leaving"
    /\ pc' = "ending"
    /\ row' = "none"
    /\ age' = "fresh"
    /\ UNCHANGED <<kind, slot, active, sent, faults>>

\* An error of it is ignored.
DeleteWorkerThrows ==
    /\ pc = "leaving"
    /\ Spend("delete")
    /\ pc' = "ending"
    /\ UNCHANGED <<kind, slot, active, sent, table>>

\* pool.end() waits for the connections in use; then process.exit.
Exit ==
    /\ pc = "ending"
    /\ InFlight = 0
    /\ pc' = "exited"
    /\ UNCHANGED <<kind, slot, active, sent, table, faults>>

\* SIGKILL, or any signal before the handlers are installed.
Kill ==
    /\ ~Over
    /\ Spend("kill")
    /\ pc' = "killed"
    /\ slot' = [s \in Slots |-> NoJob]
    /\ active' = {}
    /\ UNCHANGED <<kind, sent, table>>

-----------------------------------------------------------------------------
\* Postgres, and the API process that prunes its table.

Awaited(h) == pc' = IF h = "first" /\ pc = "starting" THEN "up" ELSE pc

\* upsertWorkerHeartbeat executes.
Upsert(h) ==
    /\ sent[h] > 0
    /\ sent' = [sent EXCEPT ![h] = @ - 1]
    /\ row' = IF h = "busy" THEN "busy" ELSE "idle"
    /\ age' = "fresh"
    /\ Awaited(h)
    /\ UNCHANGED <<kind, slot, active, faults>>

\* It fails, which is logged; those of a dead process may never have left it.
UpsertFails(h) ==
    /\ sent[h] > 0
    /\ IF pc = "killed" THEN UNCHANGED faults ELSE Spend("heartbeat")
    /\ sent' = [sent EXCEPT ![h] = @ - 1]
    /\ Awaited(h)
    /\ UNCHANGED <<kind, slot, active, table>>

\* Time passes and no heartbeat arrives.
Age ==
    /\ row # "none"
    /\ \/ age = "fresh" /\ age' = "stale"
       \/ age = "stale" /\ age' = "old"
    /\ UNCHANGED <<process, sent, row, faults>>

\* Faulty variant: only idle workers are pruned.
Prune_Idle ==
    /\ row = "idle"
    /\ age = "old"
    /\ row' = "none"
    /\ age' = "fresh"
    /\ UNCHANGED <<process, sent, faults>>

\* The last statement of sweepOnce, deleteLongStaleWorkers.
Prune ==
    /\ row # "none"
    /\ age = "old"
    /\ row' = "none"
    /\ age' = "fresh"
    /\ UNCHANGED <<process, sent, faults>>

\* An API process starts, and with it the demo workers of its own: deleteWorkersByKind.
\* This one may still be alive, if it was of an API process that died.
Restart ==
    /\ kind = "demo"
    /\ Spend("restart")
    /\ row' = "none"
    /\ age' = "fresh"
    /\ UNCHANGED <<process, sent>>

-----------------------------------------------------------------------------
Leave == Closed \/ DeleteWorker \/ Exit

Next == \/ \E s \in Slots, j \in Jobs : Start(s, j)
        \/ \E s \in Slots : End(s)
        \/ Tick \/ Shutdown \/ Leave \/ DeleteWorkerThrows \/ Kill
        \/ \E h \in Heartbeats : Upsert(h) \/ UpsertFails(h)
        \/ Age \/ Prune \/ Restart

Spec == Init /\ [][Next]_vars

\* The timers go on firing, in the worker while it is up and in an API process, the
\* shutdown goes on, and a statement executes or fails in the end.  Nothing is assumed
\* of jobs.
Fairness == /\ WF_vars(Tick) /\ WF_vars(Leave) /\ WF_vars(Age) /\ WF_vars(Prune)
            /\ \A h \in Heartbeats : WF_vars(Upsert(h) \/ UpsertFails(h))

FairSpec == Spec /\ Fairness

-----------------------------------------------------------------------------
TypeOK ==
    /\ kind \in {"main", "demo"}
    /\ pc \in PCs
    /\ slot \in [Slots -> Jobs \cup {NoJob}]
    /\ active \subseteq Jobs
    /\ sent \in [Heartbeats -> Nat]
    /\ row \in {"none", "idle", "busy"}
    /\ age \in Ages
    /\ faults \in [FaultKinds -> Nat]

\* What GET /api/workers says of the process (workersRouter).
Shown == IF row # "none" /\ age # "fresh" THEN "offline" ELSE row

-----------------------------------------------------------------------------
\* activeJobIds is what the worker has in flight, at any concurrency, so that `busy`
\* tells the truth (worker.ts: "keeps the heartbeat honest at any concurrency"), as
\* long as it is not given a job that it still has.
BusyIsHonest == faults["redelivery"] = 0 => active = Running

\* Heartbeats that overtake each other show a wrong status for a while only: that of a
\* worker that stays busy, or stays idle, is right in the end, and it is shown again
\* and again.
StatusCatchesUp ==
    /\ <>[](pc = "up" /\ active # {}) => <>[](Shown # "idle") /\ []<>(Shown = "busy")
    /\ <>[](pc = "up" /\ active = {}) => <>[](Shown # "busy") /\ []<>(Shown = "idle")

\* A worker that has shut down is not on the board (FAILURE_SCENARIOS.md: "it
\* disappears from the worker-station board immediately"), provided that no heartbeat
\* is in flight when it deletes its row.
QuietDepartureUnlists ==
    []( pc = "leaving" /\ InFlight = 0
        => [](pc = "exited" /\ faults["delete"] = 0 => row = "none") )

\* However a worker ended and whatever it had in flight, its row goes in the end
\* (FAILURE_SCENARIOS.md: "long-dead rows don't accumulate forever").
EventuallyUnlisted == Over ~> [](row = "none")
=============================================================================
