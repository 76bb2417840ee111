------------------------------ MODULE DemoPool ------------------------------
(***************************************************************************)
(* The demo worker processes and the API process that spawns, stops and    *)
(* respawns them: api/demoWorkerManager.ts, the start and the shutdown of  *)
(* api/server.ts, and POST /api/demo/workers/:id/stop.  What such a worker *)
(* does while it lives is the matter of WorkerRegistry and Processing.     *)
(***************************************************************************)
EXTENDS Naturals, FiniteSets

CONSTANTS
    Ids,       \* the names of demo workers; one that is free again is as good as a new one
    Count,     \* DEMO_WORKER_COUNT
    MaxFaults  \* bound: how many faults of each kind a behaviour has

\* A visitor stops a worker, a worker dies of itself, the API process dies, a timer to
\* respawn fires while the API shuts down.
FaultKinds == {"stop", "die", "crash", "late"}

ASSUME PoolAssumption ==
    /\ IsFiniteSet(Ids)
    /\ Count \in Nat
    /\ MaxFaults \in [FaultKinds -> Nat]

VARIABLES
    api,      \* the API process
    workers,  \* the map of DemoWorkerManager, by its keys
    timers,   \* how many timers to respawn are set
    child,    \* by id: the process
    faults    \* faults spent so far

manager == <<workers, timers>>
vars == <<api, manager, child, faults>>

\* Closing: shutdown() is waiting for the server, the queues and the pool to close;
\* `stopping` is set all that time.
ApiStates == {"down", "up", "closing"}

\* Killed: it has been sent a SIGKILL; dead: its exit event is still to be handled.
ChildStates == {"none", "alive", "killed", "dead"}

Stopping == api = "closing"
Running  == api \in {"up", "closing"}
Free     == {id \in Ids : child[id] = "none"}

Init == /\ api = "down"
        /\ workers = {}
        /\ timers = 0
        /\ child = [id \in Ids |-> "none"]
        /\ faults = [k \in FaultKinds |-> 0]

Spend(k) == /\ faults[k] < MaxFaults[k]
            /\ faults' = [faults EXCEPT ![k] = @ + 1]

\* spawnOne, for each of S.
Spawn(S) ==
    /\ workers' = workers \cup S
    /\ child' = [id \in Ids |-> IF id \in S THEN "alive" ELSE child[id]]

Sigkill(S) ==
    child' = [id \in Ids |-> IF id \in S /\ child[id] = "alive" THEN "killed" ELSE child[id]]

\* The end of the API process: nobody waits for its children any more.
Abandon ==
    /\ api' = "down"
    /\ workers' = {}
    /\ timers' = 0
    /\ child' = [id \in Ids |-> IF child[id] = "dead" THEN "none" ELSE child[id]]

-----------------------------------------------------------------------------
\* main() of server.ts, up to the call of start() and the port.
Start ==
    /\ api = "down"
    /\ \E S \in SUBSET Free : Cardinality(S) = Count /\ Spawn(S)
    /\ api' = "up"
    /\ UNCHANGED <<timers, faults>>

\* Faulty variant: the worker is forgotten when it is killed.
Stop_Forgets(id) ==
    /\ Running
    /\ id \in workers
    /\ Spend("stop")
    /\ Sigkill({id})
    /\ workers' = workers \ {id}
    /\ UNCHANGED <<api, timers>>

\* stop(id); one whose id is not in the map is answered 404.
Stop(id) ==
    /\ Running
    /\ id \in workers
    /\ Spend("stop")
    /\ Sigkill({id})
    /\ UNCHANGED <<api, manager>>

\* The exit event of a child; `n` timers are set.
ExitedSetting(id, n) ==
    /\ Running
    /\ id \in workers
    /\ child[id] = "dead"
    /\ workers' = workers \ {id}
    /\ timers' = timers + n
    /\ child' = [child EXCEPT ![id] = "none"]
    /\ UNCHANGED <<api, faults>>

\* Faulty variant: no replacement.
Exited_NoRespawn(id) == ExitedSetting(id, 0)

Exited(id) == ExitedSetting(id, IF Stopping THEN 0 ELSE 1)

\* A timer to respawn fires.  It does not ask whether the manager is stopping.
Respawn(id) ==
    /\ Running
    /\ timers > 0
    /\ id \in Free
    /\ IF Stopping THEN Spend("late") ELSE UNCHANGED faults
    /\ timers' = timers - 1
    /\ Spawn({id})
    /\ UNCHANGED api

\* Faulty variant: stopAll() is not called.
Shutdown_KillsNothing ==
    /\ api = "up"
    /\ api' = "closing"
    /\ UNCHANGED <<manager, child, faults>>

\* SIGINT or SIGTERM: stopAll().
Shutdown ==
    /\ api = "up"
    /\ api' = "closing"
    /\ Sigkill(workers)
    /\ UNCHANGED <<manager, faults>>

\* process.exit, once everything is closed.
Exit ==
    /\ api = "closing"
    /\ Abandon
    /\ UNCHANGED faults

\* The API process dies: it is killed, or a spawn fails, which emits an `error` event
\* that has no listener.
Crash ==
    /\ Running
    /\ Spend("crash")
    /\ Abandon

\* A child ends: by a SIGKILL, or of itself.
Die(id) ==
    /\ child[id] \in {"alive", "killed"}
    /\ IF child[id] = "alive" THEN Spend("die") ELSE UNCHANGED faults
    /\ child' = [child EXCEPT ![id] = IF id \in workers THEN "dead" ELSE "none"]
    /\ UNCHANGED <<api, manager>>

-----------------------------------------------------------------------------
Next == \/ Start \/ Shutdown \/ Exit \/ Crash
        \/ \E id \in Ids : Stop(id) \/ Exited(id) \/ Respawn(id) \/ Die(id)

Spec == Init /\ [][Next]_vars

\* A SIGKILL works, events are handled and timers fire.  Nothing is assumed of the API's
\* start or end.
Fairness == /\ \A id \in Ids : WF_vars(child[id] = "killed" /\ Die(id)) /\ WF_vars(Exited(id))
            /\ WF_vars(\E id \in Ids : Respawn(id))

FairSpec == Spec /\ Fairness

-----------------------------------------------------------------------------
TypeOK ==
    /\ api \in ApiStates
    /\ workers \subseteq Ids
    /\ timers \in Nat
    /\ child \in [Ids -> ChildStates]
    /\ faults \in [FaultKinds -> Nat]

\* What the map has, and what it has not.
MapInv ==
    /\ \A id \in workers : child[id] # "none"
    /\ \A id \in Ids : child[id] = "dead" => id \in workers
    /\ ~Running => workers = {} /\ timers = 0

-----------------------------------------------------------------------------
\* While the API is up no place of the pool is lost or filled twice, whoever dies and
\* in whatever order the exits are handled (demoWorkerManager.ts: "Keep the demo pool
\* at full strength").
PoolAtStrength == api = "up" => Cardinality(workers) + timers = Count

\* No demo worker outlives the API (demoWorkerManager.ts: "so demo workers don't
\* outlive it as orphans"), as long as it is shut down and not killed, and no timer to
\* respawn fires meanwhile.
NoOrphans ==
    api # "up" /\ faults["crash"] = 0 /\ faults["late"] = 0
    => \A id \in Ids : child[id] # "alive"

\* When visitors leave the pool alone, every place of it has a live worker again.
EventuallyFull ==
    <>[](api = "up") => <>[](Cardinality({id \in workers : child[id] = "alive"}) = Count)
=============================================================================
