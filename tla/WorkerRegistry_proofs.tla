------------------------ MODULE WorkerRegistry_proofs ------------------------
(***************************************************************************)
(* Proofs about WorkerRegistry, for any jobs, any concurrency, any number  *)
(* of heartbeats in flight and any number of faults.                       *)
(***************************************************************************)
EXTENDS WorkerRegistry, TLAPS

LEMMA SpendingIsCounted ==
    ASSUME faults \in [FaultKinds -> Nat], NEW k \in FaultKinds, Spend(k)
    PROVE  /\ faults' \in [FaultKinds -> Nat]
           /\ \A l \in FaultKinds : faults[l] <= faults'[l]
           /\ faults'[k] > 0
BY DEF Spend

LEMMA HeartbeatIsCounted ==
    ASSUME sent \in [Heartbeats -> Nat], NEW ids, Heartbeat(ids)
    PROVE  sent' \in [Heartbeats -> Nat]
BY DEF Heartbeat, Heartbeats

LEMMA AnswerIsCounted ==
    ASSUME sent \in [Heartbeats -> Nat], NEW h \in Heartbeats, sent[h] > 0,
           sent' = [sent EXCEPT ![h] = @ - 1]
    PROVE  sent' \in [Heartbeats -> Nat]
<1>1. sent[h] - 1 \in Nat
  OBVIOUS
<1> QED BY <1>1

\* Type correctness is preserved by every step.
LEMMA TypeStep == TypeOK /\ [Next]_vars => TypeOK'
<1> SUFFICES ASSUME TypeOK, [Next]_vars PROVE TypeOK'
  OBVIOUS
<1> USE DEF TypeOK, process, table
<1> {"kill", "heartbeat", "delete", "redelivery", "restart"} = FaultKinds
  BY DEF FaultKinds
<1> {"fresh", "stale", "old"} = Ages
  BY DEF Ages
<1> {"starting", "up", "closing", "leaving", "ending", "exited", "killed"} = PCs
  BY DEF PCs
<1>1. ASSUME NEW s \in Slots, NEW j \in Jobs, Start(s, j) PROVE TypeOK'
  BY <1>1, SpendingIsCounted, HeartbeatIsCounted DEF Start
<1>2. ASSUME NEW s \in Slots, End(s) PROVE TypeOK'
  BY <1>2, HeartbeatIsCounted DEF End
<1>3. CASE Tick
  BY <1>3, HeartbeatIsCounted DEF Tick
<1>4. CASE Shutdown \/ Leave
  BY <1>4 DEF Shutdown, Leave, Closed, DeleteWorker, Exit
<1>5. CASE DeleteWorkerThrows
  BY <1>5, SpendingIsCounted DEF DeleteWorkerThrows
<1>6. CASE Kill
  BY <1>6, SpendingIsCounted DEF Kill
<1>7. ASSUME NEW h \in Heartbeats, Upsert(h) PROVE TypeOK'
  BY <1>7, AnswerIsCounted DEF Upsert, Awaited
<1>8. ASSUME NEW h \in Heartbeats, UpsertFails(h) PROVE TypeOK'
  BY <1>8, AnswerIsCounted, SpendingIsCounted DEF UpsertFails, Awaited
<1>9. CASE Age \/ Prune
  BY <1>9 DEF Age, Prune
<1>10. CASE Restart
  BY <1>10, SpendingIsCounted DEF Restart
<1>11. CASE UNCHANGED vars
  BY <1>11 DEF vars
<1> QED BY <1>1, <1>2, <1>3, <1>4, <1>5, <1>6, <1>7, <1>8, <1>9, <1>10, <1>11 DEF Next

LEMMA TypeHolds == Spec => []TypeOK
<1>1. Init => TypeOK
  BY RegistryAssumption DEF Init, TypeOK, PCs, Ages
<1> QED BY <1>1, TypeStep, PTL DEF Spec

\* The strengthening of BusyIsHonest: no job is in flight twice, so that the end of one
\* call takes away no other's.
ActiveInv ==
    faults["redelivery"] = 0 =>
        /\ active = Running
        /\ \A s, t \in Slots : slot[s] = slot[t] /\ slot[s] # NoJob => s = t

LEMMA ActiveStep ==
    ASSUME TypeOK, ActiveInv, [Next]_vars
    PROVE  ActiveInv'
<1> USE DEF TypeOK, ActiveInv, Running, process, table
<1> {"kill", "heartbeat", "delete", "redelivery", "restart"} = FaultKinds
  BY DEF FaultKinds
<1>1. ASSUME NEW s \in Slots, NEW j \in Jobs, Start(s, j) PROVE ActiveInv'
  <2>1. CASE j \in Running
    BY <1>1, <2>1, SpendingIsCounted DEF Start
  <2>2. CASE j \notin Running
    <3>1. slot'[s] = j /\ \A t \in Slots \ {s} : slot'[t] = slot[t]
      BY <1>1 DEF Start
    <3>2. slot[s] = NoJob /\ active' = active \cup {j} /\ faults' = faults
      BY <1>1, <2>2 DEF Start
    <3>3. ASSUME faults["redelivery"] = 0 PROVE active' = Running'
      BY <3>1, <3>2, <3>3, RegistryAssumption
    <3>4. \A t \in Slots : slot[t] # j
      BY <2>2, RegistryAssumption
    <3> QED BY <3>1, <3>2, <3>3, <3>4
  <2> QED BY <2>1, <2>2
<1>2. ASSUME NEW s \in Slots, End(s) PROVE ActiveInv'
  <2>1. slot'[s] = NoJob /\ \A t \in Slots \ {s} : slot'[t] = slot[t]
    BY <1>2 DEF End
  <2>2. slot[s] # NoJob /\ active' = active \ {slot[s]} /\ faults' = faults
    BY <1>2 DEF End
  <2>3. ASSUME faults["redelivery"] = 0 PROVE active' = Running'
    BY <2>1, <2>2, <2>3
  <2> QED BY <2>1, <2>2, <2>3
<1>3. CASE Tick \/ Shutdown \/ Leave \/ Age \/ Prune
  BY <1>3 DEF Tick, Shutdown, Leave, Closed, DeleteWorker, Exit, Age, Prune
<1>4. CASE DeleteWorkerThrows \/ Restart
  <2>1. /\ UNCHANGED <<slot, active>>
        /\ \A l \in FaultKinds : faults[l] <= faults'[l]
        /\ faults' \in [FaultKinds -> Nat]
    BY <1>4, SpendingIsCounted DEF DeleteWorkerThrows, Restart
  <2> QED BY <2>1
<1>5. CASE Kill
  BY <1>5 DEF Kill
<1>6. ASSUME NEW h \in Heartbeats, Upsert(h) \/ UpsertFails(h) PROVE ActiveInv'
  <2>1. /\ UNCHANGED <<slot, active>>
        /\ \A l \in FaultKinds : faults[l] <= faults'[l]
        /\ faults' \in [FaultKinds -> Nat]
    BY <1>6, SpendingIsCounted DEF Upsert, UpsertFails
  <2> QED BY <2>1
<1>7. CASE UNCHANGED vars
  BY <1>7 DEF vars
<1> QED BY <1>1, <1>2, <1>3, <1>4, <1>5, <1>6, <1>7 DEF Next

\* The variables keep their types.
THEOREM TypeCorrect == Spec => []TypeOK
BY TypeHolds

\* activeJobIds is what is in flight, at any concurrency, as long as the worker is not
\* given a job that it still has.
THEOREM BusyStatusIsHonest == Spec => []BusyIsHonest
<1>1. Init => ActiveInv
  BY RegistryAssumption DEF Init, ActiveInv, Running
<1>2. TypeOK /\ ActiveInv /\ [Next]_vars => ActiveInv'
  BY ActiveStep
<1>3. ActiveInv => BusyIsHonest
  BY DEF ActiveInv, BusyIsHonest
<1> QED BY <1>1, <1>2, <1>3, TypeHolds, PTL DEF Spec

\* What a departure with no heartbeat in flight keeps to.
Departing ==
    /\ InFlight = 0
    /\ pc \in {"leaving", "ending", "exited", "killed"}
    /\ pc \in {"ending", "exited"} /\ faults["delete"] = 0 => row = "none"

LEMMA DepartureStep ==
    ASSUME TypeOK, Departing, [Next]_vars
    PROVE  Departing'
<1> USE DEF TypeOK, Departing, InFlight, process, table
<1> {"kill", "heartbeat", "delete", "redelivery", "restart"} = FaultKinds
  BY DEF FaultKinds
<1> \A h \in Heartbeats : sent[h] = 0
  <2>1. sent["first"] \in Nat /\ sent["idle"] \in Nat /\ sent["busy"] \in Nat
    BY DEF Heartbeats
  <2>2. sent["first"] = 0 /\ sent["idle"] = 0 /\ sent["busy"] = 0
    BY <2>1
  <2> QED BY <2>2 DEF Heartbeats
<1>1. CASE \/ \E s \in Slots : (\E j \in Jobs : Start(s, j)) \/ End(s)
           \/ \E h \in Heartbeats : Upsert(h) \/ UpsertFails(h)
           \/ Tick \/ Shutdown \/ Closed
  BY <1>1 DEF Start, End, Upsert, UpsertFails, Tick, Shutdown, Closed
<1>2. CASE DeleteWorker \/ Exit
  BY <1>2 DEF DeleteWorker, Exit
<1>3. CASE DeleteWorkerThrows
  BY <1>3, SpendingIsCounted DEF DeleteWorkerThrows
<1>4. CASE Kill
  BY <1>4 DEF Kill
<1>5. CASE Age \/ Prune
  BY <1>5 DEF Age, Prune
<1>6. CASE Restart
  BY <1>6 DEF Restart
<1>7. CASE UNCHANGED vars
  BY <1>7 DEF vars
<1> QED BY <1>1, <1>2, <1>3, <1>4, <1>5, <1>6, <1>7 DEF Next, Leave

\* A worker that shuts down with no heartbeat in flight is not listed any more once it
\* has exited, and never again.
THEOREM DepartureUnlists == Spec => QuietDepartureUnlists
<1>1. pc = "leaving" /\ InFlight = 0 => Departing
  BY DEF Departing
<1>2. TypeOK /\ Departing /\ [Next]_vars => Departing'
  BY DepartureStep
<1>3. Departing => (pc = "exited" /\ faults["delete"] = 0 => row = "none")
  BY DEF Departing
<1> QED BY <1>1, <1>2, <1>3, TypeHolds, PTL DEF Spec, QuietDepartureUnlists

-----------------------------------------------------------------------------
\* Rows of workers that are gone.

\* The row of a worker that is over comes back only with a heartbeat that it had sent,
\* which is then spent: it sends no more.
NoGhost ==
    Over => /\ InFlight' <= InFlight
            /\ row = "none" /\ row' # "none" => InFlight' < InFlight
            /\ Over'

ExitedInv == pc = "exited" => InFlight = 0

LEMMA FlightIsANumber ==
    ASSUME TypeOK
    PROVE  /\ InFlight \in Nat
           /\ \A h \in Heartbeats : sent[h] \in Nat
           /\ InFlight = 0 <=> \A h \in Heartbeats : sent[h] = 0
<1>1. sent["first"] \in Nat /\ sent["idle"] \in Nat /\ sent["busy"] \in Nat
  BY DEF TypeOK, Heartbeats
<1> QED BY <1>1 DEF InFlight, Heartbeats, TypeOK

\* A heartbeat that executes, or fails, is no longer in flight.
LEMMA FlightShrinks ==
    ASSUME TypeOK, NEW h \in Heartbeats, sent[h] > 0, sent' = [sent EXCEPT ![h] = @ - 1]
    PROVE  InFlight' = InFlight - 1
<1>1. sent["first"] \in Nat /\ sent["idle"] \in Nat /\ sent["busy"] \in Nat
  BY DEF TypeOK, Heartbeats
<1>2. \A k \in Heartbeats : sent'[k] = IF k = h THEN sent[h] - 1 ELSE sent[k]
  BY DEF TypeOK
<1>3. CASE h = "first"
  BY <1>1, <1>2, <1>3 DEF InFlight, Heartbeats
<1>4. CASE h = "idle"
  BY <1>1, <1>2, <1>4 DEF InFlight, Heartbeats
<1>5. CASE h = "busy"
  BY <1>1, <1>2, <1>5 DEF InFlight, Heartbeats
<1> QED BY <1>3, <1>4, <1>5 DEF Heartbeats

LEMMA GhostStep ==
    ASSUME TypeOK, ExitedInv, [Next]_vars
    PROVE  NoGhost /\ ExitedInv'
<1> InFlight \in Nat
  BY FlightIsANumber
<1> USE DEF Over, NoGhost, ExitedInv, process, table
<1>1. CASE \/ \E s \in Slots : (\E j \in Jobs : Start(s, j)) \/ End(s)
           \/ Tick \/ Shutdown \/ Closed \/ DeleteWorker \/ DeleteWorkerThrows
  <2>1. pc \notin {"exited", "killed"} /\ pc' # "exited"
    BY <1>1 DEF Start, End, Tick, Shutdown, Closed, DeleteWorker, DeleteWorkerThrows
  <2> QED BY <2>1
<1>2. CASE Exit \/ Kill
  <2>1. /\ pc \notin {"exited", "killed"}
        /\ pc' = "exited" => InFlight = 0
        /\ sent' = sent
    BY <1>2 DEF Exit, Kill
  <2>2. InFlight' = InFlight
    BY <2>1 DEF InFlight
  <2> QED BY <2>1, <2>2
<1>3. ASSUME NEW h \in Heartbeats, Upsert(h) \/ UpsertFails(h) PROVE NoGhost /\ ExitedInv'
  <2>1. /\ sent[h] > 0
        /\ sent' = [sent EXCEPT ![h] = @ - 1]
        /\ pc' # "exited" \/ pc' = pc
        /\ pc \in {"exited", "killed"} => pc' = pc
    BY <1>3 DEF Upsert, UpsertFails, Awaited
  <2>2. InFlight' = InFlight - 1
    BY <2>1, FlightShrinks
  <2>3. InFlight # 0
    BY <2>1, FlightIsANumber
  <2> QED BY <2>1, <2>2, <2>3
<1>4. CASE Age \/ Prune \/ Restart \/ UNCHANGED vars
  <2>1. UNCHANGED <<pc, sent>> /\ (row' = row \/ row' = "none")
    BY <1>4 DEF Age, Prune, Restart, vars
  <2>2. InFlight' = InFlight
    BY <2>1 DEF InFlight
  <2> QED BY <2>1, <2>2
<1> QED BY <1>1, <1>2, <1>3, <1>4 DEF Next, Leave

\* Once a worker is over it sends no heartbeat: each time its row comes back costs one
\* of those it had in flight, and one that has exited, whether or not it could delete
\* its row, has none, so that a row of it that is pruned is gone for good.  This is what
\* EventuallyUnlisted rests on besides fairness.
THEOREM NoGhostWorkers == Spec => []ExitedInv /\ [][NoGhost]_vars
<1>1. Init => ExitedInv
  BY DEF Init, ExitedInv
<1>2. TypeOK /\ ExitedInv /\ [Next]_vars => NoGhost /\ ExitedInv'
  BY GhostStep
<1> QED BY <1>1, <1>2, TypeHolds, PTL DEF Spec
=============================================================================
