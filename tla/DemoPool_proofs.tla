--------------------------- MODULE DemoPool_proofs ---------------------------
(***************************************************************************)
(* Proofs about DemoPool, for any pool of workers and any number of faults.*)
(***************************************************************************)
EXTENDS DemoPool, TLAPS, FiniteSetTheorems

\* The map is finite, so that it can be counted.
LEMMA WorkersAreFinite ==
    ASSUME TypeOK
    PROVE  IsFiniteSet(workers) /\ Cardinality(workers) \in Nat
BY PoolAssumption, FS_Subset, FS_CardinalityType DEF TypeOK

LEMMA SpendingIsCounted ==
    ASSUME faults \in [FaultKinds -> Nat], NEW k \in FaultKinds, Spend(k)
    PROVE  /\ faults' \in [FaultKinds -> Nat]
           /\ \A l \in FaultKinds : faults[l] <= faults'[l]
           /\ faults'[k] > 0
BY DEF Spend

\* The types, and what the map has, are preserved by every step.
LEMMA MapStep == TypeOK /\ MapInv /\ [Next]_vars => TypeOK' /\ MapInv'
<1> SUFFICES ASSUME TypeOK, MapInv, [Next]_vars PROVE TypeOK' /\ MapInv'
  OBVIOUS
<1> USE DEF TypeOK, MapInv, manager, Running
<1> {"down", "up", "closing"} = ApiStates /\ {"none", "alive", "killed", "dead"} = ChildStates
  BY DEF ApiStates, ChildStates
<1> {"stop", "die", "crash", "late"} = FaultKinds
  BY DEF FaultKinds
<1>1. CASE Start
  BY <1>1 DEF Start, Spawn, Free
<1>2. CASE Shutdown
  BY <1>2 DEF Shutdown, Sigkill
<1>3. CASE Exit
  BY <1>3 DEF Exit, Abandon
<1>4. CASE Crash
  BY <1>4, SpendingIsCounted DEF Crash, Abandon
<1>5. ASSUME NEW id \in Ids, Stop(id) PROVE TypeOK' /\ MapInv'
  BY <1>5, SpendingIsCounted DEF Stop, Sigkill
<1>6. ASSUME NEW id \in Ids, Exited(id) PROVE TypeOK' /\ MapInv'
  BY <1>6 DEF Exited, ExitedSetting
<1>7. ASSUME NEW id \in Ids, Respawn(id) PROVE TypeOK' /\ MapInv'
  BY <1>7, SpendingIsCounted DEF Respawn, Spawn, Free
<1>8. ASSUME NEW id \in Ids, Die(id) PROVE TypeOK' /\ MapInv'
  BY <1>8, SpendingIsCounted DEF Die
<1>9. CASE UNCHANGED vars
  BY <1>9 DEF vars
<1> QED BY <1>1, <1>2, <1>3, <1>4, <1>5, <1>6, <1>7, <1>8, <1>9 DEF Next

\* Every step keeps the places of the pool.
LEMMA StrengthStep ==
    ASSUME TypeOK, MapInv, PoolAtStrength, [Next]_vars
    PROVE  PoolAtStrength'
<1> USE DEF TypeOK, MapInv, PoolAtStrength, manager, Running
<1>1. CASE Start
  <2>1. PICK S \in SUBSET Free : Cardinality(S) = Count /\ Spawn(S)
    BY <1>1 DEF Start
  <2>2. workers' = S /\ timers' = 0
    BY <1>1, <2>1 DEF Start, Spawn
  <2> QED BY <2>1, <2>2, PoolAssumption
<1>2. CASE Shutdown \/ Exit \/ Crash
  BY <1>2 DEF Shutdown, Exit, Crash, Abandon
<1>3. ASSUME NEW id \in Ids, Stop(id) \/ Die(id) PROVE PoolAtStrength'
  BY <1>3 DEF Stop, Die
<1>4. ASSUME NEW id \in Ids, Exited(id) PROVE PoolAtStrength'
  <2>1. CASE api = "up"
    <3>1. Cardinality(workers \ {id}) = Cardinality(workers) - 1
      BY <1>4, WorkersAreFinite, FS_RemoveElement DEF Exited, ExitedSetting
    <3> QED BY <1>4, <2>1, <3>1, WorkersAreFinite, PoolAssumption
            DEF Exited, ExitedSetting, Stopping
  <2>2. CASE api # "up"
    BY <1>4, <2>2 DEF Exited, ExitedSetting
  <2> QED BY <2>1, <2>2
<1>5. ASSUME NEW id \in Ids, Respawn(id) PROVE PoolAtStrength'
  <2>1. id \notin workers
    BY <1>5 DEF Respawn, Free
  <2>2. Cardinality(workers \cup {id}) = Cardinality(workers) + 1
    BY <2>1, WorkersAreFinite, FS_AddElement
  <2> QED BY <1>5, <2>2, WorkersAreFinite, PoolAssumption DEF Respawn, Spawn
<1>6. CASE UNCHANGED vars
  BY <1>6 DEF vars
<1> QED BY <1>1, <1>2, <1>3, <1>4, <1>5, <1>6 DEF Next

\* The live processes are in the map, unless a crash or a late timer left them alone:
\* it is what a shutdown has to know to kill them all.
AllTracked ==
    faults["crash"] = 0 /\ faults["late"] = 0
    => \A id \in Ids : child[id] = "alive" => id \in workers /\ api = "up"

LEMMA TrackedStep ==
    ASSUME TypeOK, MapInv, AllTracked, [Next]_vars
    PROVE  AllTracked'
<1> USE DEF TypeOK, MapInv, AllTracked, manager, Running
<1> {"stop", "die", "crash", "late"} = FaultKinds
  BY DEF FaultKinds
<1>1. CASE Start
  BY <1>1 DEF Start, Spawn
<1>2. CASE Shutdown
  BY <1>2 DEF Shutdown, Sigkill
<1>3. CASE Exit
  BY <1>3 DEF Exit, Abandon
<1>4. CASE Crash
  BY <1>4, SpendingIsCounted DEF Crash
<1>5. ASSUME NEW id \in Ids, Stop(id) PROVE AllTracked'
  BY <1>5, SpendingIsCounted DEF Stop, Sigkill
<1>6. ASSUME NEW id \in Ids, Exited(id) PROVE AllTracked'
  BY <1>6 DEF Exited, ExitedSetting
<1>7. ASSUME NEW id \in Ids, Respawn(id) PROVE AllTracked'
  <2>1. CASE Stopping
    BY <1>7, <2>1, SpendingIsCounted DEF Respawn
  <2>2. CASE ~Stopping
    BY <1>7, <2>2 DEF Respawn, Spawn, Stopping
  <2> QED BY <2>1, <2>2
<1>8. ASSUME NEW id \in Ids, Die(id) PROVE AllTracked'
  <2>1. faults' \in [FaultKinds -> Nat] /\ \A l \in FaultKinds : faults[l] <= faults'[l]
    BY <1>8, SpendingIsCounted DEF Die
  <2> QED BY <1>8, <2>1 DEF Die
<1>9. CASE UNCHANGED vars
  BY <1>9 DEF vars
<1> QED BY <1>1, <1>2, <1>3, <1>4, <1>5, <1>6, <1>7, <1>8, <1>9 DEF Next

LEMMA PoolInvHolds == Spec => [](TypeOK /\ MapInv /\ PoolAtStrength /\ AllTracked)
<1>1. Init => TypeOK /\ MapInv /\ PoolAtStrength /\ AllTracked
  BY PoolAssumption
     DEF Init, TypeOK, MapInv, PoolAtStrength, AllTracked, ApiStates, ChildStates, Running
<1>2. /\ TypeOK /\ MapInv /\ PoolAtStrength /\ AllTracked
      /\ [Next]_vars
      => (TypeOK /\ MapInv /\ PoolAtStrength /\ AllTracked)'
  BY MapStep, StrengthStep, TrackedStep
<1> QED BY <1>1, <1>2, PTL DEF Spec

\* The variables keep their types.
THEOREM TypeCorrect == Spec => []TypeOK
BY PoolInvHolds, PTL

\* No place of the pool is lost or filled twice while the API is up.
THEOREM PoolIsAtStrength == Spec => []PoolAtStrength
BY PoolInvHolds, PTL

\* A shutdown leaves no demo worker behind, unless a timer to respawn fires during it.
THEOREM ShutdownLeavesNoOrphans == Spec => []NoOrphans
<1>1. AllTracked => NoOrphans
  BY DEF AllTracked, NoOrphans
<1> QED BY <1>1, PoolInvHolds, PTL
=============================================================================
