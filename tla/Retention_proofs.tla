-------------------------- MODULE Retention_proofs --------------------------
(***************************************************************************)
(* Proofs about Retention and Download, for any finite set of jobs, any    *)
(* attempts, any batch size, any requests and any number of faults.        *)
(***************************************************************************)
EXTENDS Download, TLAPS, WellFoundedInduction, FiniteSetTheorems

\* A sweep that has jobs left is at the first of them.
LEMMA CurrentIsFirst ==
    ASSUME TypeOK, todo # {}
    PROVE  Current \in todo /\ \A o \in todo : finishedAt[Current] <= finishedAt[o]
<1> DEFINE Less  == {ss \in Nat \X Nat : ss[1] < ss[2]}
           times == {finishedAt[j] : j \in todo}
<1>1. IsWellFoundedOn(Less, Nat)
  BY NatLessThanWellFounded DEF OpToRel
<1>2. times \subseteq Nat /\ times # {}
  BY DEF TypeOK
<1>3. PICK x \in times : \A y \in times : <<y, x>> \notin Less
  <2> HIDE DEF Less, times
  <2> QED BY <1>1, <1>2, WFMin
<1>4. ASSUME NEW y \in times PROVE x <= y
  <2>1. x \in Nat /\ y \in Nat /\ ~(y < x)
    BY <1>2, <1>3 DEF Less
  <2> QED BY <2>1
<1>5. \E j \in todo : \A o \in todo : finishedAt[j] <= finishedAt[o]
  BY <1>4
<1> QED BY <1>5 DEF Current

LEMMA CurrentIsTodo ==
    ASSUME TypeOK, todo # {}
    PROVE  Current \in todo
BY CurrentIsFirst

\* The next finishing time is a number.
LEMMA FinishedAreFinite == Cardinality(Finished) \in Nat
BY RetentionAssumption, FS_Subset, FS_CardinalityType DEF Finished

LEMMA SpendingIsCounted ==
    ASSUME faults \in [FaultKinds -> Nat], NEW k \in FaultKinds, Spend(k)
    PROVE  faults' \in [FaultKinds -> Nat]
BY DEF Spend

\* What an attempt's step does to the attempts of its job.
LEMMA StageEffects ==
    ASSUME stage \in [Jobs -> [Tokens -> Stages]],
           NEW j \in Jobs, NEW t \in Tokens, NEW s \in Stages, Goto(j, t, s)
    PROVE  /\ stage' \in [Jobs -> [Tokens -> Stages]]
           /\ stage'[j][t] = s
           /\ \A u \in Tokens \ {t} : stage'[j][u] = stage[j][u]
           /\ \A o \in Jobs \ {j} : stage'[o] = stage[o]
BY DEF Goto

LEMMA FinishEffects ==
    ASSUME TypeOK, NEW j \in Jobs, NEW w \in Tokens \cup {NoToken}, Finish(j, w)
    PROVE  /\ age' \in [Jobs -> Ages]
           /\ finishedAt' \in [Jobs -> Nat]
           /\ winner' \in [Jobs -> Tokens \cup {NoToken}]
           /\ age[j] = "active" /\ age'[j] = "young" /\ winner'[j] = w
           /\ \A o \in Jobs \ {j} : age'[o] = age[o] /\ winner'[o] = winner[o]
BY FinishedAreFinite DEF TypeOK, Finish, Ages

LEMMA DeletingTyped ==
    ASSUME TypeOK, SweepInv, pc = "deleting", Deleting
    PROVE  Current \in Jobs /\ early' \in [Jobs -> SUBSET Tokens]
BY CurrentIsTodo DEF TypeOK, SweepInv, Deleting

\* Type correctness is preserved by every step.
LEMMA TypeStep == TypeOK /\ SweepInv /\ [Next]_vars => TypeOK'
<1> SUFFICES ASSUME TypeOK, SweepInv, [Next]_vars PROVE TypeOK'
  OBVIOUS
<1> USE DEF TypeOK, jobVars, diskVars, history
<1> {"delete", "crash", "leave"} \subseteq FaultKinds
  BY DEF FaultKinds
<1> {"waiting", "claimed", "working", "unsure", "left", "over"} = Stages
  BY DEF Stages
<1>1. ASSUME NEW j \in Jobs, NEW t \in Tokens, Attempt(j, t) PROVE TypeOK'
  <2>1. CASE Claim(j, t) \/ Read(j, t)
    <3>1. stage' \in [Jobs -> [Tokens -> Stages]]
      BY <2>1, StageEffects DEF Claim, Read
    <3> QED BY <2>1, <3>1 DEF Claim, Read
  <2>5. CASE Write(j, t)
    BY <2>5 DEF Write
  <2>2. CASE Win(j, t)
    BY <2>2, StageEffects, FinishEffects DEF Win
  <2>3. CASE Lose(j, t)
    BY <2>3, StageEffects, FinishEffects DEF Lose
  <2>4. CASE Preserve(j, t) \/ Leave(j, t)
    BY <2>4, StageEffects, SpendingIsCounted DEF Preserve, Leave
  <2> QED BY <1>1, <2>1, <2>2, <2>3, <2>4, <2>5 DEF Attempt
<1>2. ASSUME NEW j \in Jobs, Expire(j) PROVE TypeOK'
  BY <1>2 DEF Expire, Ages
<1>3. CASE Tick
  BY <1>3 DEF Tick, TickFrom, Expired
<1>4. CASE Delete
  BY <1>4, DeletingTyped DEF Delete
<1>8. CASE Mark
  BY <1>8, CurrentIsTodo DEF Mark, SweepInv
<1>5. CASE DeleteThrows
  <2>1. Current \in Jobs
    BY <1>5, CurrentIsTodo DEF DeleteThrows, SweepInv
  <2>2. dirs' \in [Jobs -> SUBSET Tokens] /\ uploads' \subseteq Jobs /\ undeleted' \subseteq Jobs
    BY <1>5, <2>1 DEF DeleteThrows
  <2>4. early' \in [Jobs -> SUBSET Tokens]
    BY <1>5, DeletingTyped DEF DeleteThrows
  <2>3. faults' \in [FaultKinds -> Nat]
    BY <1>5, SpendingIsCounted DEF DeleteThrows
  <2> QED BY <1>5, <2>2, <2>3, <2>4 DEF DeleteThrows
<1>6. CASE Crash
  BY <1>6, SpendingIsCounted DEF Crash
<1>7. CASE UNCHANGED vars
  BY <1>7 DEF vars
<1> QED BY <1>1, <1>2, <1>3, <1>4, <1>5, <1>6, <1>7, <1>8 DEF Next, Sweep

\* The sweep and the attempts keep to the invariant.
LEMMA KeptStep ==
    ASSUME TypeOK, SweepInv, WinnerInv, UnexpiredKept, [Next]_vars
    PROVE  SweepInv' /\ WinnerInv' /\ UnexpiredKept'
<1> USE DEF TypeOK, jobVars, diskVars, history
<1> USE DEF SweepInv, WinnerInv, UnexpiredKept, Expired
<1> {"waiting", "claimed", "working", "unsure", "left", "over"} = Stages
  BY DEF Stages
<1>1. ASSUME NEW j \in Jobs, NEW t \in Tokens, Attempt(j, t)
      PROVE  SweepInv' /\ WinnerInv' /\ UnexpiredKept'
  <2>1. CASE Claim(j, t) \/ Read(j, t) \/ Preserve(j, t) \/ Leave(j, t)
    <3>1. /\ UNCHANGED <<jobVars, diskVars, pc, todo>>
          /\ stage[j][t] # "over"
          /\ \A u \in Tokens \ {t} : stage'[j][u] = stage[j][u]
          /\ \A o \in Jobs \ {j} : stage'[o] = stage[o]
      BY <2>1, StageEffects DEF Claim, Read, Preserve, Leave
    <3> QED BY <3>1, RetentionAssumption
  <2>2. CASE Write(j, t)
    BY <2>2 DEF Write
  <2>3. CASE Win(j, t)
    <3>1. /\ age[j] = "active" /\ age'[j] = "young" /\ winner'[j] = t
          /\ \A o \in Jobs \ {j} : age'[o] = age[o] /\ winner'[o] = winner[o]
      BY <2>3, FinishEffects DEF Win
    <3>2. /\ UNCHANGED <<diskVars, pc, todo>>
          /\ t \in dirs[j]
          /\ stage'[j][t] = "over"
          /\ \A o \in Jobs \ {j} : stage'[o] = stage[o]
      BY <2>3, StageEffects DEF Win
    <3> QED BY <3>1, <3>2
  <2>4. CASE Lose(j, t)
    <3>1. /\ stage[j][t] # "over"
          /\ stage'[j][t] = "over"
          /\ \A u \in Tokens \ {t} : stage'[j][u] = stage[j][u]
          /\ \A o \in Jobs \ {j} : stage'[o] = stage[o]
          /\ UNCHANGED <<uploads, pc, todo>>
          /\ dirs'[j] = dirs[j] \ {t}
          /\ \A o \in Jobs \ {j} : dirs'[o] = dirs[o]
      BY <2>4, StageEffects DEF Lose
    <3>2. winner[j] # t
      BY <3>1, RetentionAssumption
    <3>3. CASE UNCHANGED jobVars
      <4>1. SweepInv'
        BY <3>1, <3>3
      <4>2. WinnerInv'
        BY <3>1, <3>3, RetentionAssumption
      <4>3. UnexpiredKept'
        BY <3>1, <3>2, <3>3, RetentionAssumption
      <4> QED BY <4>1, <4>2, <4>3
    <3>4. CASE Finish(j, NoToken)
      <4>1. /\ age[j] = "active" /\ age'[j] = "young" /\ winner'[j] = NoToken
            /\ \A o \in Jobs \ {j} : age'[o] = age[o] /\ winner'[o] = winner[o]
        BY <3>4, FinishEffects
      <4> QED BY <3>1, <4>1
    <3> QED BY <2>4, <3>3, <3>4 DEF Lose
  <2> QED BY <1>1, <2>1, <2>2, <2>3, <2>4 DEF Attempt
<1>2. ASSUME NEW j \in Jobs, Expire(j) PROVE SweepInv' /\ WinnerInv' /\ UnexpiredKept'
  BY <1>2 DEF Expire
<1>3. CASE Tick
  <2>1. /\ todo' \subseteq Expired /\ todo' # {}
        /\ UNCHANGED <<jobVars, diskVars, stage>>
    BY <1>3 DEF Tick, TickFrom
  <2> QED BY <2>1
<1>4. CASE Delete \/ DeleteThrows
  <2>1. /\ pc = "deleting"
        /\ UNCHANGED <<jobVars, stage, todo>>
        /\ \A o \in Jobs \ {Current} : (o \in uploads => o \in uploads') /\ dirs'[o] = dirs[o]
    BY <1>4 DEF Delete, DeleteThrows
  <2>2. Current \in Expired
    BY <2>1, CurrentIsTodo
  <2> QED BY <2>1, <2>2
<1>5. CASE Mark
  BY <1>5, CurrentIsTodo DEF Mark
<1>6. CASE Crash
  BY <1>6 DEF Crash
<1>7. CASE UNCHANGED vars
  BY <1>7 DEF vars
<1> QED BY <1>1, <1>2, <1>3, <1>4, <1>5, <1>6, <1>7 DEF Next, Sweep

LEMMA IInvHolds == Spec => []IInv
<1>1. Init => IInv
  BY RetentionAssumption
     DEF Init, IInv, TypeOK, SweepInv, WinnerInv, UnexpiredKept, Expired, Ages, Stages
<1>2. IInv /\ [Next]_vars => IInv'
  BY TypeStep, KeptStep DEF IInv
<1> QED BY <1>1, <1>2, PTL DEF Spec

\* The variables keep their types.
THEOREM TypeCorrect == Spec => []TypeOK
BY IInvHolds, PTL DEF IInv

\* Nothing removes an upload or a result before its retention expires.
THEOREM UnexpiredFilesAreKept == Spec => []UnexpiredKept
BY IInvHolds, PTL DEF IInv
-----------------------------------------------------------------------------
\* What is purged stays gone.

\* No two jobs finish at the same time, so that a sweep has one job at a time.
TimesInv ==
    /\ \A j \in Finished : finishedAt[j] <= Cardinality(Finished)
    /\ \A j, k \in Finished : finishedAt[j] = finishedAt[k] => j = k

LEMMA TimesStep ==
    ASSUME TypeOK, SweepInv, TimesInv, [Next]_vars
    PROVE  /\ TimesInv'
           /\ \A j \in Finished : finishedAt'[j] = finishedAt[j]
<1> USE DEF TypeOK, TimesInv, jobVars, diskVars, history
<1>1. ASSUME NEW j \in Jobs, NEW w, Finish(j, w)
      PROVE  /\ TimesInv'
             /\ \A k \in Finished : finishedAt'[k] = finishedAt[k]
  <2>1. j \notin Finished /\ Finished' = Finished \cup {j}
    BY <1>1 DEF Finish, Finished
  <2>2. /\ finishedAt'[j] = Cardinality(Finished) + 1
        /\ \A k \in Finished : finishedAt'[k] = finishedAt[k]
    BY <1>1, <2>1 DEF Finish, Finished
  <2>3. IsFiniteSet(Finished) /\ Cardinality(Finished) \in Nat
    BY RetentionAssumption, FS_Subset, FS_CardinalityType DEF Finished
  <2>4. Cardinality(Finished') = Cardinality(Finished) + 1
    BY <2>1, <2>3, FS_AddElement
  <2>5. \A k \in Finished : finishedAt[k] \in Nat /\ finishedAt[k] <= Cardinality(Finished)
    BY DEF Finished
  <2>6. \A k \in Finished' : finishedAt'[k] <= Cardinality(Finished')
    BY <2>1, <2>2, <2>3, <2>4, <2>5
  <2>7. \A k, l \in Finished' : finishedAt'[k] = finishedAt'[l] => k = l
    BY <2>1, <2>2, <2>3, <2>5
  <2> QED BY <2>2, <2>6, <2>7
<1>2. CASE UNCHANGED jobVars
  BY <1>2 DEF Finished
<1>3. ASSUME NEW j \in Jobs, Expire(j)
      PROVE  TimesInv' /\ \A k \in Finished : finishedAt'[k] = finishedAt[k]
  <2>1. Finished' = Finished /\ finishedAt' = finishedAt
    BY <1>3 DEF Expire, Finished
  <2> QED BY <2>1
<1>4. ASSUME NEW j \in Jobs, NEW t \in Tokens, Attempt(j, t)
      PROVE  UNCHANGED jobVars \/ \E w : Finish(j, w)
  BY <1>4 DEF Attempt, Claim, Read, Write, Win, Lose, Preserve, Leave
<1>5. CASE Tick \/ Delete \/ Mark \/ DeleteThrows \/ Crash \/ UNCHANGED vars
  BY <1>2, <1>5 DEF Tick, TickFrom, Delete, Mark, DeleteThrows, Crash, vars
<1> QED BY <1>1, <1>2, <1>3, <1>4, <1>5 DEF Next, Sweep

\* A job that finishes meanwhile does not change what the sweep is at.
LEMMA CurrentIsStable ==
    ASSUME TypeOK, SweepInv, TimesInv, todo # {}, todo' = todo,
           \A j \in Finished : finishedAt'[j] = finishedAt[j]
    PROVE  Current' = Current
<1>1. todo \subseteq Finished
  BY DEF SweepInv, Expired, Finished
<1>2. Current \in todo /\ \A o \in todo : finishedAt[Current] <= finishedAt[o]
  BY CurrentIsFirst
<1>3. \E j \in todo' : \A o \in todo' : finishedAt'[j] <= finishedAt'[o]
  BY <1>1, <1>2
<1>4. Current' \in todo' /\ \A o \in todo' : finishedAt'[Current'] <= finishedAt'[o]
  BY <1>3 DEF Current
<1>5. finishedAt[Current'] <= finishedAt[Current] /\ finishedAt[Current] <= finishedAt[Current']
  BY <1>1, <1>2, <1>4
<1>6. finishedAt[Current'] \in Nat /\ finishedAt[Current] \in Nat
  <2>1. \A j \in todo : finishedAt[j] \in Nat
    BY DEF TypeOK
  <2> QED BY <1>2, <1>4, <2>1
<1>7. finishedAt[Current'] = finishedAt[Current]
  <2> DEFINE m == finishedAt[Current']
             n == finishedAt[Current]
  <2>1. m \in Nat /\ n \in Nat /\ m <= n /\ n <= m
    BY <1>5, <1>6
  <2> HIDE DEF m, n
  <2>2. m = n
    BY <2>1
  <2> QED BY <2>2 DEF m, n
<1> QED BY <1>1, <1>2, <1>4, <1>7 DEF TimesInv

\* A job whose files have been deleted: it is purged, or about to be.
Deleted(j) == j \in purged \/ (pc = "marking" /\ j = Current)

\* All that a deleted job may have is what an attempt at work has written since, or has
\* left since.
Clean(j) ==
    /\ j \notin uploads
    /\ \A t \in dirs[j] : t \notin early[j] /\ (stage[j][t] = "working" \/ HasLeft(j, t))

\* Those that had left files by then do not come back to work.
EarlyInv == \A j \in Jobs : \A t \in early[j] : HasLeft(j, t) \/ stage[j][t] = "over"

GoneInv ==
    /\ purged \subseteq Expired
    /\ EarlyInv
    /\ \A j \in Jobs \ undeleted : Deleted(j) => Clean(j)

LEMMA EarlyStep ==
    ASSUME TypeOK, SweepInv, EarlyInv, [Next]_vars
    PROVE  EarlyInv'
<1> USE DEF TypeOK, EarlyInv, HasLeft, jobVars, diskVars, history
<1> {"waiting", "claimed", "working", "unsure", "left", "over"} = Stages
  BY DEF Stages
<1>1. ASSUME NEW o \in Jobs, NEW t \in Tokens, Attempt(o, t) PROVE EarlyInv'
  <2>1. UNCHANGED early
    BY <1>1 DEF Attempt, Claim, Read, Write, Win, Lose, Preserve, Leave
  <2>2. ASSUME NEW s \in Stages, Goto(o, t, s),
               stage[o][t] \in {"waiting", "claimed", "working"} \/ s = "over"
        PROVE  EarlyInv'
    <3>1. /\ stage'[o][t] = s
          /\ \A u \in Tokens \ {t} : stage'[o][u] = stage[o][u]
          /\ \A k \in Jobs \ {o} : stage'[k] = stage[k]
      BY <2>2, StageEffects
    <3>2. s = "over" \/ t \notin early[o]
      BY <2>2
    <3>3. \A k \in Jobs : early[k] \subseteq Tokens
      OBVIOUS
    <3> QED BY <2>1, <3>1, <3>2, <3>3
  <2>3. CASE Write(o, t)
    BY <2>3 DEF Write
  <2>4. CASE ~Write(o, t)
    BY <1>1, <2>2, <2>4 DEF Attempt, Claim, Read, Win, Lose, Preserve, Leave
  <2> QED BY <2>3, <2>4
<1>2. CASE Delete \/ DeleteThrows
  <2>1. UNCHANGED stage /\ Deleting /\ pc = "deleting"
    BY <1>2 DEF Delete, DeleteThrows
  <2>2. ASSUME NEW j \in Jobs, NEW t \in early'[j]
        PROVE  t \in early[j] \/ HasLeft(j, t)
    BY <2>1, <2>2 DEF Deleting
  <2> QED BY <2>1, <2>2
<1>3. ASSUME NEW o \in Jobs, Expire(o) PROVE UNCHANGED <<stage, early>>
  BY <1>3 DEF Expire
<1>4. CASE Tick \/ Mark \/ Crash \/ UNCHANGED vars
  BY <1>4 DEF Tick, TickFrom, Mark, Crash, vars
<1> QED BY <1>1, <1>2, <1>3, <1>4 DEF Next, Sweep

LEMMA GoneStep ==
    ASSUME TypeOK, SweepInv, TimesInv, GoneInv, [Next]_vars
    PROVE  GoneInv'
<1> USE DEF TypeOK, GoneInv, jobVars, diskVars, history
<1> {"waiting", "claimed", "working", "unsure", "left", "over"} = Stages
  BY DEF Stages
<1> EarlyInv'
  BY EarlyStep
<1>1. pc = "marking" => Current \in todo /\ Current \in Expired
  BY CurrentIsTodo DEF SweepInv
<1>2. ASSUME UNCHANGED <<purged, pc, todo>> PROVE \A j \in Jobs : Deleted(j)' => Deleted(j)
  <2>1. pc = "marking" => Current' = Current
    BY <1>2, CurrentIsStable, TimesStep DEF SweepInv
  <2> QED BY <1>2, <2>1 DEF Deleted
<1>3. ASSUME NEW o \in Jobs, NEW t \in Tokens, Attempt(o, t) PROVE GoneInv'
  <2>1. UNCHANGED <<purged, pc, todo, uploads, history>>
    BY <1>3 DEF Attempt, Claim, Read, Write, Win, Lose, Preserve, Leave
  <2>2. Expired \subseteq Expired'
    BY <1>3 DEF Attempt, Claim, Read, Write, Win, Lose, Preserve, Leave, Finish, Expired
  <2>3. ASSUME NEW j \in Jobs, Deleted(j), Clean(j) PROVE Clean(j)'
    <3>1. age[j] # "active"
      BY <1>1, <2>3 DEF Deleted, Expired
    <3>2. CASE Claim(o, t) \/ Read(o, t)
      BY <2>1, <2>3, <3>2 DEF Claim, Read, Goto, Clean, HasLeft
    <3>3. CASE Write(o, t)
      BY <2>1, <2>3, <3>3 DEF Write, Clean, EarlyInv, HasLeft
    <3>4. CASE Win(o, t)
      <4>1. o # j
        BY <3>1, <3>4 DEF Win, Finish
      <4> QED BY <2>1, <2>3, <3>4, <4>1 DEF Win, Goto, Clean, HasLeft
    <3>5. CASE Lose(o, t)
      BY <2>1, <2>3, <3>5 DEF Lose, Goto, Clean, HasLeft
    <3>6. CASE Preserve(o, t) \/ Leave(o, t)
      BY <2>1, <2>3, <3>6 DEF Preserve, Leave, Goto, Clean, HasLeft
    <3> QED BY <1>3, <3>2, <3>3, <3>4, <3>5, <3>6 DEF Attempt
  <2> QED BY <1>2, <2>1, <2>2, <2>3
<1>4. ASSUME NEW o \in Jobs, Expire(o) PROVE GoneInv'
  <2>1. UNCHANGED <<purged, diskVars, stage, pc, todo, history>> /\ Expired \subseteq Expired'
    BY <1>4 DEF Expire, Expired
  <2> QED BY <1>2, <2>1 DEF Clean, HasLeft
<1>5. CASE Tick
  BY <1>5 DEF Tick, TickFrom, Deleted, Clean, HasLeft, Expired
\* The jobs it is not at are as they were; that which it is at has no file, or is counted
\* as undeleted.
<1>6. CASE Delete \/ DeleteThrows
  <2>1. /\ UNCHANGED <<age, purged, stage, todo>>
        /\ pc' = "marking" /\ Current' = Current
        /\ pc = "deleting"
    BY <1>6 DEF Delete, DeleteThrows, Current
  <2>2. ASSUME NEW j \in Jobs, j # Current
        PROVE  /\ j \in uploads' => j \in uploads
               /\ dirs'[j] = dirs[j] /\ early'[j] = early[j]
               /\ j \in undeleted => j \in undeleted'
    BY <1>6, <2>2 DEF Delete, DeleteThrows, Deleting
  <2>3. Current \in undeleted' \/ (Current \notin uploads' /\ dirs'[Current] = {})
    <3>1. Current \in Jobs
      BY <2>1, CurrentIsTodo DEF SweepInv
    <3> QED BY <1>6, <3>1 DEF Delete, DeleteThrows
  <2>4. ASSUME NEW j \in Jobs \ undeleted', Deleted(j)' PROVE Clean(j)'
    <3>1. CASE j = Current
      BY <2>1, <2>3, <3>1, <2>4 DEF Clean
    <3>2. CASE j # Current
      <4>1. Deleted(j) /\ j \notin undeleted
        BY <2>1, <2>2, <2>4, <3>2 DEF Deleted
      <4>2. Clean(j)
        BY <4>1
      <4> QED BY <2>1, <2>2, <3>2, <4>2 DEF Clean, HasLeft
    <3> QED BY <3>1, <3>2
  <2> QED BY <2>1, <2>4 DEF Expired
<1>7. CASE Mark
  <2>1. \A j \in Jobs : Deleted(j)' => Deleted(j)
    BY <1>7 DEF Mark, Deleted
  <2> QED BY <1>1, <1>7, <2>1 DEF Mark, Clean, HasLeft, Expired
<1>8. CASE Crash
  BY <1>8 DEF Crash, Deleted, Clean, HasLeft, Expired
<1>9. CASE UNCHANGED vars
  <2>1. UNCHANGED <<purged, uploads, dirs, stage, pc, todo, history, age>>
    BY <1>9 DEF vars
  <2> QED BY <1>2, <2>1 DEF Clean, HasLeft, Expired
<1> QED BY <1>3, <1>4, <1>5, <1>6, <1>7, <1>8, <1>9 DEF Next, Sweep

\* What attempts wrote and left before the delete of their job did not throw is gone for
\* good: a purged job has no file but of attempts that were at work at that moment, and
\* that are at work still or ended without a discard.
THEOREM OnlyFilesOfLateAttemptsStay == Spec => []OnlyLateFilesStay
<1>1. Init => TimesInv /\ GoneInv
  BY DEF Init, TimesInv, GoneInv, EarlyInv, Finished, Deleted
<1>2. IInv /\ TimesInv /\ GoneInv /\ [Next]_vars => TimesInv' /\ GoneInv'
  BY TimesStep, GoneStep DEF IInv
<1>3. TypeOK /\ GoneInv => OnlyLateFilesStay
  BY DEF TypeOK, GoneInv, Deleted, Clean, OnlyLateFilesStay
<1>4. IInv => TypeOK
  BY DEF IInv
<1> QED BY <1>1, <1>2, <1>3, <1>4, IInvHolds, PTL DEF Spec

-----------------------------------------------------------------------------
\* The order of the sweeps.

\* Who finished first expired first; what a sweep has taken, or one before it has
\* purged, finished before all that it left, and is purged in that order.
OrderInv ==
    /\ pc = "idle" => todo = {}
    /\ todo \cap purged = {}
    /\ \A i, j \in Finished :
          finishedAt[i] < finishedAt[j] /\ age[j] = "expired" => age[i] = "expired"
    /\ \A i \in Expired \ (purged \cup todo), j \in purged \cup todo :
          finishedAt[j] < finishedAt[i]
    /\ \A i \in todo, j \in purged : finishedAt[j] < finishedAt[i]

LEMMA NumbersCompare ==
    \A m, n \in Nat : /\ m < n => ~(n < m) /\ m # n
                      /\ ~(m < n) /\ m # n => n < m
                      /\ m <= n /\ m # n => m < n
OBVIOUS

LEMMA OrderStep ==
    ASSUME TypeOK, SweepInv, TimesInv, GoneInv, OrderInv, [Next]_vars
    PROVE  OrderInv'
<1> USE DEF TypeOK, jobVars, diskVars, history
<1> /\ Expired \subseteq Finished /\ todo \subseteq Expired /\ purged \subseteq Expired
    /\ \A j \in Jobs : finishedAt[j] \in Nat
  BY DEF Expired, Finished, SweepInv, GoneInv
<1>1. ASSUME UNCHANGED <<jobVars, purged, pc, todo>> PROVE OrderInv'
  BY <1>1 DEF OrderInv, Expired, Finished
<1>2. ASSUME NEW j \in Jobs, NEW w \in Tokens \cup {NoToken}, Finish(j, w),
             UNCHANGED <<purged, pc, todo>>
      PROVE  OrderInv'
  <2>1. /\ j \notin Finished /\ Finished' = Finished \cup {j} /\ Expired' = Expired
        /\ age'[j] = "young"
        /\ \A k \in Jobs \ {j} : age'[k] = age[k] /\ finishedAt'[k] = finishedAt[k]
    BY <1>2, FinishEffects DEF Finish, Finished, Expired
  <2>2. \A k \in Finished : finishedAt[k] < finishedAt'[j]
    <3>1. finishedAt'[j] = Cardinality(Finished) + 1
      BY <1>2 DEF Finish
    <3> QED BY <3>1, FinishedAreFinite DEF TimesInv, Finished
  <2>3. \A i, k \in Finished' :
           finishedAt'[i] < finishedAt'[k] /\ age'[k] = "expired" => age'[i] = "expired"
    <3> SUFFICES ASSUME NEW i \in Finished', NEW k \in Finished',
                        finishedAt'[i] < finishedAt'[k], age'[k] = "expired"
                 PROVE  age'[i] = "expired"
      OBVIOUS
    <3>1. k \in Finished /\ k # j
      BY <2>1
    <3>2. i # j
      <4>1. finishedAt[k] < finishedAt'[j] /\ finishedAt'[k] = finishedAt[k]
        BY <2>1, <2>2, <3>1 DEF Finished
      <4>2. finishedAt[k] \in Nat /\ finishedAt'[j] \in Nat
        <5>1. finishedAt' \in [Jobs -> Nat]
          BY <1>2, FinishEffects
        <5> QED BY <3>1, <5>1 DEF Finished
      <4> QED BY <4>1, <4>2, NumbersCompare
    <3> QED BY <2>1, <3>1, <3>2 DEF OrderInv, Finished
  <2>4. \A k \in Expired : finishedAt'[k] = finishedAt[k]
    BY <2>1 DEF Finished
  <2>5. \A k \in todo \cup purged : k \in Expired
    OBVIOUS
  <2>6. /\ pc' = "idle" => todo' = {}
        /\ todo' \cap purged' = {}
        /\ \A i \in Expired' \ (purged' \cup todo'), k \in purged' \cup todo' :
              finishedAt'[k] < finishedAt'[i]
        /\ \A i \in todo', k \in purged' : finishedAt'[k] < finishedAt'[i]
    BY <1>2, <2>1, <2>4, <2>5 DEF OrderInv
  <2> QED BY <2>3, <2>6 DEF OrderInv
<1>3. ASSUME NEW j \in Jobs, NEW t \in Tokens, Attempt(j, t) PROVE OrderInv'
  <2>1. /\ UNCHANGED <<purged, pc, todo>>
        /\ UNCHANGED jobVars \/ \E w \in Tokens \cup {NoToken} : Finish(j, w)
    BY <1>3 DEF Attempt, Claim, Read, Write, Win, Lose, Preserve, Leave
  <2> QED BY <1>1, <1>2, <2>1
\* A job that expires is behind all that have: they finished before it did.
<1>4. ASSUME NEW j \in Jobs, Expire(j) PROVE OrderInv'
  <2>1. /\ age[j] = "young" /\ Finished' = Finished /\ Expired' = Expired \cup {j}
        /\ \A o \in Finished : finishedAt[o] < finishedAt[j] => age[o] = "expired"
        /\ \A k \in Jobs : age'[k] = IF k = j THEN "expired" ELSE age[k]
        /\ UNCHANGED <<finishedAt, purged, pc, todo>>
    BY <1>4 DEF Expire, Finished, Expired
  <2>2. ASSUME NEW k \in Expired PROVE finishedAt[k] < finishedAt[j]
    <3>1. j \in Finished /\ k \in Finished /\ k # j /\ age[k] = "expired"
      BY <2>1 DEF Finished, Expired
    <3>2. finishedAt[k] # finishedAt[j]
      BY <3>1 DEF TimesInv
    <3>3. ~(finishedAt[j] < finishedAt[k])
      BY <2>1, <3>1 DEF OrderInv
    <3>4. finishedAt[j] \in Nat /\ finishedAt[k] \in Nat
      BY <3>1 DEF Finished
    <3> QED BY <3>2, <3>3, <3>4, NumbersCompare
  <2>3. \A i, k \in Finished :
           finishedAt[i] < finishedAt[k] /\ age'[k] = "expired" => age'[i] = "expired"
    BY <2>1 DEF OrderInv, Finished
  <2> QED BY <2>1, <2>2, <2>3 DEF OrderInv
<1>5. CASE Tick
  <2>1. PICK B \in SUBSET (Expired \ purged) :
           /\ \A j \in B, o \in (Expired \ purged) \ B : finishedAt[j] < finishedAt[o]
           /\ todo' = B
    BY <1>5 DEF Tick, TickFrom
  <2>2. /\ pc = "idle" /\ pc' = "deleting"
        /\ UNCHANGED <<age, finishedAt, purged>>
    BY <1>5 DEF Tick, TickFrom
  <2> QED BY <2>1, <2>2 DEF OrderInv, Expired, Finished
<1>6. CASE Delete \/ DeleteThrows
  <2>1. pc' = "marking" /\ UNCHANGED <<age, finishedAt, purged, todo>>
    BY <1>6 DEF Delete, DeleteThrows
  <2> QED BY <2>1 DEF OrderInv, Expired, Finished
\* What is marked is the first of the sweep's.
<1>7. CASE Mark
  <2> DEFINE c == Current
  <2>1. /\ pc = "marking"
        /\ purged' = purged \cup {c} /\ todo' = todo \ {c}
        /\ pc' = "idle" => todo = {c}
        /\ UNCHANGED <<age, finishedAt>>
    BY <1>7 DEF Mark
  <2>2. c \in todo /\ \A o \in todo : finishedAt[c] <= finishedAt[o]
    BY <2>1, CurrentIsFirst DEF SweepInv
  <2> HIDE DEF c
  <2>3. ASSUME NEW o \in todo \ {c} PROVE finishedAt[c] < finishedAt[o]
    <3>1. c \in Finished /\ o \in Finished /\ finishedAt[c] <= finishedAt[o] /\ c # o
      BY <2>2, <2>3
    <3>2. finishedAt[c] # finishedAt[o]
      BY <3>1 DEF TimesInv
    <3>3. finishedAt[c] \in Nat /\ finishedAt[o] \in Nat
      BY <3>1 DEF Finished
    <3> QED BY <3>1, <3>2, <3>3, NumbersCompare
  <2> QED BY <2>1, <2>2, <2>3 DEF OrderInv, Expired, Finished
<1>8. CASE Crash
  <2>1. todo' = {} /\ UNCHANGED <<age, finishedAt, purged>>
    BY <1>8 DEF Crash
  <2> QED BY <2>1 DEF OrderInv, Expired, Finished
<1>9. CASE UNCHANGED vars
  BY <1>1, <1>9 DEF vars
<1> QED BY <1>3, <1>4, <1>5, <1>6, <1>7, <1>8, <1>9 DEF Next, Sweep

\* Jobs are purged in the order in which they finished, whatever sweeps are cut short
\* and whatever finishes or expires meanwhile: no job waits behind one that comes later,
\* so that the head of the batch never starves (jobsRepo.ts, ORDER BY finished_at and
\* LIMIT).
PurgedInOrder ==
    \A i, j \in Finished : finishedAt[i] < finishedAt[j] /\ j \in purged => i \in purged

THEOREM OldestArePurgedFirst == Spec => []PurgedInOrder
<1>1. Init => TimesInv /\ GoneInv /\ OrderInv
  BY DEF Init, TimesInv, GoneInv, EarlyInv, OrderInv, Finished, Expired, Deleted
<1>2. IInv /\ TimesInv /\ GoneInv /\ OrderInv /\ [Next]_vars => TimesInv' /\ GoneInv' /\ OrderInv'
  BY TimesStep, GoneStep, OrderStep DEF IInv
<1>3. IInv /\ GoneInv /\ OrderInv => PurgedInOrder
  <2> SUFFICES ASSUME IInv, GoneInv, OrderInv, NEW i \in Finished, NEW j \in Finished,
                      finishedAt[i] < finishedAt[j], j \in purged
               PROVE  i \in purged
    BY DEF PurgedInOrder
  <2>1. age[j] = "expired"
    BY DEF GoneInv, Expired
  <2>2. i \in Expired
    BY <2>1 DEF OrderInv, Expired, Finished
  <2>3. finishedAt[i] \in Nat /\ finishedAt[j] \in Nat
    BY DEF IInv, TypeOK, Finished
  <2>4. ~(finishedAt[j] < finishedAt[i])
    BY <2>3
  <2> QED BY <2>2, <2>4 DEF OrderInv
<1> QED BY <1>1, <1>2, <1>3, IInvHolds, PTL DEF Spec

-----------------------------------------------------------------------------
\* Downloads.

\* A winner stays, does not come back to its directory, and what has expired stays so.
LEMMA ResultStep ==
    ASSUME IInv, [Next]_vars, NEW j \in Jobs, winner[j] # NoToken
    PROVE  /\ winner'[j] = winner[j]
           /\ winner[j] \notin dirs[j] => winner[j] \notin dirs'[j]
           /\ age[j] = "expired" => age'[j] = "expired"
<1> USE DEF IInv, TypeOK, WinnerInv, jobVars, diskVars, history
<1> {"waiting", "claimed", "working", "unsure", "left", "over"} = Stages
  BY DEF Stages
<1> age[j] # "active" /\ stage[j][winner[j]] = "over"
  OBVIOUS
<1>1. ASSUME NEW o \in Jobs, NEW t \in Tokens, Attempt(o, t)
      PROVE  /\ winner'[j] = winner[j]
             /\ winner[j] \notin dirs[j] => winner[j] \notin dirs'[j]
             /\ age[j] = "expired" => age'[j] = "expired"
  <2>1. CASE Claim(o, t) \/ Read(o, t) \/ Preserve(o, t) \/ Leave(o, t)
    BY <2>1 DEF Claim, Read, Preserve, Leave
  <2>2. CASE Write(o, t)
    BY <2>2 DEF Write
  <2>3. CASE Win(o, t)
    BY <2>3, FinishEffects DEF Win
  <2>4. CASE Lose(o, t)
    <3>1. winner'[j] = winner[j] /\ age'[j] = age[j]
      BY <2>4, FinishEffects DEF Lose
    <3>2. dirs'[j] \subseteq dirs[j]
      BY <2>4 DEF Lose
    <3> QED BY <3>1, <3>2
  <2> QED BY <1>1, <2>1, <2>2, <2>3, <2>4 DEF Attempt
<1>2. ASSUME NEW o \in Jobs, Expire(o)
      PROVE  UNCHANGED <<winner, dirs>> /\ (age[j] = "expired" => age'[j] = "expired")
  BY <1>2 DEF Expire
<1>3. CASE Delete \/ DeleteThrows
  <2>1. UNCHANGED jobVars /\ dirs'[j] \subseteq dirs[j]
    BY <1>3 DEF Delete, DeleteThrows
  <2> QED BY <2>1
<1>4. CASE Tick \/ Mark \/ Crash \/ UNCHANGED vars
  BY <1>4 DEF Tick, TickFrom, Mark, Crash, vars
<1> QED BY <1>1, <1>2, <1>3, <1>4 DEF Next, Sweep

LEMMA ReaderStep ==
    ASSUME IInv, ReaderTypeOK, ReaderInv, [DownloadNext]_allVars
    PROVE  ReaderTypeOK' /\ ReaderInv'
<1> USE DEF ReaderTypeOK, ReaderInv, reader
<1>1. CASE Next /\ UNCHANGED reader
  <2>1. ASSUME NEW r \in requests PROVE r.token = winner'[r.job]
    <3>1. r.job \in Jobs /\ winner[r.job] = r.token /\ r.token # NoToken
      BY RetentionAssumption
    <3> QED BY <1>1, <3>1, ResultStep
  <2>2. ASSUME NEW j \in missing PROVE winner'[j] # NoToken /\ winner'[j] \notin dirs'[j]
    BY <1>1, ResultStep
  <2> QED BY <1>1, <2>1, <2>2
<1>2. ASSUME NEW j \in Jobs, Lookup(j) PROVE ReaderTypeOK' /\ ReaderInv'
  BY <1>2 DEF Lookup, vars, jobVars, diskVars, IInv, TypeOK
<1>3. ASSUME NEW r \in requests, Send(r) \/ SendFails(r) PROVE ReaderTypeOK' /\ ReaderInv'
  BY <1>3, RetentionAssumption DEF Send, SendFails, vars, jobVars, diskVars
<1>4. CASE UNCHANGED allVars
  BY <1>4 DEF allVars, vars, jobVars, diskVars
<1> QED BY <1>1, <1>2, <1>3, <1>4 DEF DownloadNext

LEMMA ReaderInvHolds == DownloadSpec => [](IInv /\ ReaderTypeOK /\ ReaderInv)
<1>1. DownloadInit => IInv /\ ReaderTypeOK /\ ReaderInv
  BY RetentionAssumption
     DEF DownloadInit, Init, IInv, TypeOK, SweepInv, WinnerInv, UnexpiredKept, Expired, Ages,
         Stages, ReaderTypeOK, ReaderInv
<1>2. [DownloadNext]_allVars => [Next]_vars
  BY DEF DownloadNext, Lookup, Send, SendFails, allVars
<1>3. IInv /\ [Next]_vars => IInv'
  BY TypeStep, KeptStep DEF IInv
<1>4. IInv /\ ReaderTypeOK /\ ReaderInv /\ [DownloadNext]_allVars => ReaderTypeOK' /\ ReaderInv'
  BY ReaderStep
<1> QED BY <1>1, <1>2, <1>3, <1>4, PTL DEF DownloadSpec

\* A result is there for every request that looks until its retention expires, and once it
\* was found gone it is not served again, whatever requests fail besides.
THEOREM ResultsAreGoneForGood == DownloadSpec => GoneForGood
<1> DEFINE Kept == missing \subseteq missing' /\ missing' \subseteq Expired'
           Past == missing \subseteq Expired
<1>1. IInv /\ ReaderTypeOK /\ ReaderInv => Past
  BY DEF IInv, UnexpiredKept, ReaderTypeOK, ReaderInv, Expired
<1>2. IInv /\ ReaderTypeOK /\ ReaderInv /\ [DownloadNext]_allVars => missing \subseteq missing'
  <2> SUFFICES ASSUME IInv, ReaderTypeOK, ReaderInv, [DownloadNext]_allVars
               PROVE  missing \subseteq missing'
    OBVIOUS
  <2>1. ASSUME NEW r \in requests, Send(r) PROVE missing \subseteq missing'
    BY <2>1 DEF Send, ReaderInv
  <2> QED BY <2>1 DEF DownloadNext, Lookup, SendFails, reader, allVars
<1>3. IInv /\ ReaderTypeOK /\ ReaderInv /\ (IInv /\ ReaderTypeOK /\ ReaderInv)'
      /\ [DownloadNext]_allVars => [Kept]_allVars
  BY <1>1, <1>2 DEF Expired, IInv, UnexpiredKept, ReaderTypeOK, ReaderInv
<1> QED BY <1>3, ReaderInvHolds, PTL DEF DownloadSpec, GoneForGood
=============================================================================
