-------------------------- MODULE Processing_proofs --------------------------
(***************************************************************************)
(* Proofs about Processing, for any set of tokens and any number of faults.*)
(***************************************************************************)
EXTENDS Processing, TLAPS

\* The guarded UPDATEs map rows to rows.
LEMMA RowsStayRows ==
    ASSUME NEW row \in JobRow, NEW t \in Tokens, NEW n \in Nat
    PROVE  /\ TransitionToRunning(row, t) \in JobRow
           /\ TransitionToRetrying(row, n, t) \in JobRow
           /\ TransitionToSucceeded(row, n, t) \in JobRow
           /\ TransitionToFailed(row, n, t) \in JobRow
BY DEF JobRow, Statuses, TransitionToRunning, TransitionToRetrying,
       TransitionToSucceeded, TransitionToFailed

\* The ways a call of processJob moves on keep its record a record.
LEMMA RunsStayRuns ==
    ASSUME run \in [Tokens -> Run], NEW d \in Tokens
    PROVE  /\ \A pc \in PCs : Goto(d, pc) => run' \in [Tokens -> Run]
           /\ \A o \in Outcomes : Exit(d, o) => run' \in [Tokens -> Run]
           /\ \A v \in Verdicts, o \in Outcomes :
                  Conclude(d, v, o) => run' \in [Tokens -> Run]
<1>1. ASSUME NEW pc \in PCs, Goto(d, pc) PROVE run' \in [Tokens -> Run]
  BY <1>1 DEF Run, Goto
<1>2. ASSUME NEW o \in Outcomes, Exit(d, o) PROVE run' \in [Tokens -> Run]
  BY <1>2 DEF Run, PCs, Exit
<1>3. ASSUME NEW v \in Verdicts, NEW o \in Outcomes, Conclude(d, v, o)
      PROVE  run' \in [Tokens -> Run]
  BY <1>3 DEF Run, PCs, Conclude
<1> QED BY <1>1, <1>2, <1>3

LEMMA SpendingIsCounted ==
    ASSUME faults \in [FaultKinds -> Nat],
           NEW k \in {"crash", "pause", "error", "late", "republish"}, Spend(k)
    PROVE  faults' \in [FaultKinds -> Nat]
<1> k \in FaultKinds
  BY DEF FaultKinds
<1> QED BY DEF Spend

LEMMA StatementType ==
    ASSUME NEW d \in Tokens
    PROVE  Statement(d) \in {"none", "running", "retrying", "succeeded", "failed"}
BY DEF Statement

\* BullMQ's moves keep the entry an entry.
LEMMA EntriesStayEntries ==
    ASSUME entry \in Entry
    PROVE  /\ QueueAdd \/ RecoverStalled \/ Promote \/ Trim => entry' \in Entry
           /\ LockOfDeadExpires \/ LockOfLiveExpires => entry' \in Entry
           /\ \A d \in Tokens : Deliver(d) => entry' \in Entry
           /\ \A d \in Tokens : SettledEntry(d) \in Entry
<1> /\ entry.made \in Nat
    /\ entry.stalls \in Nat
  BY DEF Entry
<1> NoEntry \in Entry
  BY DEF NoEntry, Entry, EntryStates
<1> USE DEF Entry, EntryStates
<1>1. QueueAdd => entry' \in Entry
  BY DEF QueueAdd
<1>2. ASSUME RecoverStalled PROVE entry' \in Entry
  <2> DEFINE st == IF entry.stalls + 1 > MaxStalledCount THEN "failed" ELSE "waiting"
  <2>1. entry' = [entry EXCEPT !.stalls = @ + 1, !.state = st]
    BY <1>2 DEF RecoverStalled
  <2>2. st \in EntryStates
    OBVIOUS
  <2> HIDE DEF st
  <2>3. entry.stalls + 1 \in Nat
    OBVIOUS
  <2> QED BY <2>1, <2>2, <2>3
<1>3. Promote \/ Trim \/ LockOfDeadExpires \/ LockOfLiveExpires => entry' \in Entry
  BY DEF Promote, Trim, LockOfDeadExpires, LockOfLiveExpires
<1>4. ASSUME NEW d \in Tokens PROVE Deliver(d) => entry' \in Entry
  BY DEF Deliver
<1>5. ASSUME NEW d \in Tokens PROVE SettledEntry(d) \in Entry
  <2> DEFINE st == CASE run[d].outcome = "completed"     -> "completed"
                     [] run[d].outcome = "unrecoverable" -> "failed"
                     [] OTHER -> IF entry.made + 1 >= QueueAttempts
                                 THEN "failed" ELSE "delayed"
  <2>1. SettledEntry(d) = [entry EXCEPT !.locked = FALSE, !.made = @ + 1, !.state = st]
    BY DEF SettledEntry
  <2>2. st \in EntryStates
    OBVIOUS
  <2> HIDE DEF st
  <2>3. entry.made + 1 \in Nat
    OBVIOUS
  <2> QED BY <2>1, <2>2, <2>3
<1> QED BY <1>1, <1>2, <1>3, <1>4, <1>5

\* Type correctness is preserved by every step.
LEMMA TypeStep == TypeOK /\ [Next]_vars => TypeOK'
<1> SUFFICES ASSUME TypeOK, [Next]_vars PROVE TypeOK'
  OBVIOUS
<1> USE EntriesStayEntries DEF TypeOK, queueVars, diskVars
<1>1. CASE Dispatch
  BY <1>1 DEF Dispatch, QueueAdd, CommitPublished
<1>2. CASE RollbackPublished
  BY <1>2, SpendingIsCounted DEF RollbackPublished
<1>3. CASE Queue
  <2>1. CASE LockOfDeadExpires
    BY <2>1 DEF LockOfDeadExpires
  <2>2. CASE RecoverStalled
    BY <2>2 DEF RecoverStalled
  <2>3. CASE Promote
    BY <2>3 DEF Promote
  <2>4. ASSUME NEW d \in Tokens, Deliver(d) PROVE TypeOK'
    <3> entry.made + 1 \in Nat
      BY DEF Entry
    <3> run' \in [Tokens -> Run]
      BY <2>4 DEF Deliver, Run, PCs
    <3> QED BY <2>4 DEF Deliver
  <2> QED BY <1>3, <2>1, <2>2, <2>3, <2>4 DEF Queue
<1>4. CASE LockOfLiveExpires
  BY <1>4, SpendingIsCounted DEF LockOfLiveExpires
<1>5. CASE Trim
  BY <1>5 DEF Trim
<1>6. ASSUME NEW d \in Tokens, Proceed(d) PROVE TypeOK'
  <2> /\ run[d] \in Run
      /\ run[d].attempt \in Nat
      /\ run[d].outcome \in Outcomes
      /\ run[d].verdict \in Verdicts
    BY DEF Run
  <2> USE RowsStayRows, RunsStayRuns
  <2>1. CASE Fetch(d)
    BY <2>1 DEF Fetch, PCs, Outcomes
  <2>2. CASE Claim(d)
    BY <2>2 DEF Claim, PCs
  <2>3. CASE Recheck(d)
    BY <2>3 DEF Recheck, PCs, Outcomes
  <2>4. CASE Start(d)
    BY <2>4 DEF Start, PCs
  <2>5. CASE WriteFirst(d)
    BY <2>5 DEF WriteFirst
  <2>6. CASE WriteLast(d)
    BY <2>6 DEF WriteLast, PCs
  <2>7. CASE FailTransiently(d)
    BY <2>7 DEF FailTransiently, Run, PCs, Outcomes
  <2>8. CASE FailValidation(d)
    BY <2>8 DEF FailValidation, Run, PCs, Outcomes
  <2>9. CASE Discard(d)
    BY <2>9 DEF Discard, PCs, Outcomes, Verdicts
  <2>10. CASE Finalize(d)
    BY <2>10 DEF Finalize, Verdicts
  <2>11. CASE Commit(d)
    BY <2>11 DEF Commit, PCs, Outcomes, Verdicts
  <2>12. CASE ResolveDoubt(d)
    BY <2>12 DEF ResolveDoubt, PCs, Outcomes, Verdicts
  <2>13. CASE ReadLatest(d)
    BY <2>13 DEF ReadLatest, Outcomes, Verdicts
  <2>14. CASE Record(d)
    BY <2>14 DEF Record, PCs, Verdicts
  <2>15. CASE Settle(d)
    BY <2>15 DEF Settle, PCs
  <2> QED BY <1>6, <2>1, <2>2, <2>3, <2>4, <2>5, <2>6, <2>7, <2>8, <2>9, <2>10,
             <2>11, <2>12, <2>13, <2>14, <2>15 DEF Proceed
<1>7. ASSUME NEW d \in Tokens, Throws(d) PROVE TypeOK'
  <2> /\ run[d] \in Run
      /\ run[d].verdict \in Verdicts
    BY DEF Run
  <2> USE RunsStayRuns, StatementType, SpendingIsCounted
  <2>1. CASE ReadThrows(d)
    BY <2>1 DEF ReadThrows, Outcomes
  <2>2. CASE UpdateThrows(d)
    BY <2>2 DEF UpdateThrows, Unacknowledged, Outcomes
  <2>3. CASE StartThrows(d)
    BY <2>3 DEF StartThrows, Outcomes
  <2>4. CASE CommitThrows(d)
    BY <2>4 DEF CommitThrows, Unacknowledged, PCs
  <2>5. CASE DoubtUnread(d)
    BY <2>5 DEF DoubtUnread, Outcomes, Verdicts
  <2>6. CASE DiscardThrows(d)
    BY <2>6 DEF DiscardThrows, Outcomes
  <2>7. CASE RecordThrows(d)
    BY <2>7 DEF RecordThrows, Outcomes, Verdicts
  <2> QED BY <1>7, <2>1, <2>2, <2>3, <2>4, <2>5, <2>6, <2>7 DEF Throws
<1>8. ASSUME NEW d \in Tokens, Crash(d) PROVE TypeOK'
  BY <1>8, RunsStayRuns, StatementType, SpendingIsCounted
     DEF Crash, Unacknowledged, PCs
<1>9. ASSUME NEW d \in Tokens, Land(d) PROVE TypeOK'
  <2> run[d].attempt \in Nat
    BY DEF Run
  <2> QED BY <1>9, RowsStayRows, SpendingIsCounted DEF Land
<1>10. ASSUME NEW d \in Tokens, Vanish(d) PROVE TypeOK'
  BY <1>10 DEF Vanish
<1>11. CASE UNCHANGED vars
  BY <1>11 DEF vars
<1> QED BY <1>1, <1>2, <1>3, <1>4, <1>5, <1>6, <1>7, <1>8, <1>9, <1>10, <1>11 DEF Next

LEMMA InitTyped == Init => TypeOK
BY NoTokenAssumption
   DEF Init, TypeOK, JobRow, NewJobRow, Statuses, Entry, NoEntry, EntryStates,
       Run, NoRun, PCs, Outcomes, Verdicts

\* In every behaviour the variables keep their types.
THEOREM TypeCorrect == Spec => []TypeOK
BY InitTyped, TypeStep, PTL DEF Spec

-----------------------------------------------------------------------------
\* What the steps of a call do to the records of all calls.
LEMMA RunEffects ==
    ASSUME run \in [Tokens -> Run], NEW d \in Tokens
    PROVE  /\ \A pc : Goto(d, pc) =>
                  /\ run'[d].pc = pc
                  /\ run'[d].attempt = run[d].attempt
                  /\ \A e \in Tokens \ {d} : run'[e] = run[e]
           /\ \A o : Exit(d, o) =>
                  /\ run'[d].pc = "settling"
                  /\ run'[d].attempt = run[d].attempt
                  /\ \A e \in Tokens \ {d} : run'[e] = run[e]
           /\ \A v, o : Conclude(d, v, o) =>
                  /\ run'[d].pc = "recording"
                  /\ run'[d].attempt = run[d].attempt
                  /\ \A e \in Tokens \ {d} : run'[e] = run[e]
BY DEF Run, Goto, Exit, Conclude

\* What the guarded UPDATEs do to a row: a terminal row is left alone, and only
\* transitionToSucceeded, presenting the owner's token, names a result.
LEMMA RowEffects ==
    ASSUME NEW row \in JobRow, NEW t \in Tokens, NEW n \in Nat
    PROVE  /\ LET r == TransitionToRunning(row, t)
              IN  /\ row.status \in Terminal => r = row
                  /\ row.status \notin Terminal =>
                        r.status = "running" /\ r.runningToken = t
                  /\ r.resultToken = row.resultToken
                  /\ r.attempts = row.attempts
           /\ LET r == TransitionToRetrying(row, n, t)
              IN  /\ ~CanRetry(row, t) => r = row
                  /\ CanRetry(row, t) => r.status = "retrying" /\ r.attempts = n
                  /\ r.resultToken = row.resultToken
                  /\ r.runningToken = row.runningToken
           /\ LET r == TransitionToSucceeded(row, n, t)
              IN  /\ ~CanSucceed(row, t) => r = row
                  /\ CanSucceed(row, t) =>
                        r.status = "succeeded" /\ r.attempts = n /\ r.resultToken = t
                  /\ r.runningToken = row.runningToken
           /\ LET r == TransitionToFailed(row, n, t)
              IN  /\ ~CanFail(row, t) => r = row
                  /\ CanFail(row, t) => r.status = "failed" /\ r.attempts = n
                  /\ r.resultToken = row.resultToken
                  /\ r.runningToken = row.runningToken
BY DEF JobRow, Statuses, Terminal, CanRun, CanRetry, CanSucceed, CanFail,
       TransitionToRunning, TransitionToRetrying, TransitionToSucceeded, TransitionToFailed

-----------------------------------------------------------------------------
\* No step changes a terminal row.
LEMMA TerminalStep == TypeOK /\ [Next]_vars => (Done => UNCHANGED job)
<1> SUFFICES ASSUME TypeOK, [Next]_vars, Done PROVE job' = job
  OBVIOUS
<1> USE DEF TypeOK
<1>1. ASSUME NEW d \in Tokens, Proceed(d) PROVE job' = job
  <2> run[d].attempt \in Nat
    BY DEF Run
  <2>1. CASE Claim(d)
    BY <2>1, RowEffects DEF Claim, Done
  <2>2. CASE Finalize(d)
    BY <2>2, RowEffects DEF Finalize, Done, CanRetry, CanFail, Terminal
  <2>3. CASE Commit(d)
    BY <2>3, RowEffects DEF Commit, Done, CanSucceed
  <2> QED BY <1>1, <2>1, <2>2, <2>3
        DEF Proceed, Fetch, Recheck, Start, WriteFirst, WriteLast, FailTransiently,
            FailValidation, Discard, ResolveDoubt, ReadLatest, Record, Settle
<1>2. ASSUME NEW d \in Tokens, Land(d) PROVE job' = job
  <2> run[d].attempt \in Nat
    BY DEF Run
  <2> QED BY <1>2, RowEffects
        DEF Land, Done, CanRetry, CanSucceed, CanFail, Terminal
<1>3. ASSUME NEW d \in Tokens, Throws(d) \/ Crash(d) \/ Vanish(d) PROVE job' = job
  BY <1>3 DEF Throws, ReadThrows, UpdateThrows, StartThrows, CommitThrows, DoubtUnread,
              DiscardThrows, RecordThrows, Crash, Vanish
<1>4. CASE Dispatch \/ RollbackPublished \/ Queue \/ LockOfLiveExpires \/ Trim
  BY <1>4 DEF Dispatch, QueueAdd, CommitPublished, RollbackPublished, Queue,
              LockOfDeadExpires, RecoverStalled, Promote, Deliver, LockOfLiveExpires, Trim
<1>5. CASE UNCHANGED vars
  BY <1>5 DEF vars
<1> QED BY <1>1, <1>2, <1>3, <1>4, <1>5 DEF Next

\* Terminal states are protected from stale, duplicate and late statements.
THEOREM TerminalRowsAreFinal == Spec => TerminalFinal
<1>1. TypeOK /\ [Next]_vars => [Done => UNCHANGED job]_vars
  BY TerminalStep
<1> QED BY <1>1, TypeCorrect, PTL DEF Spec, TerminalFinal

\* A late delivery of a terminal job never works.
LEMMA InertStep ==
    ASSUME TypeOK, [Next]_vars, Done, NEW e \in Tokens,
           run[e].pc \in {"idle", "fetched", "claiming", "recheck"}
    PROVE  run'[e].pc \notin Unfinalized
<1> USE DEF TypeOK, Unfinalized
<1>1. CASE UNCHANGED run
  BY <1>1
<1>2. ASSUME NEW d \in Tokens, Deliver(d) PROVE run'[e].pc \notin Unfinalized
  <2>1. run'[d].pc = "fetched" /\ (e # d => run'[e] = run[e])
    BY <1>2 DEF Deliver, Run
  <2> QED BY <2>1
<1>3. ASSUME NEW d \in Tokens, Proceed(d) PROVE run'[e].pc \notin Unfinalized
  <2>1. CASE Fetch(d) \/ Recheck(d)
    BY <1>3, <2>1, RunEffects DEF Fetch, Recheck
  <2>2. CASE Claim(d)
    BY <2>2, RunEffects DEF Claim, CanRun, Done
  <2>3. CASE e # d \/ ~(Fetch(d) \/ Recheck(d) \/ Claim(d))
    BY <1>3, <2>3, RunEffects
       DEF Proceed, Fetch, Claim, Recheck, Start, WriteFirst, WriteLast, FailTransiently,
           FailValidation, Discard, Finalize, Commit, ResolveDoubt, ReadLatest, Record,
           Settle, Run
  <2> QED BY <2>1, <2>2, <2>3
<1>4. ASSUME NEW d \in Tokens, Throws(d) PROVE run'[e].pc \notin Unfinalized
  BY <1>4, RunEffects
     DEF Throws, ReadThrows, UpdateThrows, StartThrows, CommitThrows, DoubtUnread,
         DiscardThrows, RecordThrows
<1>5. ASSUME NEW d \in Tokens, Crash(d) PROVE run'[e].pc \notin Unfinalized
  BY <1>5, RunEffects DEF Crash
<1> QED BY <1>1, <1>2, <1>3, <1>4, <1>5
        DEF Next, Dispatch, QueueAdd, CommitPublished, RollbackPublished, Queue,
            LockOfDeadExpires, LockOfLiveExpires, RecoverStalled, Promote, Trim,
            Land, Vanish, vars

\* However many deliveries a finished job gets, none of them works on it.
THEOREM LateDeliveriesAreInert == Spec => DuplicateDeliveryInert
<1>1. TypeOK /\ [Next]_vars => [Done => \A d \in Tokens :
          run[d].pc \in {"idle", "fetched", "claiming", "recheck"}
              => run'[d].pc \notin Unfinalized]_vars
  BY InertStep
<1> QED BY <1>1, TypeCorrect, PTL DEF Spec, DuplicateDeliveryInert

-----------------------------------------------------------------------------
\* The invariant about files, strengthened by where the winner may stand.
SafeInv == TypeOK /\ WinnerInv /\ FilesInv

LEMMA SafeStep == SafeInv /\ [Next]_vars => SafeInv'
<1> SUFFICES ASSUME SafeInv, [Next]_vars PROVE WinnerInv' /\ FilesInv'
  BY TypeStep DEF SafeInv
<1> TypeOK /\ TypeOK'
  BY TypeStep DEF SafeInv
<1> WinnerInv /\ FilesInv
  BY DEF SafeInv
<1>1. ASSUME UNCHANGED <<job, run, inflight, dir>> PROVE WinnerInv' /\ FilesInv'
  BY <1>1 DEF WinnerInv, FilesInv, Done
<1>2. ASSUME NEW d \in Tokens, Deliver(d) PROVE WinnerInv' /\ FilesInv'
  BY <1>2 DEF Deliver, WinnerInv, FilesInv, Done, AfterCommit, TypeOK, Run, diskVars
<1>3. ASSUME NEW d \in Tokens, Proceed(d) PROVE WinnerInv' /\ FilesInv'
  <2> USE DEF WinnerInv, FilesInv, Done, AfterCommit, TypeOK, diskVars
  <2> run[d].attempt \in Nat
    BY DEF Run
  <2>1. CASE Fetch(d) \/ Recheck(d) \/ Start(d)
    BY <2>1, RunEffects DEF Fetch, Recheck, Start
  <2>2. CASE Claim(d)
    <3>1. /\ job'.resultToken = job.resultToken
          /\ Done => job' = job
          /\ ~Done => job'.status = "running"
      BY <2>2, RowEffects DEF Claim
    <3>2. /\ run'[d].pc \in {"starting", "recheck"}
          /\ \A e \in Tokens \ {d} : run'[e] = run[e]
      BY <2>2, RunEffects DEF Claim
    <3> QED BY <2>2, <3>1, <3>2 DEF Claim, Terminal
  <2>3. CASE WriteFirst(d) \/ WriteLast(d)
    BY <2>3, RunEffects DEF WriteFirst, WriteLast
  <2>4. CASE FailTransiently(d) \/ FailValidation(d)
    <3> PICK o : run' = [run EXCEPT ![d] = [@ EXCEPT !.pc = "faulted", !.outcome = o]]
      BY <2>4 DEF FailTransiently, FailValidation
    <3>1. /\ run'[d].pc = "faulted"
          /\ \A e \in Tokens \ {d} : run'[e] = run[e]
      BY DEF Run
    <3> QED BY <2>4, <3>1 DEF FailTransiently, FailValidation
  <2>5. CASE Discard(d)
    <3>1. /\ run[d].pc \in {"faulted", "lost"} =>
                run'[d].pc \in {"finalizing", "lostread"}
          /\ run[d].pc = "outvoted" => run'[d].pc = "recording"
          /\ \A e \in Tokens \ {d} : run'[e] = run[e]
      BY <2>5, RunEffects DEF Discard
    <3>2. /\ dir'[d] = "none"
          /\ \A e \in Tokens \ {d} : dir'[e] = dir[e]
      BY <2>5 DEF Discard
    <3> QED BY <2>5, <3>1, <3>2 DEF Discard
  <2>6. CASE Finalize(d)
    <3>1. /\ job'.resultToken = job.resultToken
          /\ job'.status = "succeeded" <=> job.status = "succeeded"
          /\ Done => Done'
      BY <2>6, RowEffects DEF Finalize, CanRetry, CanFail, Terminal
    <3>2. /\ run'[d].pc = "recording"
          /\ \A e \in Tokens \ {d} : run'[e] = run[e]
      BY <2>6, RunEffects DEF Finalize
    <3> QED BY <2>6, <3>1, <3>2 DEF Finalize
  <2>7. CASE Commit(d)
    <3>1. /\ CanSucceed(job, d) =>
                job'.status = "succeeded" /\ job'.resultToken = d /\ run'[d].pc = "recording"
          /\ ~CanSucceed(job, d) => job' = job /\ run'[d].pc = "lost"
          /\ \A e \in Tokens \ {d} : run'[e] = run[e]
      BY <2>7, RowEffects, RunEffects DEF Commit
    <3>2. CanSucceed(job, d) => ~Done
      BY DEF CanSucceed
    <3> QED BY <2>7, <3>1, <3>2, NoTokenAssumption DEF Commit, Terminal
  <2>8. CASE ResolveDoubt(d)
    BY <2>8, RunEffects, NoTokenAssumption DEF ResolveDoubt
  <2>9. CASE ReadLatest(d) \/ Record(d) \/ Settle(d)
    BY <2>9, RunEffects DEF ReadLatest, Record, Settle
  <2> QED BY <1>3, <2>1, <2>2, <2>3, <2>4, <2>5, <2>6, <2>7, <2>8, <2>9 DEF Proceed
<1>4. ASSUME NEW d \in Tokens, Throws(d) PROVE WinnerInv' /\ FilesInv'
  <2> USE RunEffects DEF WinnerInv, FilesInv, Done, AfterCommit, TypeOK, diskVars
  <2>1. CASE ReadThrows(d) \/ StartThrows(d) \/ DoubtUnread(d) \/ RecordThrows(d)
    BY <2>1 DEF ReadThrows, StartThrows, DoubtUnread, RecordThrows
  <2>2. CASE UpdateThrows(d)
    BY <2>2 DEF UpdateThrows, Unacknowledged, Statement
  <2>3. CASE CommitThrows(d)
    BY <2>3 DEF CommitThrows, Unacknowledged, Statement
  <2>4. CASE DiscardThrows(d)
    BY <2>4 DEF DiscardThrows
  <2> QED BY <1>4, <2>1, <2>2, <2>3, <2>4 DEF Throws
<1>5. ASSUME NEW d \in Tokens, Crash(d) PROVE WinnerInv' /\ FilesInv'
  BY <1>5, RunEffects
     DEF Crash, Unacknowledged, Statement, WinnerInv, FilesInv, Done, AfterCommit,
         TypeOK, diskVars
<1>6. ASSUME NEW d \in Tokens, Land(d) PROVE WinnerInv' /\ FilesInv'
  <2> run[d].attempt \in Nat
    BY DEF TypeOK, Run
  <2> QED BY <1>6, RowEffects, NoTokenAssumption
        DEF Land, WinnerInv, FilesInv, Done, AfterCommit, TypeOK, diskVars,
            CanRetry, CanSucceed, CanFail, Terminal
<1>7. ASSUME NEW d \in Tokens, Vanish(d) PROVE WinnerInv' /\ FilesInv'
  BY <1>7 DEF Vanish, WinnerInv, FilesInv, Done, TypeOK, diskVars
<1>8. CASE Dispatch \/ RollbackPublished \/ LockOfDeadExpires \/ RecoverStalled
           \/ Promote \/ LockOfLiveExpires \/ Trim \/ UNCHANGED vars
  BY <1>1, <1>8
     DEF Dispatch, QueueAdd, CommitPublished, RollbackPublished, LockOfDeadExpires,
         RecoverStalled, Promote, LockOfLiveExpires, Trim, diskVars, vars
<1> QED BY <1>2, <1>3, <1>4, <1>5, <1>6, <1>7, <1>8 DEF Next, Queue

LEMMA SafeInvHolds == Spec => []SafeInv
<1>1. Init => SafeInv
  <2>1. Init => TypeOK
    BY InitTyped
  <2>2. Init => WinnerInv /\ FilesInv
    BY NoTokenAssumption DEF Init, WinnerInv, FilesInv, NewJobRow, NoRun
  <2> QED BY <2>1, <2>2 DEF SafeInv
<1> QED BY <1>1, SafeStep, PTL DEF Spec

LEMMA SafeImpliesIntact == SafeInv => PublishedIntact
BY DEF SafeInv, WinnerInv, FilesInv, PublishedIntact, TypeOK, JobRow

\* However attempts overlap, crash, stall or lose acknowledgments, the files of a
\* succeeded job are there.
THEOREM PublishedFilesSurvive == Spec => []PublishedIntact
BY SafeInvHolds, SafeImpliesIntact, PTL

-----------------------------------------------------------------------------
\* When the row leaves `running`, its owner's statement moved it.
LEMMA OwnerStep ==
    TypeOK /\ [Next]_vars =>
        LET owner == job.runningToken
        IN  job' # job /\ job'.status # "running"
              => job'.status \in {inflight[owner], Statement(owner)}
<1> SUFFICES ASSUME TypeOK, [Next]_vars, job' # job, job'.status # "running"
             PROVE  job'.status \in {inflight[job.runningToken], Statement(job.runningToken)}
  OBVIOUS
<1> USE DEF TypeOK
<1> DEFINE Goal == job'.status \in {inflight[job.runningToken], Statement(job.runningToken)}
<1>1. ASSUME NEW d \in Tokens, Proceed(d) PROVE Goal
  <2> run[d].attempt \in Nat
    BY DEF Run
  <2>1. CASE Claim(d)
    BY <2>1, RowEffects DEF Claim
  <2>2. CASE Finalize(d)
    BY <2>2, RowEffects DEF Finalize, CanRetry, CanFail, Statement
  <2>3. CASE Commit(d)
    BY <2>3, RowEffects DEF Commit, CanSucceed, Statement
  <2> QED BY <1>1, <2>1, <2>2, <2>3
        DEF Proceed, Fetch, Recheck, Start, WriteFirst, WriteLast, FailTransiently,
            FailValidation, Discard, ResolveDoubt, ReadLatest, Record, Settle
<1>2. ASSUME NEW d \in Tokens, Land(d) PROVE Goal
  <2> run[d].attempt \in Nat
    BY DEF Run
  <2> QED BY <1>2, RowEffects DEF Land, CanRetry, CanSucceed, CanFail
<1>3. ASSUME NEW d \in Tokens, Throws(d) \/ Crash(d) \/ Vanish(d) PROVE FALSE
  BY <1>3 DEF Throws, ReadThrows, UpdateThrows, StartThrows, CommitThrows, DoubtUnread,
              DiscardThrows, RecordThrows, Crash, Vanish
<1>4. ~(Dispatch \/ RollbackPublished \/ Queue \/ LockOfLiveExpires \/ Trim)
  BY DEF Dispatch, QueueAdd, CommitPublished, RollbackPublished, Queue,
         LockOfDeadExpires, RecoverStalled, Promote, Deliver, LockOfLiveExpires, Trim
<1>5. ~UNCHANGED vars
  BY DEF vars
<1> QED BY <1>1, <1>2, <1>3, <1>4, <1>5 DEF Next

\* A superseded attempt never decides the outcome.
THEOREM OnlyOwnersDecide == Spec => OwnerDecides
<1>1. TypeOK /\ [Next]_vars =>
        [LET owner == job.runningToken
         IN  job' # job /\ job'.status # "running"
               => job'.status \in {inflight[owner], Statement(owner)}]_vars
  BY OwnerStep
<1> QED BY <1>1, TypeCorrect, PTL DEF Spec, OwnerDecides

-----------------------------------------------------------------------------
\* Who may still finalize, and that the row is `running` while its owner may.
LEMMA OwnershipStep == TypeOK /\ OwnershipInv /\ [Next]_vars => OwnershipInv'
<1> SUFFICES ASSUME TypeOK, OwnershipInv, [Next]_vars PROVE OwnershipInv'
  OBVIOUS
<1> TypeOK'
  BY TypeStep
<1> USE DEF TypeOK, OwnershipInv, YetToFinalize, Unfinalized, Done
<1>1. ASSUME UNCHANGED <<job, run, inflight>> PROVE OwnershipInv'
  BY <1>1
<1>2. ASSUME NEW d \in Tokens, Deliver(d) PROVE OwnershipInv'
  BY <1>2 DEF Deliver, Run
<1>3. ASSUME NEW d \in Tokens, Proceed(d) PROVE OwnershipInv'
  <2> run[d].attempt \in Nat
    BY DEF Run
  <2>1. CASE Fetch(d) \/ Recheck(d) \/ Start(d)
    BY <2>1, RunEffects DEF Fetch, Recheck, Start
  <2>2. CASE Claim(d)
    <3>1. /\ Done => job' = job
          /\ ~Done => job'.status = "running" /\ job'.runningToken = d
      BY <2>2, RowEffects DEF Claim
    <3>2. /\ run'[d].pc = IF Done THEN "recheck" ELSE "starting"
          /\ \A e \in Tokens \ {d} : run'[e] = run[e]
      BY <2>2, RunEffects DEF Claim, CanRun
    <3>3. inflight' = inflight
      BY <2>2 DEF Claim
    <3> QED BY <2>2, <3>1, <3>2, <3>3 DEF Claim, Terminal
  <2>3. CASE WriteFirst(d) \/ WriteLast(d)
    BY <2>3, RunEffects DEF WriteFirst, WriteLast
  <2>4. CASE FailTransiently(d) \/ FailValidation(d)
    <3> PICK o : run' = [run EXCEPT ![d] = [@ EXCEPT !.pc = "faulted", !.outcome = o]]
      BY <2>4 DEF FailTransiently, FailValidation
    <3>1. /\ run'[d].pc = "faulted"
          /\ \A e \in Tokens \ {d} : run'[e] = run[e]
      BY DEF Run
    <3> QED BY <2>4, <3>1 DEF FailTransiently, FailValidation
  <2>5. CASE Discard(d)
    BY <2>5, RunEffects DEF Discard
  <2>6. CASE Finalize(d) \/ Commit(d)
    <3>1. /\ job'.runningToken = job.runningToken
          /\ job.runningToken # d => job' = job
          /\ Done => job' = job
      BY <2>6, RowEffects DEF Finalize, Commit, CanRetry, CanFail, CanSucceed, Terminal
    <3>2. /\ run'[d].pc \in {"recording", "lost"}
          /\ \A e \in Tokens \ {d} : run'[e] = run[e]
      BY <2>6, RunEffects DEF Finalize, Commit
    <3>3. inflight' = inflight /\ inflight[d] = "none"
      BY <2>6 DEF Finalize, Commit
    <3> QED BY <3>1, <3>2, <3>3
  <2>7. CASE ResolveDoubt(d) \/ ReadLatest(d) \/ Record(d) \/ Settle(d)
    BY <2>7, RunEffects DEF ResolveDoubt, ReadLatest, Record, Settle
  <2> QED BY <1>3, <2>1, <2>2, <2>3, <2>4, <2>5, <2>6, <2>7 DEF Proceed
<1>4. ASSUME NEW d \in Tokens, Throws(d) PROVE OwnershipInv'
  <2> USE RunEffects
  <2>1. CASE ReadThrows(d) \/ StartThrows(d) \/ DoubtUnread(d) \/ RecordThrows(d)
    BY <2>1 DEF ReadThrows, StartThrows, DoubtUnread, RecordThrows
  <2>2. CASE UpdateThrows(d)
    BY <2>2 DEF UpdateThrows, Unacknowledged, Statement
  <2>3. CASE CommitThrows(d)
    BY <2>3 DEF CommitThrows, Unacknowledged, Statement
  <2>4. CASE DiscardThrows(d)
    BY <2>4 DEF DiscardThrows
  <2> QED BY <1>4, <2>1, <2>2, <2>3, <2>4 DEF Throws
<1>5. ASSUME NEW d \in Tokens, Crash(d) PROVE OwnershipInv'
  BY <1>5, RunEffects DEF Crash, Unacknowledged, Statement
<1>6. ASSUME NEW d \in Tokens, Land(d) PROVE OwnershipInv'
  <2> run[d].attempt \in Nat
    BY DEF Run
  <2>1. Done => job' = job
    BY <1>6, RowEffects DEF Land, CanRetry, CanSucceed, CanFail, Terminal
  <2>2. \/ job'.status = "running" /\ job'.runningToken = d
        \/ job' = job
        \/ job'.runningToken = job.runningToken /\ job.runningToken = d
    BY <1>6, RowEffects DEF Land, CanRetry, CanSucceed, CanFail
  <2>3. /\ run' = run
        /\ inflight[d] # "none" /\ inflight'[d] = "none"
        /\ \A e \in Tokens \ {d} : inflight'[e] = inflight[e]
    BY <1>6 DEF Land
  <2> QED BY <2>1, <2>2, <2>3
<1>7. ASSUME NEW d \in Tokens, Vanish(d) PROVE OwnershipInv'
  BY <1>7 DEF Vanish
<1>8. CASE Dispatch \/ RollbackPublished \/ LockOfDeadExpires \/ RecoverStalled
           \/ Promote \/ LockOfLiveExpires \/ Trim \/ UNCHANGED vars
  BY <1>1, <1>8
     DEF Dispatch, QueueAdd, CommitPublished, RollbackPublished, LockOfDeadExpires,
         RecoverStalled, Promote, LockOfLiveExpires, Trim, diskVars, vars
<1> QED BY <1>2, <1>3, <1>4, <1>5, <1>6, <1>7, <1>8 DEF Next, Queue

-----------------------------------------------------------------------------
\* A call keeps the attempt number it was delivered with.
LEMMA AttemptsKept ==
    ASSUME TypeOK, NEW d \in Tokens, Proceed(d) \/ Throws(d) \/ Crash(d)
    PROVE  \A e \in Tokens : /\ run'[e].attempt = run[e].attempt
                             /\ run[e].pc = "idle" => run'[e].pc = "idle"
<1> USE DEF TypeOK
<1>1. CASE FailTransiently(d) \/ FailValidation(d)
  <2> PICK o : run' = [run EXCEPT ![d] = [@ EXCEPT !.pc = "faulted", !.outcome = o]]
    BY <1>1 DEF FailTransiently, FailValidation
  <2> QED BY <1>1 DEF Run, FailTransiently, FailValidation
<1>2. CASE Fetch(d) \/ Claim(d) \/ Recheck(d) \/ Start(d) \/ WriteFirst(d) \/ WriteLast(d)
  BY <1>2, RunEffects DEF Fetch, Claim, Recheck, Start, WriteFirst, WriteLast
<1>3. CASE Discard(d) \/ Finalize(d) \/ Commit(d) \/ ResolveDoubt(d) \/ ReadLatest(d)
           \/ Record(d) \/ Settle(d)
  BY <1>3, RunEffects
     DEF Discard, Finalize, Commit, ResolveDoubt, ReadLatest, Record, Settle
<1>4. CASE Throws(d)
  BY <1>4, RunEffects
     DEF Throws, ReadThrows, UpdateThrows, StartThrows, CommitThrows, DoubtUnread,
         DiscardThrows, RecordThrows
<1>5. CASE Crash(d)
  BY <1>5, RunEffects DEF Crash, Live
<1> QED BY <1>1, <1>2, <1>3, <1>4, <1>5 DEF Proceed

\* BullMQ never starts an attempt beyond its `attempts`.
LEMMA AttemptStep == TypeOK /\ AttemptInv /\ [Next]_vars => AttemptInv'
<1> SUFFICES ASSUME TypeOK, AttemptInv, [Next]_vars PROVE AttemptInv'
  OBVIOUS
<1> QueueAttempts \in Nat \ {0}
  BY ProcessingAssumption
<1> USE DEF TypeOK, AttemptInv
<1> entry.made \in Nat
  BY DEF Entry
<1>1. CASE Dispatch \/ RollbackPublished \/ LockOfDeadExpires \/ RecoverStalled
           \/ Promote \/ LockOfLiveExpires \/ Trim
  <2>1. run' = run
    BY <1>1 DEF Dispatch, QueueAdd, CommitPublished, RollbackPublished,
                LockOfDeadExpires, RecoverStalled, Promote, LockOfLiveExpires, Trim
  <2> DEFINE Moves == \/ entry'.state = entry.state /\ entry'.made = entry.made
                      \/ entry'.made = 0
                      \/ entry.state \in {"active", "delayed"} /\ entry'.made = entry.made
  <2>2. ASSUME QueueAdd \/ Trim PROVE Moves
    BY <2>2 DEF QueueAdd, Trim, NoEntry
  <2>3. ASSUME LockOfDeadExpires \/ LockOfLiveExpires \/ Promote PROVE Moves
    BY <2>3 DEF LockOfDeadExpires, LockOfLiveExpires, Promote, Entry
  <2>4. ASSUME RecoverStalled PROVE Moves
    BY <2>4 DEF RecoverStalled, Entry
  <2>5. ASSUME CommitPublished \/ RollbackPublished PROVE Moves
    BY <2>5 DEF CommitPublished, RollbackPublished
  <2>6. Moves
    BY <1>1, <2>2, <2>3, <2>4, <2>5 DEF Dispatch
  <2> QED BY <2>1, <2>6
<1>2. ASSUME NEW d \in Tokens, Deliver(d) PROVE AttemptInv'
  <2>1. /\ entry'.made = entry.made
        /\ entry.state = "waiting"
        /\ run'[d].attempt = entry.made + 1
        /\ \A e \in Tokens \ {d} : run'[e] = run[e]
    BY <1>2 DEF Deliver, Entry, Run
  <2> QED BY <2>1
<1>3. ASSUME NEW d \in Tokens, Proceed(d) \/ Throws(d) \/ Crash(d) PROVE AttemptInv'
  <2>1. \A e \in Tokens : run'[e].pc # "idle" => run'[e].attempt \in 1 .. QueueAttempts
    BY <1>3, AttemptsKept
  <2>2. CASE Settle(d) /\ HoldsLock(d)
    <3>1. /\ entry'.made = entry.made + 1
          /\ entry'.state \in {"completed", "failed", "delayed"}
          /\ entry'.state = "delayed" => entry.made + 1 < QueueAttempts
      BY <2>2 DEF Settle, SettledEntry, Entry
    <3> QED BY <2>1, <3>1
  <2>3. CASE ~(Settle(d) /\ HoldsLock(d))
    <3>1. entry' = entry
      BY <1>3, <2>3
         DEF Proceed, Fetch, Claim, Recheck, Start, WriteFirst, WriteLast,
             FailTransiently, FailValidation, Discard, Finalize, Commit, ResolveDoubt,
             ReadLatest, Record, Settle, Throws, ReadThrows, UpdateThrows, StartThrows,
             CommitThrows, DoubtUnread, DiscardThrows, RecordThrows, Crash, queueVars
    <3> QED BY <2>1, <3>1
  <2> QED BY <2>2, <2>3
<1>4. ASSUME NEW d \in Tokens, Land(d) \/ Vanish(d) PROVE AttemptInv'
  BY <1>4 DEF Land, Vanish, queueVars
<1>5. CASE UNCHANGED vars
  BY <1>5 DEF vars
<1> QED BY <1>1, <1>2, <1>3, <1>4, <1>5 DEF Next, Queue

\* The whole inductive invariant.
LEMMA IInvHolds == Spec => []IInv
<1>1. Init => IInv
  <2>1. Init => SafeInv
    <3>1. Init => TypeOK
      BY InitTyped
    <3>2. Init => WinnerInv /\ FilesInv
      BY NoTokenAssumption DEF Init, WinnerInv, FilesInv, NewJobRow, NoRun
    <3> QED BY <3>1, <3>2 DEF SafeInv
  <2>2. Init => OwnershipInv /\ AttemptInv
    BY NoTokenAssumption, ProcessingAssumption
       DEF Init, OwnershipInv, AttemptInv, YetToFinalize, Unfinalized, NewJobRow, NoRun, NoEntry
  <2> QED BY <2>1, <2>2 DEF IInv, SafeInv
<1>2. IInv /\ [Next]_vars => IInv'
  BY SafeStep, OwnershipStep, AttemptStep DEF IInv, SafeInv
<1> QED BY <1>1, <1>2, PTL DEF Spec

-----------------------------------------------------------------------------
\* A valid image is never rejected, and an attempt that fails it for good was the last.
PatienceInv ==
    upload = "image" =>
        /\ \A d \in Tokens :
              /\ run[d].outcome # "unrecoverable"
              /\ inflight[d] = "failed" => run[d].attempt >= MaxAttempts
        /\ job.status = "failed" => job.attempts >= MaxAttempts

\* Only the validation of the bytes makes an outcome unrecoverable.
LEMMA OutcomesKept ==
    ASSUME TypeOK, upload = "image", NEW d \in Tokens, run[d].outcome # "unrecoverable",
           Proceed(d) \/ Throws(d) \/ Crash(d)
    PROVE  /\ run'[d].outcome # "unrecoverable"
           /\ \A e \in Tokens \ {d} : run'[e] = run[e]
<1> USE DEF TypeOK, Run
<1> DEFINE Kept == /\ run'[d].outcome # "unrecoverable"
                   /\ \A e \in Tokens \ {d} : run'[e] = run[e]
<1>1. \/ run' = run
      \/ \E pc \in PCs : Goto(d, pc)
      \/ \E o \in {"completed", "error", run[d].outcome} : \/ Exit(d, o)
                                                          \/ \E v \in Verdicts : Conclude(d, v, o)
      \/ run' = [run EXCEPT ![d] = [@ EXCEPT !.pc = "faulted", !.outcome = "error"]]
  <2> USE DEF PCs, Verdicts
  <2>1. CASE Proceed(d)
    BY <2>1 DEF Proceed, Fetch, Claim, Recheck, Start, WriteFirst, WriteLast,
         FailTransiently, FailValidation, Discard, Finalize, Commit, ResolveDoubt,
         ReadLatest, Record, Settle
  <2>2. CASE Throws(d) \/ Crash(d)
    BY <2>2 DEF Throws, ReadThrows, UpdateThrows, StartThrows, CommitThrows, DoubtUnread,
         DiscardThrows, RecordThrows, Crash
  <2> QED BY <2>1, <2>2
<1>2. CASE run' = run
  BY <1>2
<1>3. ASSUME NEW pc \in PCs, Goto(d, pc) PROVE Kept
  BY <1>3 DEF Goto
<1>4. ASSUME NEW o \in {"completed", "error", run[d].outcome}, Exit(d, o) PROVE Kept
  BY <1>4 DEF Exit
<1>5. ASSUME NEW o \in {"completed", "error", run[d].outcome}, NEW v \in Verdicts,
             Conclude(d, v, o)
      PROVE  Kept
  BY <1>5 DEF Conclude
<1>6. CASE run' = [run EXCEPT ![d] = [@ EXCEPT !.pc = "faulted", !.outcome = "error"]]
  BY <1>6
<1> QED BY <1>1, <1>2, <1>3, <1>4, <1>5, <1>6

LEMMA PatienceStep == IInv /\ PatienceInv /\ [Next]_vars => PatienceInv'
<1> SUFFICES ASSUME IInv, PatienceInv, [Next]_vars, upload' = "image" PROVE PatienceInv'
  BY DEF PatienceInv
<1> TypeOK
  BY DEF IInv
<1>1. upload = "image"
  <2>1. ASSUME NEW d \in Tokens, Proceed(d) PROVE upload' = upload
    BY <2>1
       DEF Proceed, Fetch, Claim, Recheck, Start, WriteFirst, WriteLast, FailTransiently,
           FailValidation, Discard, Finalize, Commit, ResolveDoubt, ReadLatest, Record,
           Settle, diskVars
  <2>2. ASSUME NEW d \in Tokens, Throws(d) \/ Crash(d) \/ Land(d) \/ Vanish(d)
        PROVE  upload' = upload
    BY <2>2
       DEF Throws, ReadThrows, UpdateThrows, StartThrows, CommitThrows, DoubtUnread,
           DiscardThrows, RecordThrows, Crash, Land, Vanish, diskVars
  <2>3. CASE Dispatch \/ RollbackPublished \/ LockOfDeadExpires \/ RecoverStalled
             \/ Promote \/ LockOfLiveExpires \/ Trim \/ UNCHANGED vars
    BY <2>3
       DEF Dispatch, QueueAdd, CommitPublished, RollbackPublished, LockOfDeadExpires,
           RecoverStalled, Promote, LockOfLiveExpires, Trim, diskVars, vars
  <2>4. ASSUME NEW d \in Tokens, Deliver(d) PROVE upload' = upload
    BY <2>4 DEF Deliver, diskVars
  <2> QED BY <2>1, <2>2, <2>3, <2>4 DEF Next, Queue
<1>2. \A d \in Tokens : /\ run[d].outcome # "unrecoverable"
                        /\ run[d].attempt \in Nat
                        /\ inflight[d] = "failed" => run[d].attempt >= MaxAttempts
  BY <1>1 DEF PatienceInv, TypeOK, Run
<1>3. job.status = "failed" => job.attempts >= MaxAttempts
  BY <1>1 DEF PatienceInv
<1>4. ASSUME UNCHANGED <<job, run, inflight>> PROVE PatienceInv'
  BY <1>2, <1>3, <1>4 DEF PatienceInv
<1>5. ASSUME NEW d \in Tokens, Deliver(d) PROVE PatienceInv'
  <2>1. /\ run[d].pc = "idle"
        /\ run'[d].outcome = run[d].outcome
        /\ \A e \in Tokens \ {d} : run'[e] = run[e]
        /\ UNCHANGED <<job, inflight>>
    BY <1>5 DEF Deliver, TypeOK, Run
  <2>2. inflight[d] = "none"
    BY <2>1 DEF IInv, OwnershipInv
  <2> QED BY <1>2, <1>3, <2>1, <2>2 DEF PatienceInv
<1>6. ASSUME NEW d \in Tokens, Proceed(d) \/ Throws(d) \/ Crash(d) PROVE PatienceInv'
  <2>1. \A e \in Tokens : /\ run'[e].attempt = run[e].attempt
                          /\ run'[e].outcome # "unrecoverable"
    BY <1>1, <1>2, <1>6, AttemptsKept, OutcomesKept
  <2>2. Statement(d) = "failed" => run[d].attempt >= MaxAttempts
    BY <1>2 DEF Statement, GivesUp
  <2>3. \A e \in Tokens : inflight'[e] = "failed" => run[e].attempt >= MaxAttempts
    <3>1. inflight' \in {inflight, [inflight EXCEPT ![d] = Statement(d)]}
      BY <1>6 DEF Proceed, Fetch, Claim, Recheck, Start, WriteFirst, WriteLast,
         FailTransiently, FailValidation, Discard, Finalize, Commit, ResolveDoubt,
         ReadLatest, Record, Settle, Throws, ReadThrows, UpdateThrows, StartThrows,
         CommitThrows, DoubtUnread, DiscardThrows, RecordThrows, Crash, Unacknowledged
    <3> QED BY <1>2, <2>2, <3>1 DEF TypeOK
  <2>4. job'.status = "failed" => job'.attempts >= MaxAttempts
    <3> job \in JobRow /\ run[d].attempt \in Nat
      BY <1>2 DEF TypeOK
    <3>1. CASE Claim(d)
      BY <1>3, <3>1, RowEffects DEF Claim
    <3>2. CASE Finalize(d)
      BY <1>2, <1>3, <3>2, RowEffects DEF Finalize, GivesUp
    <3>3. CASE Commit(d)
      BY <1>3, <3>3, RowEffects DEF Commit
    <3>4. CASE job' = job
      BY <1>3, <3>4
    <3> QED BY <1>6, <3>1, <3>2, <3>3, <3>4
         DEF Proceed, Fetch, Recheck, Start, WriteFirst, WriteLast, FailTransiently,
             FailValidation, Discard, ResolveDoubt, ReadLatest, Record, Settle, Throws,
             ReadThrows, UpdateThrows, StartThrows, CommitThrows, DoubtUnread,
             DiscardThrows, RecordThrows, Crash
  <2> QED BY <2>1, <2>3, <2>4 DEF PatienceInv
<1>7. ASSUME NEW d \in Tokens, Land(d) \/ Vanish(d) PROVE PatienceInv'
  <2> job \in JobRow /\ run[d].attempt \in Nat
    BY <1>2 DEF TypeOK
  <2>1. /\ run' = run
        /\ \A e \in Tokens : inflight'[e] \in {inflight[e], "none"}
    BY <1>7 DEF Land, Vanish, TypeOK
  <2>2. CASE Land(d)
    <3>1. CASE inflight[d] = "failed"
      <4>1. job' = TransitionToFailed(job, run[d].attempt, d)
        BY <2>2, <3>1 DEF Land
      <4> QED BY <1>2, <1>3, <2>1, <3>1, <4>1, RowEffects DEF PatienceInv
    <3>2. CASE inflight[d] # "failed"
      <4>1. \/ job' = TransitionToRunning(job, d)
            \/ job' = TransitionToRetrying(job, run[d].attempt, d)
            \/ job' = TransitionToSucceeded(job, run[d].attempt, d)
        BY <2>2, <3>2 DEF Land, TypeOK
      <4> QED BY <1>2, <1>3, <2>1, <4>1, RowEffects DEF PatienceInv
    <3> QED BY <3>1, <3>2
  <2>3. CASE Vanish(d)
    BY <1>2, <1>3, <2>1, <2>3 DEF Vanish, PatienceInv
  <2> QED BY <1>7, <2>2, <2>3
<1>8. CASE Dispatch \/ RollbackPublished \/ LockOfDeadExpires \/ RecoverStalled \/ Promote
           \/ LockOfLiveExpires \/ Trim \/ UNCHANGED vars
  BY <1>4, <1>8
     DEF Dispatch, QueueAdd, CommitPublished, RollbackPublished, LockOfDeadExpires,
         RecoverStalled, Promote, LockOfLiveExpires, Trim, vars
<1> QED BY <1>5, <1>6, <1>7, <1>8 DEF Next, Queue

\* However attempts overlap and lose statements, a valid image fails only at the end
\* of its attempts.
THEOREM FailuresAreExhausted == Spec => []NoPrematureFailure
<1>1. Init => PatienceInv
  BY DEF Init, PatienceInv, NewJobRow, NoRun
<1>2. PatienceInv => NoPrematureFailure
  BY DEF PatienceInv, NoPrematureFailure
<1> QED BY <1>1, <1>2, PatienceStep, IInvHolds, PTL DEF Spec

-----------------------------------------------------------------------------
\* Faults are only ever counted up: that none of a kind has happened holds of every
\* earlier state too.
LEMMA FaultsOnlyGrow ==
    ASSUME TypeOK, [Next]_vars
    PROVE  /\ \A k \in FaultKinds : faults[k] \in Nat /\ faults'[k] \in Nat
           /\ \A k \in FaultKinds : faults[k] <= faults'[k]
           /\ \A k \in FaultKinds : Spend(k) => faults'[k] = faults[k] + 1
<1> USE DEF TypeOK
<1> DEFINE Counted == UNCHANGED faults \/ \E k \in FaultKinds : Spend(k)
<1>1. ASSUME NEW d \in Tokens, Proceed(d) PROVE Counted
  BY <1>1
     DEF Proceed, Fetch, Claim, Recheck, Start, WriteFirst, WriteLast, FailTransiently,
         FailValidation, Discard, Finalize, Commit, ResolveDoubt, ReadLatest, Record,
         Settle
<1>2. ASSUME NEW d \in Tokens, Throws(d) \/ Crash(d) \/ Land(d) \/ Vanish(d) PROVE Counted
  BY <1>2
     DEF Throws, ReadThrows, UpdateThrows, StartThrows, CommitThrows, DoubtUnread,
         DiscardThrows, RecordThrows, Crash, Land, Vanish, FaultKinds
<1>3. ASSUME Dispatch \/ RollbackPublished \/ LockOfDeadExpires \/ RecoverStalled
             \/ Promote \/ LockOfLiveExpires \/ Trim \/ UNCHANGED vars
      PROVE  Counted
  BY <1>3
     DEF Dispatch, QueueAdd, CommitPublished, RollbackPublished, LockOfDeadExpires,
         RecoverStalled, Promote, LockOfLiveExpires, Trim, vars, FaultKinds
<1>4. ASSUME NEW d \in Tokens, Deliver(d) PROVE Counted
  BY <1>4 DEF Deliver
<1>5. Counted
  BY <1>1, <1>2, <1>3, <1>4 DEF Next, Queue
<1>6. ASSUME NEW k \in FaultKinds, Spend(k)
      PROVE  /\ faults'[k] = faults[k] + 1
             /\ \A j \in FaultKinds \ {k} : faults'[j] = faults[j]
  BY <1>6 DEF Spend
<1>7. \A k \in FaultKinds : faults[k] \in Nat
  OBVIOUS
<1> QED BY <1>5, <1>6, <1>7

-----------------------------------------------------------------------------
\* Where an attempt may hold files that are not the published result, while no
\* operation throws.
Holding == {"working", "faulted", "committing", "lost", "outvoted", "crashed"}

TidyInv ==
    \A d \in Tokens : /\ run[d].pc # "doubt"
                      /\ dir[d] # "none" => job.resultToken = d \/ run[d].pc \in Holding

LEMMA ErrorsCount ==
    ASSUME TypeOK, [Next]_vars, faults'["error"] = 0
    PROVE  ~Spend("error") /\ faults["error"] = 0
BY FaultsOnlyGrow DEF FaultKinds

LEMMA InitTidy == Init => TidyInv
<1>1. ASSUME Init, NEW d \in Tokens PROVE run[d].pc # "doubt" /\ dir[d] = "none"
  <2>1. run = [e \in Tokens |-> NoRun]
    BY <1>1 DEF Init
  <2>2. run[d] = NoRun
    BY <2>1
  <2>3. run[d].pc = "idle"
    BY <2>2 DEF NoRun
  <2>4. dir[d] = "none"
    BY <1>1 DEF Init
  <2> QED BY <2>3, <2>4
<1>2. (\A d \in Tokens : run[d].pc # "doubt" /\ dir[d] = "none") => TidyInv
  BY Zenon DEF TidyInv
<1> QED BY <1>1, <1>2

LEMMA FaultedEffects ==
    ASSUME TypeOK, NEW d \in Tokens, FailTransiently(d) \/ FailValidation(d)
    PROVE  /\ run[d].pc = "working" /\ run'[d].pc = "faulted"
           /\ run'[d].outcome \in {"error", "unrecoverable"}
           /\ \A e \in Tokens \ {d} : run'[e] = run[e]
           /\ UNCHANGED <<dir, job>>
<1> USE DEF TypeOK
<1>1. CASE FailTransiently(d)
  BY <1>1 DEF FailTransiently, Run, diskVars
<1>2. CASE FailValidation(d)
  BY <1>2 DEF FailValidation, Run, diskVars
<1> QED BY <1>1, <1>2

LEMMA TidyStep ==
    ASSUME IInv, TidyInv, [Next]_vars, faults'["error"] = 0
    PROVE  TidyInv'
<1> TypeOK
  BY DEF IInv
\* A result, once named, stays.
<1>1. \A d \in Tokens : job.resultToken = d => job'.resultToken = d
  BY NoTokenAssumption, TerminalStep DEF IInv, WinnerInv, Done, Terminal
<1>2. ASSUME UNCHANGED <<run, dir>> PROVE TidyInv'
  BY <1>1, <1>2 DEF TidyInv
<1>3. ASSUME NEW d \in Tokens, Deliver(d) PROVE TidyInv'
  <2>1. /\ run[d].pc = "idle"
        /\ run'[d].pc = "fetched"
        /\ \A e \in Tokens \ {d} : run'[e] = run[e]
        /\ UNCHANGED <<job, dir>>
    BY <1>3 DEF Deliver, TypeOK, Run, diskVars
  <2> QED BY <2>1 DEF TidyInv, Holding
<1>4. ASSUME NEW d \in Tokens, Proceed(d) PROVE TidyInv'
  <2> USE DEF TidyInv, Holding, diskVars, TypeOK
  <2> run[d].attempt \in Nat /\ job \in JobRow
    BY DEF Run
  <2>1. CASE Fetch(d) \/ Claim(d) \/ Recheck(d) \/ Start(d) \/ Record(d) \/ Settle(d)
    BY <1>1, <2>1, RunEffects DEF Fetch, Claim, Recheck, Start, Record, Settle
  <2>2. CASE WriteFirst(d) \/ WriteLast(d)
    BY <1>1, <2>2, RunEffects DEF WriteFirst, WriteLast
  <2>3. CASE FailTransiently(d) \/ FailValidation(d)
    BY <1>1, <2>3, FaultedEffects
  <2>4. CASE Discard(d)
    BY <1>1, <2>4, RunEffects DEF Discard
  <2>5. CASE Finalize(d)
    BY <1>1, <2>5, RunEffects DEF Finalize
  <2>6. CASE Commit(d)
    BY <1>1, <2>6, RunEffects, RowEffects DEF Commit
  <2>7. CASE ResolveDoubt(d) \/ ReadLatest(d)
    BY <1>1, <2>7, RunEffects DEF ResolveDoubt, ReadLatest
  <2> QED BY <1>4, <2>1, <2>2, <2>3, <2>4, <2>5, <2>6, <2>7 DEF Proceed
<1>5. ASSUME NEW d \in Tokens, Throws(d) PROVE FALSE
  BY <1>5, ErrorsCount
     DEF Throws, ReadThrows, UpdateThrows, StartThrows, CommitThrows, DoubtUnread,
         DiscardThrows, RecordThrows
<1>6. ASSUME NEW d \in Tokens, Crash(d) PROVE TidyInv'
  BY <1>1, <1>6, RunEffects DEF Crash, TidyInv, Holding, diskVars, TypeOK
<1>7. CASE \/ Dispatch \/ RollbackPublished \/ LockOfDeadExpires \/ RecoverStalled
           \/ Promote \/ LockOfLiveExpires \/ Trim \/ UNCHANGED vars
           \/ \E d \in Tokens : Land(d) \/ Vanish(d)
  BY <1>2, <1>7
     DEF Dispatch, QueueAdd, CommitPublished, RollbackPublished, LockOfDeadExpires,
         RecoverStalled, Promote, LockOfLiveExpires, Trim, Land, Vanish, diskVars, vars
<1> QED BY <1>3, <1>4, <1>5, <1>6, <1>7 DEF Next, Queue

\* However attempts overlap, lose and die, and however late their statements land,
\* those that end leave nothing behind but the published result.
THEOREM LosersLeaveNothing == Spec => []LosersCleanUp
<1> DEFINE Tidy == faults["error"] = 0 => TidyInv
<1>1. Init => Tidy
  BY InitTidy
<1>2. IInv /\ Tidy /\ [Next]_vars => Tidy'
  BY TidyStep, ErrorsCount DEF IInv
<1>3. Tidy => LosersCleanUp
  BY DEF TidyInv, Holding, LosersCleanUp
<1> QED BY <1>1, <1>2, <1>3, IInvHolds, PTL DEF Spec

-----------------------------------------------------------------------------
\* A call's step is a live call's, on its own record; only its last one moves the
\* entry.
LEMMA CallEffects ==
    ASSUME TypeOK, NEW d \in Tokens, Proceed(d) \/ Throws(d) \/ Crash(d)
    PROVE  /\ Live(d)
           /\ run'[d].attempt = run[d].attempt
           /\ \A e \in Tokens \ {d} : run'[e] = run[e]
           /\ event' = event
           /\ ~Settle(d) => entry' = entry
           /\ Live(d)' \/ Settle(d) \/ Crash(d)
           /\ Settle(d) => ~Live(d)'
<1> USE DEF TypeOK, queueVars, Live
<1>1. CASE Fetch(d) \/ Claim(d) \/ Recheck(d) \/ Start(d) \/ WriteFirst(d) \/ WriteLast(d)
  BY <1>1, RunEffects DEF Fetch, Claim, Recheck, Start, WriteFirst, WriteLast, Settle
<1>2. CASE FailTransiently(d) \/ FailValidation(d)
  <2> run[d].pc = "working" /\ run'[d].pc = "faulted"
      /\ \A e \in Tokens \ {d} : run'[e] = run[e]
    BY <1>2, FaultedEffects
  <2> Proceed(d)
    BY <1>2 DEF Proceed
  <2> run'[d].attempt = run[d].attempt
    BY AttemptsKept
  <2> QED BY <1>2 DEF FailTransiently, FailValidation, Settle
<1>3. CASE Discard(d) \/ Finalize(d) \/ Commit(d)
  BY <1>3, RunEffects DEF Discard, Finalize, Commit, Settle
<1>4. CASE ResolveDoubt(d) \/ ReadLatest(d) \/ Record(d)
  BY <1>4, RunEffects DEF ResolveDoubt, ReadLatest, Record, Settle
<1>5. CASE Settle(d)
  BY <1>5, RunEffects DEF Settle
<1>6. CASE Throws(d)
  BY <1>6, RunEffects
     DEF Throws, ReadThrows, UpdateThrows, StartThrows, CommitThrows, DoubtUnread,
         DiscardThrows, RecordThrows, Settle
<1>7. CASE Crash(d)
  BY <1>7, RunEffects DEF Crash, Settle
<1> QED BY <1>1, <1>2, <1>3, <1>4, <1>5, <1>6, <1>7 DEF Proceed

\* What the steps of a call do to its outcome and verdict.
LEMMA OutcomeEffects ==
    ASSUME run \in [Tokens -> Run], NEW d \in Tokens
    PROVE  /\ \A pc : Goto(d, pc) =>
                  run'[d].outcome = run[d].outcome /\ run'[d].verdict = run[d].verdict
           /\ \A o : Exit(d, o) =>
                  run'[d].outcome = o /\ run'[d].verdict = run[d].verdict
           /\ \A v, o : Conclude(d, v, o) =>
                  run'[d].outcome = o /\ run'[d].verdict = v
<1> run[d] \in Run
  OBVIOUS
<1>1. ASSUME NEW pc, Goto(d, pc)
      PROVE  run'[d].outcome = run[d].outcome /\ run'[d].verdict = run[d].verdict
  BY <1>1 DEF Run, Goto
<1>2. ASSUME NEW o, Exit(d, o)
      PROVE  run'[d].outcome = o /\ run'[d].verdict = run[d].verdict
  BY <1>2 DEF Run, Exit
<1>3. ASSUME NEW v, NEW o, Conclude(d, v, o)
      PROVE  run'[d].outcome = o /\ run'[d].verdict = v
  BY <1>3 DEF Run, Conclude
<1> QED BY <1>1, <1>2, <1>3

\* No live attempt has lost its lock.
NoPause == faults["pause"] = 0

\* A call under way then is the only one: its worker holds the entry's lock, and it
\* has the number of the entry's next attempt.
ExclusiveInv ==
    \A d \in Tokens : Live(d) => HoldsLock(d) /\ run[d].attempt = entry.made + 1

LEMMA Alone ==
    ASSUME ExclusiveInv, NEW d \in Tokens, Live(d)
    PROVE  \A e \in Tokens \ {d} : ~Live(e)
BY DEF ExclusiveInv, HoldsLock

LEMMA ExclusiveStep ==
    ASSUME TypeOK, ExclusiveInv, [Next]_vars, NoPause'
    PROVE  ExclusiveInv'
<1> USE DEF TypeOK
<1>1. CASE Dispatch \/ RollbackPublished
  <2> run' = run /\ (entry' = entry \/ entry.state = "absent")
    BY <1>1 DEF Dispatch, QueueAdd, CommitPublished, RollbackPublished
  <2> QED BY DEF ExclusiveInv, Live, HoldsLock
<1>2. CASE LockOfDeadExpires \/ RecoverStalled \/ Promote \/ Trim
  <2>1. run' = run
    BY <1>2 DEF LockOfDeadExpires, RecoverStalled, Promote, Trim
  <2>2. \A d \in Tokens : ~Live(d)
    BY <1>2 DEF LockOfDeadExpires, RecoverStalled, Promote, Trim, ExclusiveInv, HoldsLock
  <2> QED BY <2>1, <2>2 DEF ExclusiveInv, Live
<1>3. ~LockOfLiveExpires
  BY FaultsOnlyGrow DEF NoPause, LockOfLiveExpires, FaultKinds
<1>4. ASSUME NEW d \in Tokens, Deliver(d) PROVE ExclusiveInv'
  <2>1. \A e \in Tokens : ~Live(e)
    BY <1>4 DEF Deliver, ExclusiveInv, HoldsLock
  <2>2. /\ run'[d].attempt = entry.made + 1
        /\ \A e \in Tokens \ {d} : run'[e] = run[e]
    BY <1>4 DEF Deliver, Run
  <2>3. entry'.made = entry.made /\ HoldsLock(d)'
    BY <1>4 DEF Deliver, Entry, HoldsLock
  <2> QED BY <2>1, <2>2, <2>3 DEF ExclusiveInv, Live
<1>5. ASSUME NEW d \in Tokens, Proceed(d) \/ Throws(d) \/ Crash(d) PROVE ExclusiveInv'
  <2>1. \A e \in Tokens \ {d} : ~Live(e)'
    BY <1>5, CallEffects, Alone DEF Live
  <2>2. CASE Settle(d)
    BY <1>5, <2>1, <2>2, CallEffects DEF ExclusiveInv
  <2>3. CASE ~Settle(d)
    BY <1>5, <2>1, <2>3, CallEffects DEF ExclusiveInv, HoldsLock
  <2> QED BY <2>2, <2>3
<1>6. ASSUME NEW d \in Tokens, Land(d) \/ Vanish(d) PROVE ExclusiveInv'
  BY <1>6 DEF Land, Vanish, queueVars, ExclusiveInv, Live, HoldsLock
<1>7. CASE UNCHANGED vars
  BY <1>7 DEF vars, ExclusiveInv, Live, HoldsLock
<1> QED BY <1>1, <1>2, <1>3, <1>4, <1>5, <1>6, <1>7 DEF Next, Queue

LEMMA InitExclusive == Init => ExclusiveInv
<1>1. ASSUME Init, NEW d \in Tokens PROVE ~Live(d)
  <2>1. run = [e \in Tokens |-> NoRun]
    BY <1>1 DEF Init
  <2>2. run[d] = NoRun
    BY <2>1
  <2> QED BY <2>2 DEF NoRun, Live
<1> QED BY <1>1 DEF ExclusiveInv

LEMMA ExclusiveHolds == Spec => [](NoPause => ExclusiveInv)
<1>1. TypeOK /\ [Next]_vars => (NoPause' => NoPause)
  BY FaultsOnlyGrow DEF NoPause, FaultKinds
<1>2. TypeOK /\ (NoPause => ExclusiveInv) /\ [Next]_vars => (NoPause => ExclusiveInv)'
  BY <1>1, ExclusiveStep
<1> QED BY <1>2, InitExclusive, TypeCorrect, PTL DEF Spec

\* As long as no lock is lost under a live attempt, no two attempts are ever under way,
\* whatever else throws, dies, executes late or is published again (processor.ts).
THEOREM AttemptsDoNotOverlap ==
    Spec => [](NoPause => \A d, e \in Tokens : Live(d) /\ Live(e) => d = e)
<1>1. (NoPause => ExclusiveInv) => (NoPause => \A d, e \in Tokens : Live(d) /\ Live(e) => d = e)
  BY Alone
<1> QED BY <1>1, ExclusiveHolds, PTL

\* What the dispatcher's and BullMQ's other steps do to the entry.
LEMMA EntryEffects ==
    ASSUME TypeOK
    PROVE  /\ QueueAdd => \/ entry.state # "absent" /\ entry' = entry
                          \/ entry.state = "absent" /\ entry' = [NoEntry EXCEPT !.state = "waiting"]
           /\ CommitPublished \/ RollbackPublished => entry' = entry
           /\ LockOfDeadExpires \/ LockOfLiveExpires =>
                  entry' = [entry EXCEPT !.locked = FALSE]
           /\ RecoverStalled =>
                  /\ entry'.state = IF entry.stalls + 1 > MaxStalledCount
                                    THEN "failed" ELSE "waiting"
                  /\ entry'.made = entry.made
                  /\ entry'.stalls = entry.stalls + 1
           /\ Promote => entry' = [entry EXCEPT !.state = "waiting"]
           /\ Trim => entry' = NoEntry
<1> entry \in Entry
  BY DEF TypeOK
<1>1. QueueAdd => \/ entry.state # "absent" /\ entry' = entry
                  \/ entry.state = "absent" /\ entry' = [NoEntry EXCEPT !.state = "waiting"]
  BY DEF QueueAdd
<1>2. RecoverStalled =>
          /\ entry'.state = IF entry.stalls + 1 > MaxStalledCount THEN "failed" ELSE "waiting"
          /\ entry'.made = entry.made
          /\ entry'.stalls = entry.stalls + 1
  BY DEF RecoverStalled, Entry
<1> QED BY <1>1, <1>2
       DEF CommitPublished, RollbackPublished, LockOfDeadExpires, LockOfLiveExpires,
           Promote, Trim

\* What BullMQ makes of a call that returned or threw.
LEMMA SettleEffects ==
    ASSUME TypeOK, NEW d \in Tokens, Settle(d), HoldsLock(d)
    PROVE  /\ entry'.made = entry.made + 1
           /\ entry'.stalls = entry.stalls
           /\ entry'.state = CASE run[d].outcome = "completed"     -> "completed"
                               [] run[d].outcome = "unrecoverable" -> "failed"
                               [] OTHER -> IF entry.made + 1 >= QueueAttempts
                                           THEN "failed" ELSE "delayed"
<1> entry \in Entry
  BY DEF TypeOK
<1> QED BY DEF Settle, SettledEntry, Entry

-----------------------------------------------------------------------------
\* No lock is lost and no unacknowledged statement executes.
Prompt == NoPause /\ faults["late"] = 0

\* An attempt under way then owns an unfinished job from its claim to its last
\* statement, so that it reports success to BullMQ only for a job that is done.
CompletionInv ==
    /\ \A d \in Tokens :
          /\ run[d].pc \in Unfinalized /\ ~Done => job.runningToken = d
          /\ run[d].pc \in {"lost", "lostread"} => Done
          /\ run[d].pc \in {"faulted", "finalizing"} => run[d].outcome # "completed"
          /\ run[d].pc = "recording" /\ run[d].verdict = "succeeded" => Done
          /\ run[d].pc \in {"recording", "settling"} /\ run[d].outcome = "completed" => Done
    /\ entry.state = "completed" => Done

LEMMA CompletionStep ==
    ASSUME IInv, ExclusiveInv, CompletionInv, [Next]_vars, Prompt'
    PROVE  CompletionInv'
<1> TypeOK /\ FilesInv /\ OwnershipInv
  BY DEF IInv
<1>0. Done => job' = job
  BY TerminalStep
<1> USE DEF TypeOK, Unfinalized
<1>1. ASSUME UNCHANGED <<job, run>>, entry'.state = "completed" => entry.state = "completed"
      PROVE  CompletionInv'
  BY <1>1 DEF CompletionInv, Done
<1>2. CASE Dispatch \/ RollbackPublished \/ LockOfDeadExpires \/ RecoverStalled \/ Promote
           \/ LockOfLiveExpires \/ Trim \/ UNCHANGED vars
  <2>1. UNCHANGED <<job, run>>
    BY <1>2 DEF Dispatch, QueueAdd, CommitPublished, RollbackPublished, LockOfDeadExpires,
         RecoverStalled, Promote, LockOfLiveExpires, Trim, vars
  <2>2. entry'.state = "completed" => entry.state = "completed"
    <3>1. CASE UNCHANGED vars
      BY <3>1 DEF vars
    <3>2. CASE ~UNCHANGED vars
      BY <1>2, <3>2, EntryEffects DEF Dispatch, Entry, NoEntry
    <3> QED BY <3>1, <3>2
  <2> QED BY <1>1, <2>1, <2>2
<1>3. ASSUME NEW d \in Tokens, Deliver(d) PROVE CompletionInv'
  <2>1. /\ run'[d].pc = "fetched"
        /\ \A e \in Tokens \ {d} : run'[e] = run[e]
        /\ entry'.state = "active"
        /\ job' = job
    BY <1>3 DEF Deliver, Run, Entry
  <2> QED BY <2>1 DEF CompletionInv, Done
<1>4. ASSUME NEW d \in Tokens, Proceed(d) \/ Throws(d) \/ Crash(d) PROVE CompletionInv'
  <2> DEFINE Kept(e) ==
        /\ run[e].pc \in Unfinalized /\ ~Done => job.runningToken = e
        /\ run[e].pc \in {"lost", "lostread"} => Done
        /\ run[e].pc \in {"faulted", "finalizing"} => run[e].outcome # "completed"
        /\ run[e].pc = "recording" /\ run[e].verdict = "succeeded" => Done
        /\ run[e].pc \in {"recording", "settling"} /\ run[e].outcome = "completed" => Done
  <2>1. \A e \in Tokens \ {d} : Kept(e)'
    BY <1>4, CallEffects, Alone DEF Live
  <2>2. Kept(d) /\ (entry.state = "completed" => Done)
    BY DEF CompletionInv
  <2>3. Kept(d)'
    <3> job \in JobRow /\ run[d].attempt \in Nat
      BY DEF Run
    <3> USE RunEffects, OutcomeEffects DEF Done
    <3>1. CASE Fetch(d) \/ Recheck(d)
      BY <1>0, <2>2, <3>1 DEF Fetch, Recheck, OwnershipInv
    <3>2. CASE Claim(d)
      BY <3>2, RowEffects DEF Claim, CanRun
    <3>3. CASE Start(d) \/ WriteFirst(d) \/ WriteLast(d)
      BY <1>0, <2>2, <3>3 DEF Start, WriteFirst, WriteLast
    <3>4. CASE FailTransiently(d) \/ FailValidation(d)
      BY <2>2, <3>4, FaultedEffects
    <3>5. CASE Discard(d)
      BY <2>2, <3>5 DEF Discard, FilesInv
    <3>6. CASE Finalize(d)
      BY <1>0, <2>2, <3>6, RowEffects DEF Finalize
    <3>7. CASE Commit(d)
      BY <1>0, <2>2, <3>7, RowEffects DEF Commit, CanSucceed, Terminal
    <3>8. CASE ResolveDoubt(d) \/ ReadLatest(d)
      BY <2>2, <3>8 DEF ResolveDoubt, ReadLatest, Terminal
    <3>9. CASE Record(d) \/ Settle(d)
      BY <2>2, <3>9 DEF Record, Settle
    <3>10. CASE Throws(d)
      BY <2>2, <3>10
         DEF Throws, ReadThrows, UpdateThrows, StartThrows, CommitThrows, DoubtUnread,
             DiscardThrows, RecordThrows
    <3>11. CASE Crash(d)
      BY <2>2, <3>11 DEF Crash
    <3> QED BY <1>4, <3>1, <3>2, <3>3, <3>4, <3>5, <3>6, <3>7, <3>8, <3>9, <3>10, <3>11
         DEF Proceed
  <2>4. (entry.state = "completed" => Done)'
    <3>1. CASE Settle(d) /\ HoldsLock(d)
      <4>1. run[d].pc = "settling" /\ job' = job
        BY <3>1 DEF Settle
      <4>2. entry'.state = "completed" => run[d].outcome = "completed"
        BY <3>1, SettleEffects
      <4> QED BY <2>2, <4>1, <4>2 DEF Done
    <3>2. CASE ~(Settle(d) /\ HoldsLock(d))
      <4>1. entry' = entry
        BY <1>4, <3>2, CallEffects DEF Settle
      <4> QED BY <1>0, <2>2, <4>1 DEF Done
    <3> QED BY <3>1, <3>2
  <2> QED BY <2>1, <2>3, <2>4 DEF CompletionInv
<1>5. ASSUME NEW d \in Tokens, Land(d) PROVE FALSE
  BY <1>5, FaultsOnlyGrow DEF Land, Prompt, FaultKinds
<1>6. ASSUME NEW d \in Tokens, Vanish(d) PROVE CompletionInv'
  BY <1>1, <1>6 DEF Vanish, queueVars
<1> QED BY <1>2, <1>3, <1>4, <1>5, <1>6 DEF Next, Queue

LEMMA CompletionHolds == Spec => [](Prompt => CompletionInv)
<1>1. Init => CompletionInv
  <2>1. ASSUME Init, NEW d \in Tokens PROVE run[d].pc = "idle"
    <3>1. run = [e \in Tokens |-> NoRun]
      BY <2>1 DEF Init
    <3>2. run[d] = NoRun
      BY <3>1
    <3> QED BY <3>2 DEF NoRun
  <2>2. Init => entry.state = "absent"
    BY DEF Init, NoEntry
  <2> QED BY <2>1, <2>2 DEF CompletionInv, Unfinalized
<1>2. TypeOK /\ [Next]_vars => (Prompt' => Prompt /\ NoPause)
  BY FaultsOnlyGrow DEF Prompt, NoPause, FaultKinds
<1>3. /\ IInv
      /\ NoPause => ExclusiveInv
      /\ Prompt => CompletionInv
      /\ [Next]_vars
      => (Prompt => CompletionInv)'
  BY <1>2, CompletionStep DEF IInv
<1> QED BY <1>1, <1>3, IInvHolds, ExclusiveHolds, PTL DEF Spec

\* Whatever throws and whatever dies: as long as no lock is lost under a live attempt
\* and no abandoned statement executes late, BullMQ counts a job as completed only
\* when Postgres has its outcome.
THEOREM CompletionsAreRecorded == Spec => [](Prompt => QueueCompletionIsRecorded)
<1>1. (Prompt => CompletionInv) => (Prompt => QueueCompletionIsRecorded)
  BY DEF CompletionInv, QueueCompletionIsRecorded
<1> QED BY <1>1, CompletionHolds, PTL

-----------------------------------------------------------------------------
\* Beyond that, nothing throws, no more processes die than BullMQ tolerates, and the
\* queue was not configured with fewer attempts than the row was created with.
Calm == /\ Prompt
        /\ faults["error"] = 0
        /\ faults["crash"] <= MaxStalledCount
        /\ MaxAttempts <= QueueAttempts

Abandoned == entry.state = "active" /\ \A d \in Tokens : ~Live(d)

\* No attempt was ever started.
Fresh == job.attempts = 0 /\ \A d \in Tokens : run[d].pc = "idle"

\* An attempt that reports a failure recorded it, or leaves BullMQ another attempt;
\* every stall was a crash; no entry is dropped, or taken away, before the job is done.
FailureInv ==
    /\ \A d \in Tokens :
          /\ run[d].pc # "doubt"
          /\ run[d].pc \in {"recording", "settling"} /\ ~Done
                => run[d].outcome = "error" /\ run[d].attempt < MaxAttempts
    /\ entry.stalls <= faults["crash"]
    /\ Abandoned => entry.stalls < faults["crash"]
    /\ entry.state = "failed" => Done
    /\ entry.state = "absent" /\ ~Done => event = "pending" /\ Fresh

LEMMA FailureStep ==
    ASSUME IInv, ExclusiveInv, CompletionInv, FailureInv, [Next]_vars, Calm'
    PROVE  FailureInv'
<1> TypeOK /\ TypeOK'
  BY TypeStep DEF IInv
<1> MaxAttempts \in Nat /\ QueueAttempts \in Nat /\ MaxStalledCount \in Nat
    /\ MaxAttempts <= QueueAttempts
  BY ProcessingAssumption DEF Calm
<1> entry.made \in Nat /\ entry.stalls \in Nat
  BY DEF TypeOK, Entry
<1>0. /\ Done => job' = job /\ Done'
      /\ faults["crash"] \in Nat /\ faults'["crash"] \in Nat
      /\ faults["crash"] <= faults'["crash"] /\ faults'["crash"] <= MaxStalledCount
      /\ Spend("crash") => faults'["crash"] = faults["crash"] + 1
      /\ ~Spend("error") /\ ~Spend("late") /\ ~Spend("pause")
  BY TerminalStep, FaultsOnlyGrow DEF Calm, Prompt, NoPause, FaultKinds, Done, TypeOK
<1>1. CASE QueueAdd \/ CommitPublished \/ RollbackPublished
  <2>1. UNCHANGED <<job, run>>
    BY <1>1 DEF QueueAdd, CommitPublished, RollbackPublished
  <2>2. \/ entry' = entry /\ (entry.state = "absent" => event = "added")
        \/ entry'.state = "waiting" /\ entry'.stalls = 0
    BY <1>1, EntryEffects DEF CommitPublished, RollbackPublished, NoEntry
  <2>3. entry'.state # "absent" \/ Done
    BY <2>2 DEF FailureInv
  <2>4. CASE entry' = entry
    BY <1>0, <2>1, <2>3, <2>4 DEF FailureInv, Abandoned, Live, Done
  <2>5. CASE entry'.state = "waiting" /\ entry'.stalls = 0
    BY <1>0, <2>1, <2>5 DEF FailureInv, Abandoned, Live, Done
  <2> QED BY <2>2, <2>4, <2>5
<1>2. CASE LockOfDeadExpires \/ Promote
  <2>1. UNCHANGED <<job, run, event>>
    BY <1>2 DEF LockOfDeadExpires, Promote
  <2>2. /\ entry'.stalls = entry.stalls
        /\ \/ entry'.state = entry.state
           \/ entry'.state = "waiting"
    BY <1>2, EntryEffects DEF TypeOK, Entry
  <2> QED BY <1>0, <2>1, <2>2 DEF FailureInv, Abandoned, Live, Done, Fresh
<1>3. CASE RecoverStalled
  <2>1. UNCHANGED <<job, run>>
    BY <1>3 DEF RecoverStalled
  <2>2. Abandoned
    BY <1>3 DEF RecoverStalled, Abandoned, ExclusiveInv, HoldsLock
  <2>3. entry.stalls + 1 <= faults["crash"]
    BY <1>0, <2>2 DEF FailureInv
  <2>4. entry'.state = "waiting" /\ entry'.stalls = entry.stalls + 1
    BY <1>0, <1>3, <2>3, EntryEffects
  <2> QED BY <1>0, <2>1, <2>3, <2>4 DEF FailureInv, Abandoned, Live, Done
<1>4. CASE Trim
  <2>1. UNCHANGED <<job, run>> /\ Done
    BY <1>4 DEF Trim, CompletionInv, FailureInv
  <2>2. entry'.state = "absent" /\ entry'.stalls = 0
    BY <1>4 DEF Trim, NoEntry
  <2> QED BY <1>0, <2>1, <2>2 DEF FailureInv, Abandoned
<1>5. ~LockOfLiveExpires
  BY <1>0 DEF LockOfLiveExpires
<1>6. ASSUME NEW d \in Tokens, Deliver(d) PROVE FailureInv'
  <2>1. /\ run'[d].pc = "fetched"
        /\ \A e \in Tokens \ {d} : run'[e] = run[e]
        /\ entry'.state = "active" /\ entry'.stalls = entry.stalls
        /\ job' = job
    BY <1>6 DEF Deliver, TypeOK, Run, Entry
  <2>2. ~Abandoned'
    BY <2>1 DEF Abandoned, Live
  <2> QED BY <1>0, <2>1, <2>2 DEF FailureInv, Done
<1>7. ASSUME NEW d \in Tokens, Proceed(d) \/ Crash(d) PROVE FailureInv'
  <2>1. /\ Live(d) /\ HoldsLock(d) /\ run[d].attempt = entry.made + 1
        /\ run'[d].attempt = run[d].attempt
        /\ \A e \in Tokens \ {d} : run'[e] = run[e] /\ ~Live(e)
        /\ ~Settle(d) => entry' = entry
    BY <1>7, CallEffects, Alone DEF ExclusiveInv
  <2>2. /\ run'[d].pc # "doubt"
        /\ run'[d].pc \in {"recording", "settling"} /\ ~Done'
              => run'[d].outcome = "error" /\ run'[d].attempt < MaxAttempts
    <3> run[d].pc # "doubt" /\ run[d].attempt \in Nat /\ job \in JobRow
        /\ run[d].outcome \in Outcomes
      BY DEF FailureInv, TypeOK, Run
    <3> USE RunEffects, OutcomeEffects DEF TypeOK
    <3>1. CASE Fetch(d) \/ Recheck(d)
      BY <1>0, <3>1 DEF Fetch, Recheck
    <3>2. CASE Claim(d) \/ Start(d) \/ WriteFirst(d) \/ WriteLast(d)
      BY <3>2 DEF Claim, Start, WriteFirst, WriteLast
    <3>3. CASE FailTransiently(d) \/ FailValidation(d)
      BY <3>3, FaultedEffects
    <3>4. CASE Discard(d)
      <4>1. run[d].pc = "outvoted" => Done
        BY DEF IInv, FilesInv
      <4> QED BY <1>0, <3>4, <4>1 DEF Discard
    <3>5. CASE Finalize(d)
      <4>1. ~Done => job.runningToken = d
        BY <3>5 DEF Finalize, CompletionInv, Unfinalized
      <4>2. run[d].outcome # "completed"
        BY <3>5 DEF Finalize, CompletionInv
      <4>3. CASE GivesUp(d)
        <5>1. job' = TransitionToFailed(job, run[d].attempt, d)
          BY <3>5, <4>3 DEF Finalize
        <5>2. Done'
          BY <1>0, <4>1, <5>1, RowEffects DEF CanFail, Done, Terminal
        <5>3. run'[d].pc = "recording"
          BY <3>5, <4>3 DEF Finalize
        <5> QED BY <5>2, <5>3
      <4>4. CASE ~GivesUp(d)
        <5>1. run[d].outcome = "error" /\ run[d].attempt < MaxAttempts
          BY <4>2, <4>4 DEF GivesUp, Outcomes
        <5>2. run'[d].pc = "recording" /\ run'[d].outcome = run[d].outcome
          BY <3>5, <4>4 DEF Finalize
        <5> QED BY <2>1, <5>1, <5>2
      <4> QED BY <4>3, <4>4
    <3>6. CASE Commit(d)
      BY <3>6, RowEffects DEF Commit, Done, Terminal
    <3>7. CASE ReadLatest(d)
      BY <1>0, <3>7 DEF ReadLatest, CompletionInv
    <3>8. CASE Record(d) \/ Settle(d)
      BY <1>0, <2>1, <3>8 DEF Record, Settle, FailureInv
    <3>9. CASE Crash(d)
      BY <3>9 DEF Crash
    <3> QED BY <1>7, <3>1, <3>2, <3>3, <3>4, <3>5, <3>6, <3>7, <3>8, <3>9
         DEF Proceed, ResolveDoubt
  <2>3. entry.state = "active"
    BY <2>1 DEF HoldsLock
  <2>4. CASE Settle(d)
    <3>1. job' = job /\ run[d].pc = "settling"
      BY <2>4 DEF Settle
    <3>2. entry'.stalls = entry.stalls /\ entry'.state \in {"completed", "failed", "delayed"}
      BY <2>1, <2>4, SettleEffects
    <3>3. entry'.state = "failed" => Done
      BY <2>1, <2>4, <3>1, SettleEffects DEF FailureInv
    <3> QED BY <1>0, <2>1, <2>2, <3>1, <3>2, <3>3 DEF FailureInv, Abandoned, Done
  <2>5. CASE Crash(d)
    <3>1. faults'["crash"] = faults["crash"] + 1 /\ entry' = entry /\ job' = job
      BY <1>0, <2>1, <2>5 DEF Crash, Settle
    <3> QED BY <1>0, <2>1, <2>2, <2>3, <3>1 DEF FailureInv, Abandoned, Done
  <2>6. CASE ~Settle(d) /\ ~Crash(d)
    <3>1. Live(d)' /\ entry' = entry
      BY <1>7, <2>1, <2>6, CallEffects
    <3> QED BY <1>0, <2>1, <2>2, <2>3, <3>1 DEF FailureInv, Abandoned, Done
  <2> QED BY <2>4, <2>5, <2>6
<1>8. ASSUME NEW d \in Tokens, Throws(d) \/ Land(d) PROVE FALSE
  BY <1>0, <1>8
     DEF Throws, ReadThrows, UpdateThrows, StartThrows, CommitThrows, DoubtUnread,
         DiscardThrows, RecordThrows, Land
<1>9. CASE UNCHANGED vars \/ \E d \in Tokens : Vanish(d)
  <2>1. UNCHANGED <<job, event, entry, run, faults>>
    BY <1>9 DEF vars, Vanish, queueVars
  <2> QED BY <2>1 DEF FailureInv, Abandoned, Live, Done, Fresh
<1> QED BY <1>1, <1>2, <1>3, <1>4, <1>5, <1>6, <1>7, <1>8, <1>9 DEF Next, Queue, Dispatch

LEMMA FailureHolds == Spec => [](Calm => FailureInv)
<1>1. Init => FailureInv
  <2>1. ASSUME Init, NEW d \in Tokens PROVE run[d].pc = "idle"
    <3>1. run = [e \in Tokens |-> NoRun]
      BY <2>1 DEF Init
    <3>2. run[d] = NoRun
      BY <3>1
    <3> QED BY <3>2 DEF NoRun
  <2>2. Init => /\ entry.state = "absent" /\ entry.stalls = 0
                /\ faults["crash"] = 0 /\ event = "pending" /\ job.attempts = 0
    BY DEF Init, NoEntry, NewJobRow, FaultKinds
  <2> QED BY <2>1, <2>2 DEF FailureInv, Abandoned, Fresh
<1>2. TypeOK /\ [Next]_vars => (Calm' => Calm /\ Prompt /\ NoPause)
  BY FaultsOnlyGrow, ProcessingAssumption DEF Calm, Prompt, NoPause, FaultKinds
<1>3. /\ IInv
      /\ NoPause => ExclusiveInv
      /\ Prompt => CompletionInv
      /\ Calm => FailureInv
      /\ [Next]_vars
      => (Calm => FailureInv)'
  BY <1>2, FailureStep DEF IInv
<1> QED BY <1>1, <1>3, IInvHolds, ExclusiveHolds, CompletionHolds, PTL DEF Spec

\* In a calm run, however often workers die, BullMQ gives a job up only when Postgres
\* has its outcome; that the queue's number of attempts is not below the row's is
\* needed for it.
THEOREM FailuresAreRecorded == Spec => [](Calm => QueueFailureIsRecorded)
<1>1. (Calm => FailureInv) => (Calm => QueueFailureIsRecorded)
  BY DEF FailureInv, QueueFailureIsRecorded
<1> QED BY <1>1, FailureHolds, PTL

\* In a calm run no unfinished job is ever out of reach: its event has yet to be
\* published, or BullMQ has an entry for it that it will deliver or recover.  This is
\* what EventuallyTerminal rests on besides fairness.
THEOREM NoJobStranded ==
    Spec => [](Calm => \/ Done
                       \/ event = "pending"
                       \/ entry.state \in {"waiting", "active", "delayed"})
<1>1. /\ TypeOK
      /\ Prompt => CompletionInv
      /\ Calm => FailureInv
      => (Calm => \/ Done
                  \/ event = "pending"
                  \/ entry.state \in {"waiting", "active", "delayed"})
  BY DEF TypeOK, Entry, EntryStates, CompletionInv, FailureInv, Calm
<1> QED BY <1>1, TypeCorrect, CompletionHolds, FailureHolds, PTL

-----------------------------------------------------------------------------
\* No lock is lost under a live attempt, and the entry of an unfinished job is not
\* added a second time.
Orderly == NoPause /\ (faults["republish"] = 0 \/ Calm)

\* Neither the row nor an attempt has a number above n.
Within(n) == /\ job.attempts <= n
             /\ \A d \in Tokens : run[d].pc # "idle" => run[d].attempt <= n

\* The numbers in use are behind the entry's, and the attempt whose token the row
\* bears has the highest of those that may still write theirs.
NumberInv ==
    ~Done =>
        /\ entry.state \in {"waiting", "active", "delayed"} => Within(entry.made + 1)
        /\ faults["republish"] = 0 /\ event = "pending" => entry.state = "absent" /\ Fresh
        /\ \A d \in Tokens :
              job.runningToken = d /\ YetToFinalize(d) => run[d].attempt >= job.attempts

LEMMA NumberStep ==
    ASSUME IInv, ExclusiveInv, Calm => FailureInv, NumberInv, [Next]_vars, Orderly'
    PROVE  NumberInv'
<1> DEFINE Current == {"waiting", "active", "delayed"}
<1> SUFFICES ASSUME ~Done' PROVE NumberInv'
  BY DEF NumberInv
<1> TypeOK /\ TypeOK' /\ OwnershipInv
  BY TypeStep DEF IInv
<1>0. /\ ~Done
      /\ Orderly
      /\ faults["republish"] \in Nat /\ faults'["republish"] \in Nat
      /\ faults["republish"] <= faults'["republish"]
      /\ Spend("republish") => faults'["republish"] # 0
      /\ ~Spend("pause")
  <2>1. ~Done
    BY TerminalStep DEF Done
  <2>2. /\ NoPause
        /\ Calm' => Calm
        /\ ~Spend("pause")
    BY FaultsOnlyGrow, ProcessingAssumption
       DEF Orderly, Calm, Prompt, NoPause, FaultKinds
  <2> QED BY <2>1, <2>2, FaultsOnlyGrow DEF Orderly, FaultKinds
<1> /\ entry.made \in Nat /\ job \in JobRow /\ job.attempts \in Nat
    /\ \A d \in Tokens : run[d].attempt \in Nat
  BY DEF TypeOK, Entry, JobRow, Run
<1>1. CASE QueueAdd
  <2>1. UNCHANGED <<job, run, inflight>> /\ event = "pending" /\ event' = "added"
    BY <1>1 DEF QueueAdd
  <2>2. entry'.state \in Current => Within(entry'.made + 1)
    <3>1. CASE entry' = entry
      BY <1>0, <3>1 DEF NumberInv
    <3>2. CASE entry.state = "absent" /\ entry'.made = 0
      <4>1. Fresh
        BY <1>0, <2>1, <3>2 DEF Orderly, NumberInv, FailureInv
      <4> QED BY <3>2, <4>1 DEF Fresh, Within
    <3> QED BY <1>1, <3>1, <3>2, EntryEffects DEF NoEntry
  <2> QED BY <1>0, <2>1, <2>2 DEF NumberInv, Within, YetToFinalize
<1>2. CASE CommitPublished \/ RollbackPublished
  <2>1. UNCHANGED <<job, run, inflight, entry>>
    BY <1>2 DEF CommitPublished, RollbackPublished
  <2>2. faults'["republish"] # 0 \/ event' # "pending"
    BY <1>0, <1>2 DEF CommitPublished, RollbackPublished
  <2> QED BY <1>0, <2>1, <2>2 DEF NumberInv, Within, YetToFinalize
<1>3. CASE LockOfDeadExpires \/ RecoverStalled \/ Promote \/ Trim
  <2>1. UNCHANGED <<job, run, inflight, event>>
    BY <1>3 DEF LockOfDeadExpires, RecoverStalled, Promote, Trim
  <2>2. entry.state = "absent" => entry'.state = "absent"
    BY <1>3, EntryEffects DEF RecoverStalled, Promote, NoEntry, TypeOK, Entry
  <2>3. entry'.state \in Current => entry.state \in Current /\ entry'.made = entry.made
    BY <1>3, EntryEffects DEF TypeOK, Entry, NoEntry, RecoverStalled, Promote
  <2> QED BY <1>0, <2>1, <2>2, <2>3 DEF NumberInv, Within, YetToFinalize, Fresh
<1>4. ~LockOfLiveExpires
  BY <1>0 DEF LockOfLiveExpires
<1>5. ASSUME NEW d \in Tokens, Deliver(d) PROVE NumberInv'
  <2>1. /\ entry.state = "waiting"
        /\ run[d].pc = "idle" /\ run'[d].pc = "fetched"
        /\ run'[d].attempt = entry.made + 1
        /\ \A e \in Tokens \ {d} : run'[e] = run[e]
        /\ UNCHANGED <<job, inflight, event, faults>>
    BY <1>5 DEF Deliver, TypeOK, Run
  <2>2. entry'.made = entry.made
    BY <1>5 DEF Deliver, TypeOK, Entry
  <2>3. ~YetToFinalize(d)'
    BY <2>1 DEF OwnershipInv, YetToFinalize, Unfinalized
  <2>4. Within(entry.made + 1)'
    BY <1>0, <2>1, <2>2 DEF NumberInv, Within
  <2>5. \A e \in Tokens \ {d} : YetToFinalize(e)' => YetToFinalize(e)
    BY <2>1 DEF YetToFinalize
  <2> QED BY <1>0, <2>1, <2>3, <2>4, <2>5 DEF NumberInv
<1>6. ASSUME NEW d \in Tokens, Proceed(d) \/ Throws(d) \/ Crash(d) PROVE NumberInv'
  <2>1. /\ run[d].attempt = entry.made + 1 /\ HoldsLock(d)
        /\ run'[d].attempt = run[d].attempt
        /\ \A e \in Tokens \ {d} : run'[e] = run[e]
        /\ event' = event
        /\ ~Settle(d) => entry' = entry
    BY <1>6, CallEffects DEF ExclusiveInv
  <2>2. entry.state = "active"
    BY <2>1 DEF HoldsLock
  <2>3. \A e \in Tokens : /\ run'[e].attempt = run[e].attempt
                          /\ run[e].pc = "idle" => run'[e].pc = "idle"
    BY <1>6, AttemptsKept
  <2>4. \/ job' = job
        \/ job'.attempts = job.attempts /\ job'.runningToken = d
        \/ job'.attempts = run[d].attempt /\ job'.runningToken = job.runningToken
           /\ job.runningToken = d
    <3>1. CASE Claim(d)
      BY <3>1, RowEffects DEF Claim, Done
    <3>2. CASE Finalize(d)
      BY <3>2, RowEffects DEF Finalize, CanRetry, CanFail
    <3>3. CASE Commit(d)
      BY <3>3, RowEffects DEF Commit, CanSucceed
    <3> QED BY <1>6, <3>1, <3>2, <3>3
         DEF Proceed, Fetch, Recheck, Start, WriteFirst, WriteLast, FailTransiently,
             FailValidation, Discard, ResolveDoubt, ReadLatest, Record, Settle, Throws,
             ReadThrows, UpdateThrows, StartThrows, CommitThrows, DoubtUnread,
             DiscardThrows, RecordThrows, Crash
  <2>5. \A e \in Tokens \ {d} : inflight'[e] = inflight[e]
    BY <1>6 DEF Proceed, Fetch, Claim, Recheck, Start, WriteFirst, WriteLast,
         FailTransiently, FailValidation, Discard, Finalize, Commit, ResolveDoubt,
         ReadLatest, Record, Settle, Throws, ReadThrows, UpdateThrows, StartThrows,
         CommitThrows, DoubtUnread, DiscardThrows, RecordThrows, Crash, Unacknowledged,
         TypeOK
  <2>6. /\ job'.attempts <= entry.made + 1
        /\ \A e \in Tokens : run'[e].pc # "idle" => run'[e].attempt <= entry.made + 1
    <3>1. Within(entry.made + 1)
      BY <1>0, <2>2 DEF NumberInv
    <3>2. job'.attempts <= entry.made + 1
      BY <2>1, <2>4, <3>1 DEF Within
    <3> QED BY <2>3, <3>1, <3>2 DEF Within
  <2>7. entry'.made = entry.made \/ entry'.made = entry.made + 1
    <3>1. Settle(d) => entry'.made = entry.made + 1
      BY <2>1, SettleEffects
    <3> QED BY <2>1, <3>1
  <2>8. Within(entry.made + 1)'
    <3>1. job'.attempts \in Nat
      BY DEF TypeOK, JobRow
    <3> QED BY <2>3, <2>6, <2>7, <3>1 DEF Within
  <2>9. ASSUME NEW e \in Tokens, job'.runningToken = e, YetToFinalize(e)'
        PROVE  run'[e].attempt >= job'.attempts
    <3>1. CASE e = d
      BY <2>1, <2>6, <3>1
    <3>2. CASE e # d
      <4>1. job' = job /\ YetToFinalize(e)
        BY <2>1, <2>4, <2>5, <2>9, <3>2 DEF YetToFinalize
      <4> QED BY <1>0, <2>3, <2>9, <4>1 DEF NumberInv
    <3> QED BY <3>1, <3>2
  <2>10. ~(faults'["republish"] = 0 /\ event' = "pending")
    BY <1>0, <2>1, <2>2 DEF NumberInv
  <2> QED BY <2>8, <2>9, <2>10 DEF NumberInv
<1>7. ASSUME NEW d \in Tokens, Land(d) PROVE NumberInv'
  <2>1. /\ UNCHANGED <<entry, event, run>>
        /\ inflight[d] # "none" /\ inflight'[d] = "none"
        /\ \A e \in Tokens \ {d} : inflight'[e] = inflight[e]
    BY <1>7 DEF Land, queueVars, TypeOK
  <2>2. ~YetToFinalize(d)' /\ run[d].pc # "idle"
    BY <2>1 DEF OwnershipInv, YetToFinalize, Unfinalized
  <2>3. \/ job' = job
        \/ job'.attempts = job.attempts /\ job'.runningToken = d
        \/ job'.attempts = run[d].attempt /\ job'.runningToken = d
    BY <1>0, <1>7, RowEffects DEF Land, CanRetry, CanSucceed, CanFail, Done, TypeOK
  <2>4. ASSUME NEW e \in Tokens, job'.runningToken = e, YetToFinalize(e)'
        PROVE  run'[e].attempt >= job'.attempts
    <3>1. e # d
      BY <2>2, <2>4
    <3>2. job' = job /\ YetToFinalize(e)
      BY <2>1, <2>3, <2>4, <3>1 DEF YetToFinalize
    <3> QED BY <1>0, <2>1, <2>4, <3>2 DEF NumberInv
  <2>5. entry'.state \in Current => Within(entry.made + 1)'
    BY <1>0, <2>1, <2>2, <2>3 DEF NumberInv, Within
  <2>6. ~(faults'["republish"] = 0 /\ event' = "pending")
    BY <1>0, <2>1, <2>2 DEF NumberInv, Fresh
  <2> QED BY <2>4, <2>5, <2>6 DEF NumberInv
<1>8. CASE UNCHANGED vars \/ \E d \in Tokens : Vanish(d)
  <2>1. UNCHANGED <<job, event, entry, run, faults>>
    BY <1>8 DEF vars, Vanish, queueVars
  <2>2. \A e \in Tokens : inflight'[e] \in {inflight[e], "none"}
    BY <1>8 DEF vars, Vanish, TypeOK
  <2>3. \A e \in Tokens : YetToFinalize(e)' => YetToFinalize(e)
    BY <2>1, <2>2 DEF YetToFinalize
  <2> QED BY <1>0, <2>1, <2>3 DEF NumberInv, Within, Fresh
<1> QED BY <1>1, <1>2, <1>3, <1>4, <1>5, <1>6, <1>7, <1>8 DEF Next, Queue, Dispatch

\* A step that changes the row's number writes that of the attempt whose token it bears.
LEMMA AttemptsStep ==
    ASSUME IInv, NumberInv, [Next]_vars
    PROVE  job'.attempts >= job.attempts
<1> TypeOK
  BY DEF IInv
<1> /\ job \in JobRow /\ job.attempts \in Nat
    /\ \A d \in Tokens : run[d].attempt \in Nat
  BY DEF TypeOK, JobRow, Run
<1>1. CASE job' = job \/ job'.attempts = job.attempts
  BY <1>1
<1>2. ASSUME NEW d \in Tokens, Finalize(d) \/ Commit(d) PROVE job'.attempts >= job.attempts
  <2>1. YetToFinalize(d)
    BY <1>2 DEF Finalize, Commit, YetToFinalize, Unfinalized
  <2>2. \/ job' = job
        \/ job'.attempts = run[d].attempt /\ job.runningToken = d /\ ~Done
    BY <1>2, RowEffects
       DEF Finalize, Commit, CanRetry, CanFail, CanSucceed, Done, Terminal
  <2> QED BY <1>1, <2>1, <2>2 DEF NumberInv
<1>3. ASSUME NEW d \in Tokens, Land(d) PROVE job'.attempts >= job.attempts
  <2>1. CASE inflight[d] = "running"
    BY <1>1, <1>3, <2>1, RowEffects DEF Land
  <2>2. CASE inflight[d] # "running"
    <3>1. YetToFinalize(d)
      BY <1>3, <2>2 DEF Land, YetToFinalize, TypeOK
    <3>2. \/ job' = job
          \/ job'.attempts = run[d].attempt /\ job.runningToken = d /\ ~Done
      BY <1>3, <2>2, RowEffects
         DEF Land, CanRetry, CanFail, CanSucceed, Done, Terminal, TypeOK
    <3> QED BY <1>1, <3>1, <3>2 DEF NumberInv
  <2> QED BY <2>1, <2>2
<1>4. ASSUME NEW d \in Tokens, Proceed(d), ~(Finalize(d) \/ Commit(d))
      PROVE  job'.attempts = job.attempts
  BY <1>4, RowEffects
     DEF Proceed, Fetch, Claim, Recheck, Start, WriteFirst, WriteLast, FailTransiently,
         FailValidation, Discard, ResolveDoubt, ReadLatest, Record, Settle
<1>5. ASSUME NEW d \in Tokens, Throws(d) \/ Crash(d) \/ Vanish(d) PROVE job' = job
  BY <1>5 DEF Throws, ReadThrows, UpdateThrows, StartThrows, CommitThrows, DoubtUnread,
              DiscardThrows, RecordThrows, Crash, Vanish
<1>6. ASSUME Dispatch \/ RollbackPublished \/ LockOfDeadExpires \/ RecoverStalled
             \/ Promote \/ LockOfLiveExpires \/ Trim \/ UNCHANGED vars
      PROVE  job' = job
  BY <1>6
     DEF Dispatch, QueueAdd, CommitPublished, RollbackPublished, LockOfDeadExpires,
         RecoverStalled, Promote, LockOfLiveExpires, Trim, vars
<1>7. ASSUME NEW d \in Tokens, Deliver(d) PROVE job' = job
  BY <1>7 DEF Deliver
<1> QED BY <1>1, <1>2, <1>3, <1>4, <1>5, <1>6, <1>7 DEF Next, Queue

\* Errors, crashes and statements that execute late included: jobs.attempts never goes
\* back, unless a live attempt loses its lock or the entry is added twice.
THEOREM AttemptsNeverGoBack == Spec /\ []Orderly => AttemptsMonotonic
<1>1. Init => NumberInv
  <2>1. ASSUME Init, NEW d \in Tokens
        PROVE  run[d].pc = "idle" /\ inflight[d] = "none"
    <3>1. run = [e \in Tokens |-> NoRun]
      BY <2>1 DEF Init
    <3>2. run[d] = NoRun
      BY <3>1
    <3> QED BY <2>1, <3>2 DEF Init, NoRun
  <2>2. Init => entry.state = "absent" /\ job.attempts = 0
    BY DEF Init, NoEntry, NewJobRow
  <2> QED BY <2>1, <2>2 DEF NumberInv, Fresh, YetToFinalize, Unfinalized
<1>2. Orderly => NoPause
  BY DEF Orderly
<1>3. /\ IInv
      /\ NoPause => ExclusiveInv
      /\ Calm => FailureInv
      /\ NumberInv
      /\ Orderly /\ Orderly'
      /\ [Next]_vars
      => NumberInv'
  BY <1>2, NumberStep
<1>4. IInv /\ NumberInv /\ [Next]_vars => [job'.attempts >= job.attempts]_vars
  BY AttemptsStep
<1> QED BY <1>1, <1>3, <1>4, IInvHolds, ExclusiveHolds, FailureHolds, PTL
     DEF Spec, AttemptsMonotonic

-----------------------------------------------------------------------------
\* Exactly the tickets that succeeded are served.
LEMMA ServedIffSucceeded == SafeInv => ServedResult = (job.status = "succeeded")
BY SafeImpliesIntact DEF ServedResult, PublishedIntact

\* Every step moves the ticket as Ticket allows, or not at all.
LEMMA TicketStep == IInv /\ IInv' /\ [Next]_vars => [T!Next]_T!ticketVars
<1>1. (SafeInv => ServedResult = (job.status = "succeeded"))'
  BY ServedIffSucceeded, PTL
<1> SUFFICES ASSUME IInv, IInv', [Next]_vars PROVE [T!Next]_T!ticketVars
  OBVIOUS
<1> /\ ServedResult = (job.status = "succeeded")
    /\ ServedResult' = (job'.status = "succeeded")
  BY <1>1, ServedIffSucceeded DEF IInv, SafeInv
<1> HIDE DEF ServedResult
<1> TypeOK /\ OwnershipInv /\ AttemptInv
  BY DEF IInv
<1> USE DEF TypeOK
<1> DEFINE Moves ==
             \/ job' = job
             \/ /\ job.status \notin Terminal
                /\ job'.status = "running"
                /\ job'.attempts = job.attempts
             \/ /\ job.status = "running"
                /\ job'.status \in {"retrying", "succeeded", "failed"}
                /\ job'.attempts \in 1 .. QueueAttempts
<1>2. ASSUME NEW d \in Tokens, Proceed(d) PROVE Moves
  <2> run[d].attempt \in Nat
    BY DEF Run
  <2>1. CASE Claim(d)
    BY <2>1, RowEffects DEF Claim
  <2>2. CASE Finalize(d)
    <3>1. run[d].attempt \in 1 .. QueueAttempts
      BY <2>2 DEF Finalize, AttemptInv
    <3>2. job' # job => job.status = "running"
      BY <2>2, RowEffects
         DEF Finalize, CanRetry, CanFail, OwnershipInv, YetToFinalize, Unfinalized, Done
    <3> QED BY <2>2, <3>1, <3>2, RowEffects DEF Finalize
  <2>3. CASE Commit(d)
    <3>1. run[d].attempt \in 1 .. QueueAttempts
      BY <2>3 DEF Commit, AttemptInv
    <3>2. job' # job => job.status = "running"
      BY <2>3, RowEffects
         DEF Commit, CanSucceed, OwnershipInv, YetToFinalize, Unfinalized, Done
    <3> QED BY <2>3, <3>1, <3>2, RowEffects DEF Commit
  <2> QED BY <1>2, <2>1, <2>2, <2>3
        DEF Proceed, Fetch, Recheck, Start, WriteFirst, WriteLast, FailTransiently,
            FailValidation, Discard, ResolveDoubt, ReadLatest, Record, Settle
<1>3. ASSUME NEW d \in Tokens, Land(d) PROVE Moves
  <2>1. run[d].attempt \in 1 .. QueueAttempts
    BY <1>3 DEF Land, AttemptInv, OwnershipInv
  <2>2. CASE inflight[d] = "running"
    BY <1>3, <2>1, <2>2, RowEffects DEF Land
  <2>3. CASE inflight[d] # "running"
    <3>1. job' # job => job.status = "running"
      BY <1>3, <2>1, <2>3, RowEffects
         DEF Land, CanRetry, CanSucceed, CanFail, OwnershipInv, YetToFinalize, Done
    <3> QED BY <1>3, <2>1, <2>3, <3>1, RowEffects DEF Land
  <2> QED BY <2>2, <2>3
<1>4. ASSUME NEW d \in Tokens, Throws(d) \/ Crash(d) \/ Vanish(d) PROVE Moves
  BY <1>4 DEF Throws, ReadThrows, UpdateThrows, StartThrows, CommitThrows, DoubtUnread,
              DiscardThrows, RecordThrows, Crash, Vanish
<1>5. ASSUME Dispatch \/ RollbackPublished \/ Queue \/ LockOfLiveExpires \/ Trim
      PROVE  Moves
  BY <1>5 DEF Dispatch, QueueAdd, CommitPublished, RollbackPublished, Queue,
              LockOfDeadExpires, RecoverStalled, Promote, Deliver, LockOfLiveExpires, Trim
<1>6. ASSUME UNCHANGED vars PROVE Moves
  BY <1>6 DEF vars
<1>7. Moves
  BY <1>2, <1>3, <1>4, <1>5, <1>6 DEF Next
<1>8. job.status \in Statuses
  BY DEF JobRow
<1> QED BY <1>7, <1>8
      DEF T!Next, T!Run, T!Retry, T!Succeed, T!Fail, T!ticketVars, Terminal, Statuses

\* What a visitor sees of a ticket is a behaviour of Ticket.
THEOREM RefinesTicket == Spec => TicketSpec
<1>1. Init => T!Init
  BY DEF Init, T!Init, NewJobRow, ServedResult
<1> QED BY <1>1, IInvHolds, TicketStep, PTL DEF Spec, TicketSpec, T!Spec
=============================================================================
