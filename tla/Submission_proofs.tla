-------------------------- MODULE Submission_proofs --------------------------
(***************************************************************************)
(* Proofs about Submission, for any set of requests, keys and fingerprints *)
(* and any number of faults.                                               *)
(***************************************************************************)
EXTENDS Submission, TLAPS

\* What moving a call on does to the calls.
LEMMA ReqEffects ==
    ASSUME req \in [Requests -> Request], NEW r \in Requests
    PROVE  /\ \A pc \in PCs : Goto(r, pc) =>
                 /\ req' \in [Requests -> Request]
                 /\ req'[r].pc = pc
                 /\ req'[r].outcome = req[r].outcome
                 /\ req'[r].answer = req[r].answer
                 /\ \A o \in Requests \ {r} : req'[o] = req[o]
           /\ \A a \in Answers : AnswerWith(r, a) =>
                 /\ req' \in [Requests -> Request]
                 /\ req'[r].pc = "answered"
                 /\ req'[r].answer = a
                 /\ \A o \in Requests \ {r} : req'[o] = req[o]
           /\ \A a \in Answers : DiscardFor(r, a) =>
                 /\ req' \in [Requests -> Request]
                 /\ req'[r].pc = "discarding"
                 /\ req'[r].outcome = a
                 /\ req'[r].answer = req[r].answer
                 /\ \A o \in Requests \ {r} : req'[o] = req[o]
<1>1. ASSUME NEW pc \in PCs, Goto(r, pc)
      PROVE  /\ req' \in [Requests -> Request]
             /\ req'[r].pc = pc
             /\ req'[r].outcome = req[r].outcome
             /\ req'[r].answer = req[r].answer
             /\ \A o \in Requests \ {r} : req'[o] = req[o]
  BY <1>1 DEF Goto, Request
<1>2. ASSUME NEW a \in Answers, AnswerWith(r, a)
      PROVE  /\ req' \in [Requests -> Request]
             /\ req'[r].pc = "answered"
             /\ req'[r].answer = a
             /\ \A o \in Requests \ {r} : req'[o] = req[o]
  BY <1>2 DEF AnswerWith, Request, PCs
<1>3. ASSUME NEW a \in Answers, DiscardFor(r, a)
      PROVE  /\ req' \in [Requests -> Request]
             /\ req'[r].pc = "discarding"
             /\ req'[r].outcome = a
             /\ req'[r].answer = req[r].answer
             /\ \A o \in Requests \ {r} : req'[o] = req[o]
  BY <1>3 DEF DiscardFor, Request, PCs
<1> QED BY <1>1, <1>2, <1>3

LEMMA SpendingIsCounted ==
    ASSUME faults \in [FaultKinds -> Nat], NEW k \in FaultKinds, Spend(k)
    PROVE  faults' \in [FaultKinds -> Nat]
BY DEF Spend

\* Type correctness is preserved by every step.
LEMMA TypeStep == TypeOK /\ [Next]_vars => TypeOK'
<1> SUFFICES ASSUME TypeOK, [Next]_vars PROVE TypeOK'
  OBVIOUS
<1> USE DEF TypeOK, input, tables
<1> {"statement", "commit", "file", "crash"} \subseteq FaultKinds
  BY DEF FaultKinds
<1>1. ASSUME NEW r \in Requests, Handle(r) PROVE TypeOK'
  <2> USE ReqEffects DEF PCs, Answers
  <2>1. CASE Reject(r)
    BY <2>1 DEF Reject
  <2>2. CASE WriteUpload(r)
    BY <2>2 DEF WriteUpload
  <2>3. CASE Insert(r)
    <3>1. tx' \in [Requests -> TxStates]
      BY <2>3 DEF Insert, TxStates
    <3> QED BY <2>3, <3>1 DEF Insert
  <2>4. CASE InsertEvent(r)
    BY <2>4 DEF InsertEvent, TxStates
  <2>5. CASE Commit(r)
    BY <2>5 DEF Commit, TxStates
  <2>6. CASE Compare(r)
    BY <2>6 DEF Compare
  <2>7. CASE Discard(r)
    <3> req[r].outcome \in Answers
      BY DEF Request
    <3> QED BY <2>7 DEF Discard
  <2> QED BY <1>1, <2>1, <2>2, <2>3, <2>4, <2>5, <2>6, <2>7 DEF Handle
<1>2. ASSUME NEW r \in Requests, Throws(r) PROVE TypeOK'
  <2> USE ReqEffects, SpendingIsCounted DEF Answers
  <2>1. CASE WriteThrows(r)
    BY <2>1 DEF WriteThrows
  <2>2. CASE DiscardThrows(r)
    <3> req[r].outcome \in Answers
      BY DEF Request
    <3> QED BY <2>2 DEF DiscardThrows
  <2>3. CASE StatementThrows(r)
    <3>1. tx' \in [Requests -> TxStates]
      BY <2>3 DEF StatementThrows, TxStates
    <3> QED BY <2>3, <3>1 DEF StatementThrows
  <2>4. CASE CommitThrows(r)
    <3>1. tx' \in [Requests -> TxStates]
      BY <2>4 DEF CommitThrows, TxStates
    <3> QED BY <2>4, <3>1 DEF CommitThrows
  <2> QED BY <1>2, <2>1, <2>2, <2>3, <2>4 DEF Throws
<1>3. ASSUME NEW r \in Requests, Server(r) PROVE TypeOK'
  BY <1>3 DEF Server, Land, Abort, TxStates
<1>4. CASE Crash
  <2>1. req' \in [Requests -> Request]
    BY <1>4 DEF Crash, Request, PCs
  <2>2. tx' \in [Requests -> TxStates]
    BY <1>4 DEF Crash, TxStates
  <2> QED BY <1>4, <2>1, <2>2, SpendingIsCounted DEF Crash
<1>5. CASE UNCHANGED vars
  BY <1>5 DEF vars
<1> QED BY <1>1, <1>2, <1>3, <1>4, <1>5 DEF Next

\* The variables keep their types, for any number of requests and faults.
THEOREM TypeCorrect == Spec => []TypeOK
<1>1. Init => TypeOK
  BY DEF Init, TypeOK, Request, PCs, Answers, TxStates
<1> QED BY <1>1, TypeStep, PTL DEF Spec

-----------------------------------------------------------------------------
\* Type correctness aside, what the inductive invariant says.
Core == LockInv /\ PhaseInv /\ OutcomeInv /\ OneJobPerKey /\ OutboxComplete

\* A call that moves on without touching the server or the tables.
LEMMA QuietStep ==
    ASSUME TypeOK, Core, NEW r \in Requests, req' \in [Requests -> Request],
           UNCHANGED <<key, print, tx, jobs, events>>,
           \A o \in Requests \ {r} : req'[o] = req[o],
           req[r].pc \notin {"recording", "committing"},
           req'[r].pc \notin {"received", "recording", "committing"},
           req'[r].pc \in {"inserting", "comparing"} =>
               req[r].pc \in {"received", "inserting"},
           req'[r].pc # "answered" => req'[r].answer = req[r].answer /\ req[r].pc # "answered",
           req'[r].pc \notin {"answered", "crashed"} => key[r] \in Keys,
           req'[r].pc = "comparing" => Taken(r),
           req'[r].pc = "discarding" =>
              \/ req'[r].outcome = "error"
              \/ \E j \in jobs \ {r} :
                    /\ key[j] = key[r]
                    /\ req'[r].outcome = IF print[j] = print[r] THEN "replayed" ELSE "conflict"
    PROVE  Core'
<1> USE DEF Core
<1>1. LockInv' /\ OneJobPerKey' /\ OutboxComplete'
  BY DEF LockInv, OneJobPerKey, OutboxComplete, Taken, Blocked
<1>2. PhaseInv'
  BY DEF PhaseInv
<1>3. OutcomeInv'
  BY DEF OutcomeInv, Taken
<1> QED BY <1>1, <1>2, <1>3

\* The invariant survives the calls' own steps.
LEMMA HandleStep ==
    ASSUME TypeOK, Core, NEW r \in Requests, Handle(r)
    PROVE  Core'
<1> USE ReqEffects DEF TypeOK, input, tables
<1>1. CASE Reject(r)
  <2>1. "invalid" \in Answers
    BY DEF Answers
  <2> QED BY <1>1, <2>1, QuietStep DEF Reject
<1>2. CASE WriteUpload(r)
  <2>1. "inserting" \in PCs
    BY DEF PCs
  <2>2. key[r] \in Keys
    BY <1>2 DEF WriteUpload
  <2> QED BY <1>2, <2>1, <2>2, QuietStep DEF WriteUpload
<1>3. CASE Insert(r) /\ Taken(r)
  <2>1. "comparing" \in PCs
    BY DEF PCs
  <2>2. key[r] \in Keys
    BY <1>3 DEF Insert, Core, OutcomeInv
  <2> QED BY <1>3, <2>1, <2>2, QuietStep DEF Insert
<1>4. CASE Insert(r) /\ ~Taken(r)
  <2>1. "recording" \in PCs
    BY DEF PCs
  <2>2. /\ req'[r].pc = "recording"
        /\ req'[r].answer = req[r].answer
        /\ \A o \in Requests \ {r} : req'[o] = req[o]
        /\ tx' = [tx EXCEPT ![r] = "job"]
        /\ UNCHANGED <<key, print, jobs, events>>
        /\ req[r].pc = "inserting"
        /\ ~Blocked(r)
    BY <1>4, <2>1 DEF Insert
  <2>3. /\ tx'[r] = "job"
        /\ \A o \in Requests \ {r} : tx'[o] = tx[o]
    BY <2>2
  <2> USE DEF Core
  <2>4. key[r] \in Keys
    BY <2>2 DEF OutcomeInv
  <2>5. LockInv'
    BY <1>4, <2>2, <2>3, <2>4 DEF LockInv, Taken, Blocked
  <2>6. PhaseInv'
    BY <2>2, <2>3 DEF PhaseInv
  <2>7. OutcomeInv'
    BY <2>2, <2>4 DEF OutcomeInv, Taken
  <2> QED BY <2>2, <2>5, <2>6, <2>7 DEF OneJobPerKey, OutboxComplete
<1>5. CASE InsertEvent(r)
  <2>1. "committing" \in PCs
    BY DEF PCs
  <2>2. /\ req'[r].pc = "committing"
        /\ req'[r].answer = req[r].answer
        /\ \A o \in Requests \ {r} : req'[o] = req[o]
        /\ tx'[r] = "event"
        /\ \A o \in Requests \ {r} : tx'[o] = tx[o]
        /\ UNCHANGED <<key, print, jobs, events>>
        /\ req[r].pc = "recording"
    BY <1>5, <2>1 DEF InsertEvent
  <2> USE DEF Core
  <2>3. tx[r] = "job"
    BY <2>2 DEF PhaseInv
  <2>4. LockInv'
    BY <2>2, <2>3 DEF LockInv, Taken, Blocked
  <2>5. PhaseInv'
    BY <2>2, <2>3 DEF PhaseInv
  <2>6. OutcomeInv'
    BY <2>2 DEF OutcomeInv, Taken
  <2> QED BY <2>2, <2>4, <2>5, <2>6 DEF OneJobPerKey, OutboxComplete
<1>6. CASE Commit(r)
  <2>1. "created" \in Answers
    BY DEF Answers
  <2>2. /\ req'[r].pc = "answered"
        /\ \A o \in Requests \ {r} : req'[o] = req[o]
        /\ tx'[r] = "none"
        /\ \A o \in Requests \ {r} : tx'[o] = tx[o]
        /\ jobs' = jobs \cup {r}
        /\ events' = events \cup {r}
        /\ UNCHANGED <<key, print>>
        /\ req[r].pc = "committing"
    BY <1>6, <2>1 DEF Commit
  <2> USE DEF Core
  <2>3. tx[r] = "event"
    BY <2>2 DEF PhaseInv
  <2>4. key[r] \in Keys /\ ~Taken(r) /\ ~Blocked(r)
    BY <2>3 DEF LockInv
  <2>5. LockInv'
    BY <2>2, <2>4 DEF LockInv, Taken, Blocked
  <2>6. PhaseInv'
    BY <2>2, <2>3, <2>4 DEF PhaseInv
  <2>7. OutcomeInv'
    BY <2>2, <2>4 DEF OutcomeInv, Taken
  <2>8. OneJobPerKey'
    BY <2>2, <2>4 DEF OneJobPerKey, Taken
  <2> QED BY <2>2, <2>5, <2>6, <2>7, <2>8 DEF OutboxComplete
<1>7. CASE Compare(r)
  <2> DEFINE a == IF print[Existing(r)] = print[r] THEN "replayed" ELSE "conflict"
  <2>1. /\ Existing(r) \in jobs \ {r}
        /\ key[Existing(r)] = key[r]
    BY <1>7 DEF Compare, Existing, Taken, Core, OutcomeInv, PhaseInv
  <2>2. a \in Answers
    BY DEF Answers
  <2>3. /\ req' \in [Requests -> Request]
        /\ req'[r].pc = "discarding"
        /\ req'[r].outcome = a
        /\ req'[r].answer = req[r].answer
        /\ \A o \in Requests \ {r} : req'[o] = req[o]
        /\ UNCHANGED <<key, print, tx, jobs, events>>
        /\ req[r].pc = "comparing"
    BY <1>7, <2>2 DEF Compare
  <2>4. key[r] \in Keys
    BY <2>3 DEF Core, OutcomeInv
  <2> QED BY <2>1, <2>3, <2>4, QuietStep
<1>8. CASE Discard(r)
  <2>1. req[r].outcome \in Answers
    BY DEF Request
  <2> QED BY <1>8, <2>1, QuietStep DEF Discard
<1> QED BY <1>1, <1>2, <1>3, <1>4, <1>5, <1>6, <1>7, <1>8 DEF Handle

\* It survives statements that throw, and a COMMIT that throws.
LEMMA ThrowStep ==
    ASSUME TypeOK, Core, NEW r \in Requests, Throws(r)
    PROVE  Core'
<1> USE ReqEffects DEF TypeOK, input, tables
<1>1. CASE WriteThrows(r)
  <2>1. "error" \in Answers
    BY DEF Answers
  <2> QED BY <1>1, <2>1, QuietStep DEF WriteThrows
<1>2. CASE DiscardThrows(r)
  <2>1. req[r].outcome \in Answers
    BY DEF Request
  <2> QED BY <1>2, <2>1, QuietStep DEF DiscardThrows
<1>3. CASE StatementThrows(r) \/ CommitThrows(r)
  <2>1. "error" \in Answers
    BY DEF Answers
  <2>2. /\ req'[r].pc = "discarding"
        /\ req'[r].outcome = "error"
        /\ req'[r].answer = req[r].answer
        /\ \A o \in Requests \ {r} : req'[o] = req[o]
        /\ UNCHANGED <<key, print, jobs, events>>
        /\ req[r].pc \in {"inserting", "recording", "committing", "comparing"}
    BY <1>3, <2>1 DEF StatementThrows, CommitThrows
  <2>3. /\ tx'[r] \in {"none", "doomed", "uncertain"}
        /\ tx'[r] # "none" => tx[r] # "none"
        /\ \A o \in Requests \ {r} : tx'[o] = tx[o]
    BY <1>3, <2>2 DEF StatementThrows, CommitThrows, Core, PhaseInv
  <2> USE DEF Core
  <2>4. LockInv'
    BY <2>2, <2>3 DEF LockInv, Taken, Blocked
  <2>5. PhaseInv'
    BY <2>2, <2>3 DEF PhaseInv
  <2>6. OutcomeInv'
    BY <2>2 DEF OutcomeInv, Taken
  <2> QED BY <2>2, <2>4, <2>5, <2>6 DEF OneJobPerKey, OutboxComplete
<1> QED BY <1>1, <1>2, <1>3 DEF Throws

\* It survives the server's late COMMITs and rollbacks.
LEMMA ServerStep ==
    ASSUME TypeOK, Core, NEW r \in Requests, Server(r)
    PROVE  Core'
<1> USE DEF TypeOK, input, tables, Core
<1>1. /\ UNCHANGED <<key, print, req>>
      /\ tx[r] \in {"doomed", "uncertain"}
      /\ tx'[r] = "none"
      /\ \A o \in Requests \ {r} : tx'[o] = tx[o]
      /\ \/ jobs' = jobs /\ events' = events
         \/ jobs' = jobs \cup {r} /\ events' = events \cup {r}
  BY DEF Server, Land, Abort
<1>2. key[r] \in Keys /\ ~Taken(r) /\ ~Blocked(r)
  BY <1>1 DEF LockInv
<1>3. LockInv'
  BY <1>1, <1>2 DEF LockInv, Taken, Blocked
<1>4. PhaseInv'
  BY <1>1, <1>2 DEF PhaseInv
<1>5. OutcomeInv'
  BY <1>1, <1>2 DEF OutcomeInv, Taken
<1>6. OneJobPerKey'
  BY <1>1, <1>2 DEF OneJobPerKey, Taken
<1> QED BY <1>1, <1>3, <1>4, <1>5, <1>6 DEF OutboxComplete

\* It survives the death of the API process.
LEMMA CrashStep ==
    ASSUME TypeOK, Core, Crash
    PROVE  Core'
<1> USE DEF TypeOK, input, tables, Core
<1>1. ASSUME NEW r \in Requests
      PROVE  /\ \/ req'[r] = req[r] /\ req[r].pc \in {"received", "answered", "crashed"}
                \/ /\ req'[r].pc = "crashed"
                   /\ req'[r].answer = req[r].answer
                   /\ req[r].pc \notin {"received", "answered"}
             /\ tx'[r] = IF req[r].pc = "recording" THEN "doomed"
                         ELSE IF req[r].pc = "committing" THEN "uncertain" ELSE tx[r]
  BY <1>1 DEF Crash, Live, Request
<1>2. UNCHANGED <<key, print, jobs, events>>
  BY DEF Crash
<1>3. \A r \in Requests : tx'[r] # "none" <=> tx[r] # "none"
  BY <1>1 DEF PhaseInv
<1>4. LockInv'
  BY <1>2, <1>3 DEF LockInv, Taken, Blocked
<1>5. PhaseInv'
  BY <1>1, <1>2 DEF PhaseInv
<1>6. OutcomeInv'
  BY <1>1, <1>2 DEF OutcomeInv, Taken
<1> QED BY <1>2, <1>4, <1>5, <1>6 DEF OneJobPerKey, OutboxComplete

\* The whole inductive invariant.
LEMMA IInvHolds == Spec => []IInv
<1>1. Init => IInv
  <2>1. Init => TypeOK
    BY DEF Init, TypeOK, Request, PCs, Answers, TxStates
  <2> QED BY <2>1 DEF Init, IInv, LockInv, PhaseInv, OutcomeInv, OneJobPerKey, OutboxComplete
<1>2. IInv /\ [Next]_vars => IInv'
  <2> SUFFICES ASSUME IInv, [Next]_vars PROVE IInv'
    OBVIOUS
  <2>1. TypeOK /\ Core
    BY DEF IInv, Core
  <2>2. ASSUME UNCHANGED vars PROVE Core'
    BY <2>1, <2>2
       DEF Core, LockInv, PhaseInv, OutcomeInv, OneJobPerKey, OutboxComplete, Taken,
           Blocked, vars, input, tables
  <2>3. ASSUME NEW r \in Requests, Handle(r) \/ Throws(r) \/ Server(r) PROVE Core'
    BY <2>1, <2>3, HandleStep, ThrowStep, ServerStep
  <2>4. ASSUME Crash PROVE Core'
    BY <2>1, <2>4, CrashStep
  <2>5. Core'
    BY <2>2, <2>3, <2>4 DEF Next
  <2> QED BY <2>1, <2>5, TypeStep DEF IInv, Core
<1> QED BY <1>1, <1>2, PTL DEF Spec

\* A key has at most one job, however its requests race, fail and die.
THEOREM OneJobForEveryKey == Spec => []OneJobPerKey
BY IInvHolds, PTL DEF IInv

\* Jobs and outbox events are committed together.
THEOREM JobsHaveEvents == Spec => []OutboxComplete
BY IInvHolds, PTL DEF IInv

-----------------------------------------------------------------------------
\* Uploads outlive their jobs while no COMMIT is lost.
LEMMA LostCommitCounts ==
    ASSUME TypeOK, faults'["commit"] = 0
    PROVE  /\ ~Spend("commit")
           /\ [Next]_vars => faults["commit"] = 0
<1> "commit" \in FaultKinds
  BY DEF FaultKinds
<1> USE DEF TypeOK
<1>1. ASSUME NEW k \in FaultKinds, Spend(k) PROVE k # "commit" /\ faults["commit"] = 0
  BY <1>1 DEF Spend
<1>2. ASSUME [Next]_vars
      PROVE  UNCHANGED faults \/ \E k \in FaultKinds : Spend(k)
  BY <1>2 DEF Next, Handle, Throws, Server, Reject, WriteUpload, Insert, InsertEvent,
       Commit, Compare, Discard, WriteThrows, DiscardThrows, StatementThrows,
       CommitThrows, Land, Abort, Crash, vars, FaultKinds
<1> QED BY <1>1, <1>2

LEMMA UploadStep ==
    ASSUME faults'["commit"] = 0, TypeOK, Core, UploadInv, [Next]_vars
    PROVE  UploadInv'
<1> USE ReqEffects DEF TypeOK, input, tables, Core, UploadInv
<1>1. ASSUME NEW r \in Requests, Handle(r) PROVE UploadInv'
  <2> USE DEF PhaseInv
  <2>1. CASE Reject(r)
    BY <2>1 DEF Reject, Answers
  <2>2. CASE WriteUpload(r)
    BY <2>2 DEF WriteUpload, PCs
  <2>3. CASE Insert(r)
    <3>1. /\ req[r].pc = "inserting"
          /\ req'[r].pc \in {"comparing", "recording"}
          /\ \A o \in Requests \ {r} : req'[o] = req[o]
          /\ tx'[r] # "uncertain"
          /\ \A o \in Requests \ {r} : tx'[o] = tx[o]
          /\ UNCHANGED <<uploads, jobs>>
      BY <2>3 DEF Insert, PCs
    <3> QED BY <3>1
  <2>4. CASE InsertEvent(r)
    BY <2>4 DEF InsertEvent, PCs
  <2>5. CASE Commit(r)
    BY <2>5 DEF Commit, Answers
  <2>6. CASE Compare(r)
    <3>1. /\ req[r].pc = "comparing"
          /\ req'[r].pc = "discarding"
          /\ \A o \in Requests \ {r} : req'[o] = req[o]
          /\ UNCHANGED <<uploads, tx, jobs>>
      BY <2>6 DEF Compare, Answers
    <3> QED BY <3>1
  <2>7. CASE Discard(r)
    <3>1. req[r].outcome \in Answers
      BY DEF Request
    <3> QED BY <2>7, <3>1 DEF Discard
  <2> QED BY <1>1, <2>1, <2>2, <2>3, <2>4, <2>5, <2>6, <2>7 DEF Handle
<1>2. ASSUME NEW r \in Requests, Throws(r) PROVE UploadInv'
  <2> USE DEF PhaseInv
  <2>1. CASE WriteThrows(r)
    BY <2>1 DEF WriteThrows, Answers
  <2>2. CASE DiscardThrows(r)
    <3>1. req[r].outcome \in Answers
      BY DEF Request
    <3> QED BY <2>2, <3>1 DEF DiscardThrows
  <2>3. CASE StatementThrows(r)
    <3>1. /\ req[r].pc \in {"inserting", "recording", "comparing"}
          /\ req'[r].pc = "discarding"
          /\ \A o \in Requests \ {r} : req'[o] = req[o]
          /\ tx'[r] \in {"none", "doomed"}
          /\ \A o \in Requests \ {r} : tx'[o] = tx[o]
          /\ UNCHANGED <<uploads, jobs>>
      BY <2>3 DEF StatementThrows, Answers
    <3>2. r \notin jobs
      BY <3>1
    <3> QED BY <3>1, <3>2
  <2>4. ~CommitThrows(r)
    BY LostCommitCounts DEF CommitThrows
  <2> QED BY <1>2, <2>1, <2>2, <2>3, <2>4 DEF Throws
<1>3. ASSUME NEW r \in Requests, Server(r) PROVE UploadInv'
  BY <1>3 DEF Server, Land, Abort
<1>4. CASE Crash
  <2>1. \A r \in Requests :
           /\ req'[r].pc = req[r].pc \/ req'[r].pc = "crashed"
           /\ tx'[r] = "uncertain" => req[r].pc = "committing" \/ tx[r] = "uncertain"
           /\ req'[r].pc = "discarding" => req[r].pc = "discarding" /\ tx'[r] = tx[r]
    BY <1>4 DEF Crash, Live, Request
  <2> QED BY <1>4, <2>1 DEF Crash
<1>5. CASE UNCHANGED vars
  BY <1>5 DEF vars
<1> QED BY <1>1, <1>2, <1>3, <1>4, <1>5 DEF Next

\* As long as no COMMIT is lost, no fault and no number of racing requests removes the
\* upload of a job.
THEOREM UploadsOutliveJobs == Spec => []UploadKept
<1> DEFINE Kept == faults["commit"] = 0 => UploadInv
<1>1. Init => Kept
  BY DEF Init, UploadInv
<1>2. IInv /\ Kept /\ [Next]_vars => Kept'
  BY UploadStep, LostCommitCounts DEF IInv, Core
<1>3. IInv /\ Kept => UploadKept
  BY DEF IInv, TypeOK, UploadInv, UploadKept, UploadBehindJob
<1> QED BY <1>1, <1>2, <1>3, IInvHolds, PTL DEF Spec

-----------------------------------------------------------------------------
\* Losers, replays and failures remove their uploads while no process dies and no
\* file operation throws.
NoFileFault == faults["crash"] = 0 /\ faults["file"] = 0

\* An upload belongs to a job, or to a call that has yet to commit or to discard it.
OwnedInv ==
    \A r \in uploads :
        \/ r \in jobs
        \/ req[r].pc \in {"inserting", "recording", "committing", "comparing", "discarding"}

LEMMA FileFaultCounts ==
    ASSUME TypeOK, NoFileFault'
    PROVE  /\ ~Spend("crash") /\ ~Spend("file")
           /\ [Next]_vars => NoFileFault
<1> {"crash", "file"} \subseteq FaultKinds
  BY DEF FaultKinds
<1> USE DEF TypeOK, NoFileFault
<1>1. ASSUME NEW k \in FaultKinds, Spend(k)
      PROVE  k \notin {"crash", "file"} /\ NoFileFault
  BY <1>1 DEF Spend
<1>2. ASSUME [Next]_vars
      PROVE  UNCHANGED faults \/ \E k \in FaultKinds : Spend(k)
  BY <1>2 DEF Next, Handle, Throws, Server, Reject, WriteUpload, Insert, InsertEvent,
       Commit, Compare, Discard, WriteThrows, DiscardThrows, StatementThrows,
       CommitThrows, Land, Abort, Crash, vars, FaultKinds
<1> QED BY <1>1, <1>2

LEMMA OwnedStep ==
    ASSUME NoFileFault', TypeOK, OwnedInv, [Next]_vars
    PROVE  OwnedInv'
<1> USE ReqEffects DEF TypeOK, input, tables, OwnedInv
<1>1. ASSUME NEW r \in Requests, Handle(r) PROVE OwnedInv'
  <2>1. CASE Reject(r)
    BY <2>1 DEF Reject, Answers
  <2>2. CASE WriteUpload(r)
    BY <2>2 DEF WriteUpload, PCs
  <2>3. CASE Insert(r)
    BY <2>3 DEF Insert, PCs
  <2>4. CASE InsertEvent(r)
    BY <2>4 DEF InsertEvent, PCs
  <2>5. CASE Commit(r)
    BY <2>5 DEF Commit, Answers
  <2>6. CASE Compare(r)
    BY <2>6 DEF Compare, Answers
  <2>7. CASE Discard(r)
    <3>1. req[r].outcome \in Answers
      BY DEF Request
    <3> QED BY <2>7, <3>1 DEF Discard
  <2> QED BY <1>1, <2>1, <2>2, <2>3, <2>4, <2>5, <2>6, <2>7 DEF Handle
<1>2. ASSUME NEW r \in Requests, Throws(r) PROVE OwnedInv'
  <2>1. ~WriteThrows(r) /\ ~DiscardThrows(r)
    BY FileFaultCounts DEF WriteThrows, DiscardThrows
  <2>2. CASE StatementThrows(r)
    BY <2>2 DEF StatementThrows, Answers
  <2>3. CASE CommitThrows(r)
    BY <2>3 DEF CommitThrows, Answers
  <2> QED BY <1>2, <2>1, <2>2, <2>3 DEF Throws
<1>3. ASSUME NEW r \in Requests, Server(r) PROVE OwnedInv'
  BY <1>3 DEF Server, Land, Abort
<1>4. ~Crash
  BY FileFaultCounts DEF Crash
<1>5. CASE UNCHANGED vars
  BY <1>5 DEF vars
<1> QED BY <1>1, <1>2, <1>3, <1>4, <1>5 DEF Next

\* However requests race and whatever the database does, an upload that no job owns is
\* removed before its call is over.
THEOREM UploadsHaveJobs == Spec => []NoOrphanUploads
<1> DEFINE Owned == NoFileFault => OwnedInv
<1>1. Init => Owned
  BY DEF Init, OwnedInv
<1>2. TypeOK /\ Owned /\ [Next]_vars => Owned'
  BY OwnedStep, FileFaultCounts
<1>3. TypeOK /\ Owned => NoOrphanUploads
  BY DEF TypeOK, OwnedInv, NoFileFault, NoOrphanUploads, Live
<1> QED BY <1>1, <1>2, <1>3, TypeCorrect, PTL DEF Spec

-----------------------------------------------------------------------------
\* The owner of a key is the request whose job carries it.
LEMMA OwnerIs ==
    ASSUME OneJobPerKey, NEW k \in Keys
    PROVE  /\ \A j \in jobs : key[j] = k => Owner[k] = j
           /\ (\A j \in jobs : key[j] # k) => Owner[k] = NoRequest
BY DEF OneJobPerKey, Owner

\* A new job under a free key gives the key its owner.
LEMMA OwnerGrows ==
    ASSUME OneJobPerKey, OneJobPerKey', NEW r \in Requests, key[r] \in Keys, ~Taken(r),
           jobs' = jobs \cup {r}, key' = key
    PROVE  /\ Owner[key[r]] = NoRequest
           /\ Owner' = [Owner EXCEPT ![key[r]] = r]
<1>1. Owner[key[r]] = NoRequest
  BY OwnerIs DEF Taken
<1>2. ASSUME NEW k \in Keys PROVE Owner'[k] = IF k = key[r] THEN r ELSE Owner[k]
  <2>1. /\ \A j \in jobs : key[j] = k => Owner[k] = j
        /\ (\A j \in jobs : key[j] # k) => Owner[k] = NoRequest
    BY OwnerIs
  <2>2. Owner'[k] = IF \E j \in jobs' : key'[j] = k
                    THEN CHOOSE j \in jobs' : key'[j] = k ELSE NoRequest
    BY DEF Owner
  <2>3. CASE k = key[r]
    BY <2>2, <2>3 DEF OneJobPerKey
  <2>4. CASE k # key[r]
    <3>1. CASE \E j \in jobs : key[j] = k
      BY <2>1, <2>2, <2>4, <3>1 DEF OneJobPerKey
    <3>2. CASE \A j \in jobs : key[j] # k
      BY <2>1, <2>2, <2>4, <3>2
    <3> QED BY <3>1, <3>2
  <2> QED BY <2>3, <2>4
<1>3. Owner' = [k \in Keys |-> Owner'[k]] /\ Owner = [k \in Keys |-> Owner[k]]
  BY DEF Owner
<1> QED BY <1>1, <1>2, <1>3

\* What moving a call on tells its client: nothing, or the answer.
LEMMA ToldEffects ==
    ASSUME TypeOK, NEW r \in Requests
    PROVE  /\ \A pc \in PCs : Goto(r, pc) => Told' = Told
           /\ \A a \in Answers : DiscardFor(r, a) => Told' = Told
           /\ \A a \in Answers : AnswerWith(r, a) => Told' = [Told EXCEPT ![r] = a]
<1> USE ReqEffects DEF TypeOK, Told
<1>1. ASSUME NEW pc \in PCs, Goto(r, pc) PROVE Told' = Told
  BY <1>1
<1>2. ASSUME NEW a \in Answers, DiscardFor(r, a) PROVE Told' = Told
  BY <1>2
<1>3. ASSUME NEW a \in Answers, AnswerWith(r, a) PROVE Told' = [Told EXCEPT ![r] = a]
  <2>1. \A o \in Requests : req'[o].answer = IF o = r THEN a ELSE req[o].answer
    BY <1>3
  <2> QED BY <2>1
<1> QED BY <1>1, <1>2, <1>3

\* Every step moves the store as IdempotentStore allows, or not at all.
LEMMA StoreStep == IInv /\ IInv' /\ [Next]_vars => [S!Next]_S!storeVars
<1> SUFFICES ASSUME IInv, IInv', [Next]_vars PROVE [S!Next]_S!storeVars
  OBVIOUS
<1> USE DEF input, tables
<1> DEFINE Still == key' = key /\ print' = print /\ Owner' = Owner /\ Told' = Told
<1>1. TypeOK /\ Core
  BY DEF IInv, Core
<1>2. Still => UNCHANGED S!storeVars
  BY DEF S!storeVars
<1>3. jobs' = jobs /\ key' = key => Owner' = Owner
  BY DEF Owner
<1>4. \A r \in Requests : req[r].pc # "answered" => Told[r] = "none"
  BY <1>1 DEF Core, OutcomeInv, Told
<1>5. ASSUME NEW r \in Requests, jobs' = jobs \cup {r}, key' = key,
             key[r] \in Keys, ~Taken(r)
      PROVE  Owner[key[r]] = NoRequest /\ Owner' = [Owner EXCEPT ![key[r]] = r]
  BY <1>5, OwnerGrows DEF IInv
\* What a call that is to answer from another's job says of the key's owner.
<1>6. ASSUME NEW r \in Requests, req[r].pc = "discarding", req[r].outcome # "error"
      PROVE  /\ key[r] \in Keys
             /\ Owner[key[r]] \in Requests \ {r}
             /\ req[r].outcome =
                   IF print[Owner[key[r]]] = print[r] THEN "replayed" ELSE "conflict"
  <2>1. key[r] \in Keys
    BY <1>1, <1>6 DEF Core, OutcomeInv
  <2>2. PICK j \in jobs \ {r} :
           /\ key[j] = key[r]
           /\ req[r].outcome = IF print[j] = print[r] THEN "replayed" ELSE "conflict"
    BY <1>1, <1>6 DEF Core, OutcomeInv
  <2>3. Owner[key[r]] = j
    BY <1>1, <2>1, <2>2, OwnerIs DEF Core
  <2> QED BY <1>1, <2>1, <2>2, <2>3 DEF TypeOK
<1>7. ASSUME NEW r \in Requests, Handle(r) PROVE [S!Next]_S!storeVars
  <2>1. CASE Reject(r)
    <3>1. "invalid" \in Answers
      BY DEF Answers
    <3>2. S!Refused(r)
      BY <1>1, <1>3, <1>4, <2>1, <3>1, ToldEffects, SubmissionAssumption
         DEF Reject, S!Refused, S!Answer
    <3> QED BY <3>2 DEF S!Next
  <2>2. CASE WriteUpload(r) \/ InsertEvent(r)
    <3>1. "inserting" \in PCs /\ "committing" \in PCs
      BY DEF PCs
    <3>2. Still
      BY <1>1, <1>3, <2>2, <3>1, ToldEffects DEF WriteUpload, InsertEvent
    <3> QED BY <1>2, <3>2
  <2>3. CASE Insert(r)
    <3>1. "comparing" \in PCs /\ "recording" \in PCs
      BY DEF PCs
    <3>2. Still
      BY <1>1, <1>3, <2>3, <3>1, ToldEffects DEF Insert
    <3> QED BY <1>2, <3>2
  <2>4. CASE Commit(r)
    <3>1. "created" \in Answers
      BY DEF Answers
    <3>2. key[r] \in Keys /\ ~Taken(r) /\ req[r].pc = "committing"
      BY <1>1, <2>4 DEF Commit, Core, PhaseInv, LockInv
    <3>3. S!Created(r)
      BY <1>1, <1>4, <1>5, <2>4, <3>1, <3>2, ToldEffects DEF Commit, S!Created
    <3> QED BY <3>3 DEF S!Next
  <2>5. CASE Compare(r)
    <3>1. "replayed" \in Answers /\ "conflict" \in Answers
      BY DEF Answers
    <3>2. Still
      BY <1>1, <1>3, <2>5, <3>1, ToldEffects DEF Compare
    <3> QED BY <1>2, <3>2
  <2>6. CASE Discard(r)
    <3>1. /\ req[r].pc = "discarding"
          /\ req[r].outcome \in Answers
          /\ Told' = [Told EXCEPT ![r] = req[r].outcome]
          /\ Owner' = Owner
          /\ UNCHANGED <<key, print>>
      BY <1>1, <1>3, <2>6, ToldEffects DEF Discard, TypeOK, Request
    <3>2. S!Failed(r) \/ S!Replayed(r) \/ S!Conflict(r)
      BY <1>4, <1>6, <3>1 DEF S!Failed, S!Replayed, S!Conflict, S!Answer
    <3> QED BY <3>2 DEF S!Next
  <2> QED BY <1>7, <2>1, <2>2, <2>3, <2>4, <2>5, <2>6 DEF Handle
<1>8. ASSUME NEW r \in Requests, Throws(r) PROVE [S!Next]_S!storeVars
  <2> "error" \in Answers
    BY DEF Answers
  <2>1. CASE WriteThrows(r)
    <3>1. S!Failed(r)
      BY <1>1, <1>3, <1>4, <2>1, ToldEffects DEF WriteThrows, S!Failed, S!Answer
    <3> QED BY <3>1 DEF S!Next
  <2>2. CASE DiscardThrows(r)
    <3>1. /\ req[r].pc = "discarding"
          /\ req[r].outcome \in Answers
          /\ Told' = [Told EXCEPT ![r] = req[r].outcome]
          /\ Owner' = Owner
          /\ UNCHANGED <<key, print>>
      BY <1>1, <1>3, <2>2, ToldEffects DEF DiscardThrows, TypeOK, Request
    <3>2. S!Failed(r) \/ S!Replayed(r) \/ S!Conflict(r)
      BY <1>4, <1>6, <3>1 DEF S!Failed, S!Replayed, S!Conflict, S!Answer
    <3> QED BY <3>2 DEF S!Next
  <2>3. CASE StatementThrows(r) \/ CommitThrows(r)
    <3>1. Still
      BY <1>1, <1>3, <2>3, ToldEffects DEF StatementThrows, CommitThrows
    <3> QED BY <1>2, <3>1
  <2> QED BY <1>8, <2>1, <2>2, <2>3 DEF Throws
<1>9. ASSUME NEW r \in Requests, Server(r) PROVE [S!Next]_S!storeVars
  <2>1. Told' = Told
    BY <1>9 DEF Server, Land, Abort, Told
  <2>2. CASE Land(r)
    <3>1. key[r] \in Keys /\ ~Taken(r)
      BY <1>1, <2>2 DEF Land, Core, LockInv
    <3>2. S!Accept(r)
      BY <1>5, <2>1, <2>2, <3>1 DEF Land, S!Accept
    <3> QED BY <3>2 DEF S!Next
  <2>3. CASE Abort(r)
    BY <1>2, <1>3, <2>1, <2>3 DEF Abort
  <2> QED BY <1>9, <2>2, <2>3 DEF Server
<1>10. ASSUME Crash PROVE Still
  <2>1. \A r \in Requests : req'[r].answer = req[r].answer
    BY <1>1, <1>10 DEF Crash, TypeOK, Request
  <2> QED BY <1>3, <1>10, <2>1 DEF Crash, Told
<1>11. ASSUME UNCHANGED vars PROVE Still
  BY <1>3, <1>11 DEF vars, Told
<1> QED BY <1>2, <1>7, <1>8, <1>9, <1>10, <1>11 DEF Next

\* Every answer agrees with the first job of its key.
THEOREM RefinesStore == Spec => StoreSpec
<1>1. Init => S!Init
  BY DEF Init, S!Init, Owner, Told
<1> QED BY <1>1, IInvHolds, StoreStep, PTL DEF Spec, StoreSpec, S!Spec

-----------------------------------------------------------------------------
\* What the answers given under one key have to do with each other.

\* Every answer is true of the key's owner.
AnswersMatch ==
    \A r \in Requests :
        /\ Told[r] = "created" => key[r] \in Keys /\ Owner[key[r]] = r
        /\ Told[r] \in {"replayed", "conflict"} =>
              /\ key[r] \in Keys
              /\ Owner[key[r]] \in Requests \ {r}
              /\ Told[r] = "replayed" <=> print[Owner[key[r]]] = print[r]
        /\ Told[r] = "invalid" => key[r] \notin Keys

\* A key keeps its owner and a client its answer.
WordKept ==
    /\ \A k \in Keys : Owner[k] # NoRequest => Owner'[k] = Owner[k]
    /\ \A r \in Requests : Told[r] # "none" => Told'[r] = Told[r]
    /\ key' = key /\ print' = print

LEMMA StoreTypes ==
    ASSUME TypeOK
    PROVE  /\ Told \in [Requests -> Answers]
           /\ Owner \in [Keys -> Requests \cup {NoRequest}]
<1>1. Told \in [Requests -> Answers]
  BY DEF TypeOK, Told, Request
<1>2. \A k \in Keys : Owner[k] \in Requests \cup {NoRequest}
  BY DEF TypeOK, Owner
<1> QED BY <1>1, <1>2 DEF Owner

\* What a step of the store changes: one answer at most, given when it is true, and
\* the owner of a key that has none.
LEMMA AnswerStep ==
    ASSUME TypeOK, [S!Next]_S!storeVars
    PROVE  WordKept /\ (AnswersMatch => AnswersMatch')
<1> USE StoreTypes, SubmissionAssumption
<1> HIDE DEF Owner, Told
<1>1. ASSUME NEW r \in Requests, S!Accept(r)
      PROVE  WordKept /\ (AnswersMatch => AnswersMatch')
  BY <1>1 DEF S!Accept, WordKept, AnswersMatch
<1>2. ASSUME NEW r \in Requests, S!Created(r)
      PROVE  WordKept /\ (AnswersMatch => AnswersMatch')
  BY <1>2 DEF S!Created, WordKept, AnswersMatch, Answers
<1>3. ASSUME NEW r \in Requests, NEW a \in Answers, S!Answer(r, a)
      PROVE  /\ WordKept
             /\ Owner' = Owner
             /\ Told'[r] = a
             /\ \A o \in Requests \ {r} : Told'[o] = Told[o]
  BY <1>3 DEF S!Answer, WordKept
<1>4. ASSUME NEW r \in Requests, S!Replayed(r) \/ S!Conflict(r) \/ S!Refused(r) \/ S!Failed(r)
      PROVE  WordKept /\ (AnswersMatch => AnswersMatch')
  <2>1. PICK a \in {"replayed", "conflict", "invalid", "error"} :
           /\ S!Answer(r, a)
           /\ a \in {"replayed", "conflict"} =>
                 /\ key[r] \in Keys
                 /\ Owner[key[r]] \in Requests \ {r}
                 /\ a = "replayed" <=> print[Owner[key[r]]] = print[r]
           /\ a = "invalid" => key[r] \notin Keys
    BY <1>4 DEF S!Replayed, S!Conflict, S!Refused, S!Failed
  <2>2. a \in Answers
    BY DEF Answers
  <2> QED BY <1>3, <2>1, <2>2 DEF AnswersMatch, WordKept
<1>5. ASSUME UNCHANGED S!storeVars
      PROVE  WordKept /\ (AnswersMatch => AnswersMatch')
  BY <1>5 DEF S!storeVars, WordKept, AnswersMatch
<1> QED BY <1>1, <1>2, <1>4, <1>5 DEF S!Next

LEMMA AnswersMatchHolds == Spec => [](IInv /\ AnswersMatch)
<1>1. Init => AnswersMatch
  BY DEF Init, AnswersMatch, Told
<1>2. IInv /\ IInv' /\ AnswersMatch /\ [Next]_vars => AnswersMatch'
  BY StoreStep, AnswerStep DEF IInv
<1> QED BY <1>1, <1>2, IInvHolds, PTL DEF Spec

\* Whichever of the racing calls wins, and whatever fails: of the clients that used
\* one key at most one is told that it created the job, two that are both given the
\* job sent the same payload, and one that is given it and one that is refused it did
\* not (submitImageJob.ts: 202, 200 or 409).
ClientsAgree ==
    \A a, b \in Requests : a # b /\ key[a] = key[b] =>
        /\ ~(Told[a] = "created" /\ Told[b] = "created")
        /\ {Told[a], Told[b]} \subseteq {"created", "replayed"} => print[a] = print[b]
        /\ Told[a] \in {"created", "replayed"} /\ Told[b] = "conflict" => print[a] # print[b]

THEOREM AnswersAgree == Spec => []ClientsAgree
<1>1. ASSUME IInv, AnswersMatch, NEW a \in Requests, NEW b \in Requests, a # b, key[a] = key[b]
      PROVE  /\ ~(Told[a] = "created" /\ Told[b] = "created")
             /\ {Told[a], Told[b]} \subseteq {"created", "replayed"} => print[a] = print[b]
             /\ Told[a] \in {"created", "replayed"} /\ Told[b] = "conflict" => print[a] # print[b]
  <2> DEFINE o == Owner[key[a]]
  <2>1. \A r \in {a, b} :
           /\ Told[r] = "created" => r = o
           /\ Told[r] = "replayed" => r # o /\ print[o] = print[r]
           /\ Told[r] = "conflict" => r # o /\ print[o] # print[r]
    BY <1>1 DEF AnswersMatch
  <2> HIDE DEF o
  <2> QED BY <1>1, <2>1
<1>2. IInv /\ AnswersMatch => ClientsAgree
  BY <1>1 DEF ClientsAgree
<1> QED BY <1>2, AnswersMatchHolds, PTL

\* The 202 is given only once the job and its outbox event are committed, a replay or
\* a conflict only while another request's are, and none of them is ever taken back,
\* nor the key given to another job (submitImageJob.ts: "the 202 is gated on the
\* COMMIT").
AnswersAreBacked ==
    \A r \in Requests :
        /\ Told[r] = "created" => r \in jobs /\ r \in events
        /\ Told[r] \in {"replayed", "conflict"} =>
              /\ r \notin jobs
              /\ \E j \in jobs \cap events : key[j] = key[r]

THEOREM AcceptedJobsLast ==
    Spec => []AnswersAreBacked /\ [][WordKept]_vars
<1>1. ASSUME IInv, AnswersMatch PROVE AnswersAreBacked
  <2>1. ASSUME NEW k \in Keys, Owner[k] \in Requests
        PROVE  Owner[k] \in jobs \cap events /\ key[Owner[k]] = k
    BY <1>1, <2>1, SubmissionAssumption DEF Owner, IInv, OutboxComplete
  <2>2. ASSUME NEW r \in Requests, Told[r] = "created"
        PROVE  r \in jobs /\ r \in events
    <3>1. key[r] \in Keys /\ Owner[key[r]] = r
      BY <1>1, <2>2 DEF AnswersMatch
    <3> QED BY <2>1, <3>1
  <2>3. ASSUME NEW r \in Requests, Told[r] \in {"replayed", "conflict"}
        PROVE  r \notin jobs /\ \E j \in jobs \cap events : key[j] = key[r]
    <3>1. key[r] \in Keys /\ Owner[key[r]] \in Requests \ {r}
      BY <1>1, <2>3 DEF AnswersMatch
    <3>2. Owner[key[r]] \in jobs \cap events /\ key[Owner[key[r]]] = key[r]
      BY <2>1, <3>1
    <3> QED BY <1>1, <3>1, <3>2 DEF IInv, OneJobPerKey
  <2> QED BY <2>2, <2>3 DEF AnswersAreBacked
<1>2. IInv /\ IInv' /\ [Next]_vars => WordKept
  BY StoreStep, AnswerStep DEF IInv
<1> QED BY <1>1, <1>2, AnswersMatchHolds, IInvHolds, PTL DEF Spec

-----------------------------------------------------------------------------
\* Calls that wait for each other.

\* A call that waits in its INSERT waits for one transaction only.  That one waits
\* for nobody: its call is at its next statement or at its COMMIT, or its connection
\* is lost and the server will end it.  So there is no chain of waiting calls, and no
\* deadlock, however many race (jobsRepo.ts, ON CONFLICT DO NOTHING).
WaitsAreShort ==
    \A r \in Requests : req[r].pc = "inserting" /\ Blocked(r) =>
        \E o \in Requests \ {r} :
            /\ \A u \in Requests \ {r} : key[u] = key[r] /\ tx[u] # "none" <=> u = o
            /\ ~Blocked(o)
            /\ \/ req[o].pc \in {"recording", "committing"}
               \/ tx[o] \in {"doomed", "uncertain"}

THEOREM NoWaitingInCircles == Spec => []WaitsAreShort
<1>1. ASSUME IInv, NEW r \in Requests, Blocked(r)
      PROVE  \E o \in Requests \ {r} :
                /\ \A u \in Requests \ {r} : key[u] = key[r] /\ tx[u] # "none" <=> u = o
                /\ ~Blocked(o)
                /\ \/ req[o].pc \in {"recording", "committing"}
                   \/ tx[o] \in {"doomed", "uncertain"}
  <2>1. PICK o \in Requests \ {r} : tx[o] # "none" /\ key[o] = key[r]
    BY <1>1 DEF Blocked
  <2>2. ~Blocked(o)
    BY <1>1, <2>1 DEF IInv, LockInv
  <2>3. req[o].pc \in {"recording", "committing"} \/ tx[o] \in {"doomed", "uncertain"}
    BY <1>1, <2>1 DEF IInv, PhaseInv, TypeOK, TxStates
  <2>4. \A u \in Requests \ {r} : key[u] = key[r] /\ tx[u] # "none" <=> u = o
    BY <2>1, <2>2 DEF Blocked
  <2> QED BY <2>2, <2>3, <2>4
<1>2. IInv => WaitsAreShort
  BY <1>1 DEF WaitsAreShort
<1> QED BY <1>2, IInvHolds, PTL
=============================================================================
