------------------------------ MODULE Retention ------------------------------
(***************************************************************************)
(* The retention sweeper (cleanup/retention.ts) against the attempts that  *)
(* still write files: sweepOnce deletes the files of the jobs that         *)
(* finished more than RETENTION_MINUTES ago, then marks them purged.  Who  *)
(* may end a job is Processing's matter: here any attempt may.             *)
(***************************************************************************)
EXTENDS Naturals, FiniteSets

CONSTANTS
    Jobs,
    Tokens,     \* attempts of a job
    NoToken,
    BatchSize,  \* how many jobs a sweep takes (100)
    MaxFaults   \* bound: how many faults of each kind a behaviour has

\* A sweep's rm fails, the API process dies, an attempt ends and leaves its files.
FaultKinds == {"delete", "crash", "leave"}

ASSUME RetentionAssumption ==
    /\ IsFiniteSet(Jobs)
    /\ NoToken \notin Tokens
    /\ BatchSize \in Nat \ {0}
    /\ MaxFaults \in [FaultKinds -> Nat]

VARIABLES
    age,         \* by job: not finished, finished, finished and past its retention
    finishedAt,  \* by job: when it finished, in the order they did; 0 before
    winner,      \* by job: result_attempt_token
    purged,      \* the jobs whose files_purged_at is set
    uploads,     \* the jobs whose upload is on disk
    dirs,        \* by job: the attempts that have a directory on disk
    stage,       \* by job and attempt: how far the attempt is
    pc,          \* the sweeper's next step
    todo,        \* the jobs its sweep has yet to deal with
    early,       \* history, by job: the attempts that had left files when they were deleted
    undeleted,   \* history: the jobs whose last delete threw
    faults       \* faults spent so far

jobVars  == <<age, finishedAt, winner>>
diskVars == <<uploads, dirs>>
history  == <<early, undeleted>>
vars == <<jobVars, purged, diskVars, stage, pc, todo, history, faults>>

Ages == {"active", "young", "expired"}

\* Working: with the upload in memory.  Left: it has ended and kept its files; unsure: as
\* well, and its success may still be recorded.
Stages == {"waiting", "claimed", "working", "unsure", "left", "over"}

Init == /\ age = [j \in Jobs |-> "active"]
        /\ finishedAt = [j \in Jobs |-> 0]
        /\ winner = [j \in Jobs |-> NoToken]
        /\ purged = {}
        /\ uploads = Jobs
        /\ dirs = [j \in Jobs |-> {}]
        /\ stage = [j \in Jobs |-> [t \in Tokens |-> "waiting"]]
        /\ pc = "idle"
        /\ todo = {}
        /\ early = [j \in Jobs |-> {}]
        /\ undeleted = {}
        /\ faults = [k \in FaultKinds |-> 0]

Spend(k) == /\ faults[k] < MaxFaults[k]
            /\ faults' = [faults EXCEPT ![k] = @ + 1]

Goto(j, t, s) == stage' = [stage EXCEPT ![j] = [@ EXCEPT ![t] = s]]

HasLeft(j, t) == stage[j][t] \in {"unsure", "left"}

Finished == {j \in Jobs : age[j] # "active"}
Expired  == {j \in Jobs : age[j] = "expired"}

-----------------------------------------------------------------------------
\* Attempts, as far as they touch files.

\* transitionToRunning, for a job that is not terminal.
Claim(j, t) ==
    /\ stage[j][t] = "waiting"
    /\ age[j] = "active"
    /\ Goto(j, t, "claimed")
    /\ UNCHANGED <<jobVars, purged, diskVars, pc, todo, history, faults>>

Read(j, t) ==
    /\ stage[j][t] = "claimed"
    /\ j \in uploads
    /\ Goto(j, t, "working")
    /\ UNCHANGED <<jobVars, purged, diskVars, pc, todo, history, faults>>

\* mkdir -p: the directory comes back if need be.
Write(j, t) ==
    /\ stage[j][t] = "working"
    /\ dirs' = [dirs EXCEPT ![j] = @ \cup {t}]
    /\ UNCHANGED <<jobVars, purged, uploads, stage, pc, todo, history, faults>>

\* Faulty variant: a state the sweeper does not know.
Finish_UnknownAge(j, w) ==
    /\ age[j] = "active"
    /\ age' = [age EXCEPT ![j] = "done"]
    /\ finishedAt' = [finishedAt EXCEPT ![j] = Cardinality(Finished) + 1]
    /\ winner' = [winner EXCEPT ![j] = w]

Finish(j, w) ==
    /\ age[j] = "active"
    /\ age' = [age EXCEPT ![j] = "young"]
    /\ finishedAt' = [finishedAt EXCEPT ![j] = Cardinality(Finished) + 1]
    /\ winner' = [winner EXCEPT ![j] = w]

\* An attempt that succeeds leaves its directory as the job's result.
Win(j, t) ==
    /\ stage[j][t] \in {"working", "unsure"}
    /\ t \in dirs[j]
    /\ Finish(j, t)
    /\ Goto(j, t, "over")
    /\ UNCHANGED <<purged, diskVars, pc, todo, history, faults>>

\* Faulty variant: every attempt of the job is discarded.
Lose_RemovesAll(j, t) ==
    /\ stage[j][t] \in {"claimed", "working"}
    /\ Goto(j, t, "over")
    /\ dirs' = [dirs EXCEPT ![j] = {}]
    /\ UNCHANGED jobVars \/ Finish(j, NoToken)
    /\ UNCHANGED <<purged, uploads, pc, todo, history, faults>>

\* One that fails, or has lost, discards its directory; a last failure ends the job.
Lose(j, t) ==
    /\ stage[j][t] \in {"claimed", "working"}
    /\ Goto(j, t, "over")
    /\ dirs' = [dirs EXCEPT ![j] = @ \ {t}]
    /\ UNCHANGED jobVars \/ Finish(j, NoToken)
    /\ UNCHANGED <<purged, uploads, pc, todo, history, faults>>

\* A success UPDATE throws, and so does the look at what became of it, or finds the job
\* unfinished: the files are preserved, and the UPDATE may yet execute.  (A worker that
\* dies before the answer leaves the same behind.)
Preserve(j, t) ==
    /\ stage[j][t] = "working"
    /\ t \in dirs[j]
    /\ Spend("leave")
    /\ Goto(j, t, "unsure")
    /\ UNCHANGED <<jobVars, purged, diskVars, pc, todo, history>>

\* The discard of an attempt throws before it has done anything else, or its worker dies.
Leave(j, t) ==
    /\ stage[j][t] \in {"claimed", "working"}
    /\ Spend("leave")
    /\ Goto(j, t, "left")
    /\ UNCHANGED <<jobVars, purged, diskVars, pc, todo, history>>

\* RETENTION_MINUTES pass: who finished first expires first.
Expire(j) ==
    /\ age[j] = "young"
    /\ \A o \in Finished : finishedAt[o] < finishedAt[j] => age[o] = "expired"
    /\ age' = [age EXCEPT ![j] = "expired"]
    /\ UNCHANGED <<finishedAt, winner, purged, diskVars, stage, pc, todo, history, faults>>

-----------------------------------------------------------------------------
\* sweepOnce.

\* findJobsNeedingRetentionSweep: the first of S to have finished.
TickFrom(S) ==
    /\ pc = "idle"
    /\ \E B \in (SUBSET S) \ {{}} :
          /\ \A j \in B, o \in S \ B : finishedAt[j] < finishedAt[o]
          /\ Cardinality(B) <= BatchSize
          /\ Cardinality(B) < BatchSize => B = S
          /\ todo' = B
    /\ pc' = "deleting"
    /\ UNCHANGED <<jobVars, purged, diskVars, stage, history, faults>>

\* Faulty variant: jobs that have been purged are not left out.
Tick_PurgedToo == TickFrom(Expired)

\* The timer fires while no sweep is `running`; one that finds no job ends at once.
Tick == TickFrom(Expired \ purged)

Current == CHOOSE j \in todo : \A o \in todo : finishedAt[j] <= finishedAt[o]

Deleting == early' = [early EXCEPT ![Current] = {t \in Tokens : HasLeft(Current, t)}]

\* Faulty variant: of the attempts, only the winner's directory is removed.
Delete_OnlyResult ==
    /\ pc = "deleting"
    /\ uploads' = uploads \ {Current}
    /\ dirs' = [dirs EXCEPT ![Current] = @ \ {winner[Current]}]
    /\ undeleted' = undeleted \ {Current}
    /\ Deleting
    /\ pc' = "marking"
    /\ UNCHANGED <<jobVars, purged, stage, todo, faults>>

\* deleteJobFiles.
Delete ==
    /\ pc = "deleting"
    /\ uploads' = uploads \ {Current}
    /\ dirs' = [dirs EXCEPT ![Current] = {}]
    /\ undeleted' = undeleted \ {Current}
    /\ Deleting
    /\ pc' = "marking"
    /\ UNCHANGED <<jobVars, purged, stage, todo, faults>>

\* One of its rm's throws: Promise.all rejects, any of the files may be gone, and the
\* sweep goes on to mark the job.
DeleteThrows ==
    /\ pc = "deleting"
    /\ Spend("delete")
    /\ uploads' \in {uploads, uploads \ {Current}}
    /\ \E left \in SUBSET dirs[Current] : dirs' = [dirs EXCEPT ![Current] = left]
    /\ undeleted' = undeleted \cup {Current}
    /\ Deleting
    /\ pc' = "marking"
    /\ UNCHANGED <<jobVars, purged, stage, todo>>

\* markFilesPurged; then the loop's next job, or the end.
Mark ==
    /\ pc = "marking"
    /\ purged' = purged \cup {Current}
    /\ todo' = todo \ {Current}
    /\ pc' = IF todo = {Current} THEN "idle" ELSE "deleting"
    /\ UNCHANGED <<jobVars, diskVars, stage, history, faults>>

\* The API process dies, or markFilesPurged throws: the sweep is over.
Crash ==
    /\ pc # "idle"
    /\ Spend("crash")
    /\ pc' = "idle"
    /\ todo' = {}
    /\ UNCHANGED <<jobVars, purged, diskVars, stage, history>>

-----------------------------------------------------------------------------
Attempt(j, t) == \/ Claim(j, t) \/ Read(j, t) \/ Write(j, t)
                 \/ Win(j, t) \/ Lose(j, t) \/ Preserve(j, t) \/ Leave(j, t)

Sweep == Tick \/ Delete \/ Mark

Next == \/ \E j \in Jobs, t \in Tokens : Attempt(j, t)
        \/ \E j \in Jobs : Expire(j)
        \/ Sweep \/ DeleteThrows \/ Crash

Spec == Init /\ [][Next]_vars

\* The timer goes on firing, and a sweep goes on while its process lives.
Fairness == WF_vars(Sweep)

FairSpec == Spec /\ Fairness

-----------------------------------------------------------------------------
TypeOK ==
    /\ age \in [Jobs -> Ages]
    /\ finishedAt \in [Jobs -> Nat]
    /\ winner \in [Jobs -> Tokens \cup {NoToken}]
    /\ purged \subseteq Jobs
    /\ uploads \subseteq Jobs
    /\ dirs \in [Jobs -> SUBSET Tokens]
    /\ stage \in [Jobs -> [Tokens -> Stages]]
    /\ pc \in {"idle", "deleting", "marking"}
    /\ todo \subseteq Jobs
    /\ early \in [Jobs -> SUBSET Tokens]
    /\ undeleted \subseteq Jobs
    /\ faults \in [FaultKinds -> Nat]

-----------------------------------------------------------------------------
\* The inductive invariant: a sweep has only expired jobs before it, and an attempt
\* that has won is over, so that it cannot lose.
SweepInv ==
    /\ todo \subseteq Expired
    /\ pc # "idle" => todo # {}

WinnerInv ==
    \A j \in Jobs :
        /\ age[j] = "active" => winner[j] = NoToken
        /\ winner[j] # NoToken => stage[j][winner[j]] = "over"

-----------------------------------------------------------------------------
\* Until its retention expires, a job keeps its upload, and its result once it has one
\* (retention.ts: "nothing about an in-flight job is ever touched"; ARCHITECTURE.md:
\* "nothing deletes the winner's directory early").
UnexpiredKept ==
    \A j \in Jobs \ Expired :
        /\ j \in uploads
        /\ winner[j] # NoToken => winner[j] \in dirs[j]

IInv == TypeOK /\ SweepInv /\ WinnerInv /\ UnexpiredKept

\* A job marked purged has no file left, but for what an attempt still at work writes
\* and will discard (ARCHITECTURE.md: an orphaned directory "outlives the job only
\* until the next retention pass").
PurgedIsGone ==
    \A j \in purged :
        (\A t \in Tokens : stage[j][t] # "working") => j \notin uploads /\ dirs[j] = {}

\* What does hold of every job whose delete did not throw: whatever attempts wrote and
\* left before the sweep is gone, so that a file of a purged job is of an attempt that was
\* at work at that moment, and that is at work still or has ended without a discard.
\* (processor.ts says of preserved files that "the retention sweep eventually cleans up":
\* it does if the attempt was over by then, and never comes again otherwise.)
OnlyLateFilesStay ==
    \A j \in purged \ undeleted :
        /\ j \notin uploads
        /\ \A t \in dirs[j] : t \notin early[j] /\ (stage[j][t] = "working" \/ HasLeft(j, t))

\* Every job past its retention is purged, whatever fails.
EventuallyPurged == \A j \in Jobs : age[j] = "expired" ~> j \in purged
=============================================================================
