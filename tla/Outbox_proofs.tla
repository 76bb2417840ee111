---------------------------- MODULE Outbox_proofs ----------------------------
(***************************************************************************)
(* Proofs about Outbox, for any events, any number of concurrent calls,    *)
(* any batch size and any number of faults.                                *)
(***************************************************************************)
EXTENDS Outbox, TLAPS, WellFoundedInduction

\* Any set of ids has a smallest.
LEMMA SmallestEvent ==
    ASSUME NEW T \in SUBSET Nat, T # {}
    PROVE  \E x \in T : \A y \in T : x <= y
<1> DEFINE Less == {ss \in Nat \X Nat : ss[1] < ss[2]}
<1>1. IsWellFoundedOn(Less, Nat)
  BY NatLessThanWellFounded DEF OpToRel
<1>2. PICK x \in T : \A y \in T : <<y, x>> \notin Less
  <2> HIDE DEF Less
  <2> QED BY <1>1, WFMin
<1>3. ASSUME NEW y \in T PROVE x <= y
  <2>1. ~(y < x)
    BY <1>2 DEF Less
  <2> QED BY <2>1
<1> QED BY <1>3

\* A call that has rows left is at one of them.
LEMMA CurrentIsTodo ==
    ASSUME TypeOK, NEW c \in Calls, Todo(c) # {}
    PROVE  Current(c) \in Todo(c) /\ Current(c) \in Events
<1>1. Todo(c) \in SUBSET Nat /\ Todo(c) \subseteq Events
  BY OutboxAssumption DEF TypeOK, Todo
<1>2. \E e \in Todo(c) : \A o \in Todo(c) : e <= o
  BY <1>1, SmallestEvent
<1> QED BY <1>1, <1>2 DEF Current

LEMMA SpendingIsCounted ==
    ASSUME faults \in [FaultKinds -> Nat], NEW k \in FaultKinds, Spend(k)
    PROVE  faults' \in [FaultKinds -> Nat]
BY DEF Spend

\* What the end of a transaction does.
LEMMA ReleaseEffects ==
    ASSUME TypeOK, NEW c \in Calls, Release(c)
    PROVE  /\ tx' \in [Calls -> TxStates]
           /\ claimed' \in [Calls -> SUBSET Events]
           /\ marked' \in [Calls -> SUBSET Events]
           /\ missed' \in [Calls -> SUBSET Events]
           /\ tx'[c] = "none" /\ claimed'[c] = {} /\ marked'[c] = {} /\ missed'[c] = {}
           /\ \A d \in Calls \ {c} : /\ tx'[d] = tx[d]
                                     /\ claimed'[d] = claimed[d]
                                     /\ marked'[d] = marked[d]
                                     /\ missed'[d] = missed[d]
BY DEF TypeOK, Release, TxStates

LEMMA ApplyEffects ==
    ASSUME TypeOK, NEW c \in Calls, Apply(c)
    PROVE  /\ rows' \in [Events -> {"none", "unpublished", "published"}]
           /\ tries' \in [Events -> Nat]
           /\ \A e \in Events : rows'[e] = IF e \in marked[c] THEN "published" ELSE rows[e]
           /\ Release(c)
BY DEF TypeOK, Apply

\* Type correctness is preserved by every step.
LEMMA TypeStep == TypeOK /\ SessionInv /\ [Next]_vars => TypeOK'
<1> SUFFICES ASSUME TypeOK, SessionInv, [Next]_vars PROVE TypeOK'
  OBVIOUS
<1> USE DEF TypeOK, tables, queue, session
<1> {"add", "statement", "commit", "crash", "trim"} \subseteq FaultKinds
  BY DEF FaultKinds
<1> USE SpendingIsCounted
<1> Events \subseteq Calls /\ Sweeps \subseteq Calls
  BY DEF Calls
<1>1. ASSUME NEW e \in Events, Submit(e) \/ Trim(e) PROVE TypeOK'
  BY <1>1 DEF Submit, Trim, Goto, PCs
<1>2. ASSUME NEW s \in Sweeps, Tick(s) PROVE TypeOK'
  BY <1>2 DEF Tick, Goto, PCs
<1>3. ASSUME NEW c \in Calls, Publish(c) \/ Throws(c) PROVE TypeOK'
  <2>1. CASE Claim(c)
    BY <2>1 DEF Claim, ClaimFrom, Goto, PCs, TxStates
  <2>2. pc[c] \in {"adding", "marking", "recording"} => Current(c) \in Events
    BY CurrentIsTodo DEF SessionInv
  <2>3. CASE Add(c)
    BY <2>2, <2>3 DEF Add, Enqueue, Goto, PCs
  <2>4. CASE Mark(c)
    BY <2>2, <2>4 DEF Mark, Goto, PCs, After
  <2>5. CASE Record(c)
    BY <2>2, <2>5 DEF Record, Goto, PCs, After
  <2>6. CASE Commit(c)
    BY <2>6, ApplyEffects, ReleaseEffects DEF Commit, Goto, PCs
  <2>7. CASE AddThrows(c)
    BY <2>2, <2>7 DEF AddThrows, Enqueue, Goto, PCs
  <2>8. CASE StatementThrows(c)
    <3>1. pc' \in [Calls -> PCs]
      BY <2>8 DEF StatementThrows, Goto, PCs
    <3>2. CASE Release(c)
      BY <2>8, <3>1, <3>2, ReleaseEffects DEF StatementThrows
    <3> QED BY <2>8, <3>1, <3>2 DEF StatementThrows, TxStates
  <2>9. CASE CommitThrows(c)
    BY <2>9 DEF CommitThrows, Goto, PCs, TxStates
  <2> QED BY <1>3, <2>1, <2>3, <2>4, <2>5, <2>6, <2>7, <2>8, <2>9 DEF Publish, Throws
<1>4. ASSUME NEW c \in Calls, Server(c) PROVE TypeOK'
  BY <1>4, ApplyEffects, ReleaseEffects DEF Server, Land, Abort
<1>5. CASE Crash
  <2>1. tx' \in [Calls -> TxStates]
    BY <1>5 DEF Crash, TxStates
  <2>2. pc' \in [Calls -> PCs]
    BY <1>5 DEF Crash, PCs
  <2> QED BY <1>5, <2>1, <2>2 DEF Crash
<1>6. CASE UNCHANGED vars
  BY <1>6 DEF vars
<1> QED BY <1>1, <1>2, <1>3, <1>4, <1>5, <1>6 DEF Next

-----------------------------------------------------------------------------
\* Type correctness aside, what the inductive invariant says.
Core == SessionInv /\ ClaimInv /\ AddedInv

\* Nothing that belongs to a call changes for the others.
Others(c) ==
    \A d \in Calls \ {c} : /\ pc'[d] = pc[d]
                           /\ tx'[d] = tx[d]
                           /\ claimed'[d] = claimed[d]
                           /\ marked'[d] = marked[d]
                           /\ missed'[d] = missed[d]

\* A row that is set published, or counted a miss, is no longer to do.
LEMMA TodoShrinks ==
    ASSUME TypeOK, NEW c \in Calls, Todo(c) # {}, claimed' = claimed,
           marked'[c] \cup missed'[c] = (marked[c] \cup missed[c]) \cup {Current(c)}
    PROVE  /\ Todo(c)' = Todo(c) \ {Current(c)}
           /\ After(c, Current(c)) = IF Todo(c)' = {} THEN "committing" ELSE "adding"
<1>1. Current(c) \in Todo(c)
  BY CurrentIsTodo
<1>2. Todo(c)' = Todo(c) \ {Current(c)}
  BY DEF Todo
<1>3. Todo(c) = {Current(c)} <=> Todo(c)' = {}
  BY <1>1, <1>2
<1> QED BY <1>2, <1>3 DEF After

\* The invariant survives a transaction's end, with or without its effects.
LEMMA EndStep ==
    ASSUME TypeOK, Core, NEW c \in Calls,
           \/ Apply(c)
           \/ Release(c) /\ rows' = rows,
           pc'[c] = "idle",
           \A d \in Calls \ {c} : pc'[d] = pc[d],
           UNCHANGED <<queued, created>>
    PROVE  Core'
<1> USE DEF TypeOK, Core
<1>1. /\ tx'[c] = "none" /\ claimed'[c] = {} /\ marked'[c] = {} /\ missed'[c] = {}
      /\ Others(c)
  BY ApplyEffects, ReleaseEffects DEF Others
<1>2. \A e \in Events : rows'[e] = IF e \in marked[c] /\ Apply(c) THEN "published" ELSE rows[e]
  BY ApplyEffects
<1>3. \A d \in Calls \ {c} : Todo(d)' = Todo(d) /\ Current(d)' = Current(d)
  BY <1>1 DEF Others, Todo, Current
<1>4. marked[c] \subseteq claimed[c]
  BY DEF SessionInv
<1>5. SessionInv'
  BY <1>1, <1>2, <1>3, <1>4 DEF SessionInv, Others, Calls
<1>6. ClaimInv'
  BY <1>1, <1>2, <1>4 DEF ClaimInv, Others
<1>7. AddedInv'
  BY <1>1, <1>2, <1>3 DEF AddedInv, Others
<1> QED BY <1>5, <1>6, <1>7

\* The invariant survives the steps of publishOnce.
LEMMA PublishStep ==
    ASSUME TypeOK, Core, NEW c \in Calls, Publish(c)
    PROVE  Core'
<1> USE DEF TypeOK, tables, queue, session, Core
<1>1. CASE Claim(c)
  <2>1. PICK B \in SUBSET Events :
           /\ B \subseteq {e \in Events \ Locked : rows[e] = "unpublished"}
           /\ claimed' = [claimed EXCEPT ![c] = B]
           /\ Goto(c, IF B = {} THEN "committing" ELSE "adding")
    BY <1>1 DEF Claim, ClaimFrom, IsBatch
  <2>2. /\ claimed'[c] = B
        /\ pc'[c] = IF B = {} THEN "committing" ELSE "adding"
        /\ tx'[c] = "open"
        /\ marked' = marked /\ missed' = missed
        /\ Others(c)
        /\ UNCHANGED <<rows, tries, queued, created>>
        /\ pc[c] = "claiming"
    BY <1>1, <2>1 DEF Claim, ClaimFrom, Goto, Others
  <2>3. marked[c] = {} /\ missed[c] = {} /\ tx[c] # "open"
    BY <2>2 DEF SessionInv
  <2>4. Todo(c)' = B
    BY <2>2, <2>3 DEF Todo
  <2>5. SessionInv'
    BY <2>2, <2>3, <2>4 DEF SessionInv, Others, Todo, Calls
  <2>6. ClaimInv'
    BY <2>1, <2>2 DEF ClaimInv, Others, Locked
  <2>7. AddedInv'
    BY <2>2 DEF AddedInv, Others, Current, Todo
  <2> QED BY <2>5, <2>6, <2>7
<1>2. CASE Add(c)
  <2>1. /\ pc[c] = "adding"
        /\ pc'[c] = "marking"
        /\ \A d \in Calls \ {c} : pc'[d] = pc[d]
        /\ UNCHANGED <<rows, tx, claimed, marked, missed>>
    BY <1>2 DEF Add, Goto
  <2>2. Current(c) \in Todo(c) /\ Current(c) \in Events
    BY <2>1, CurrentIsTodo DEF SessionInv
  <2>3. /\ queued' = queued \cup {Current(c)}
        /\ \A e \in Events : created'[e] \in Nat /\ created'[e] >= created[e]
        /\ created'[Current(c)] > 0
    BY <1>2, <2>2 DEF Add, Enqueue, AddedInv
  <2>4. \A d \in Calls : Todo(d)' = Todo(d) /\ Current(d)' = Current(d)
    BY <2>1 DEF Todo, Current
  <2>5. SessionInv'
    BY <2>1, <2>4 DEF SessionInv, Calls
  <2>6. ClaimInv'
    BY <2>1 DEF ClaimInv
  <2>7. \A d \in Calls : pc[d] = "marking" => Current(d) \in Events
    BY CurrentIsTodo DEF SessionInv
  <2>8. AddedInv'
    BY <2>1, <2>2, <2>3, <2>4, <2>7 DEF AddedInv
  <2> QED BY <2>5, <2>6, <2>8
<1>3. CASE Mark(c) \/ Record(c)
  <2>1. /\ pc[c] \in {"marking", "recording"}
        /\ pc'[c] = After(c, Current(c))
        /\ UNCHANGED <<rows, tries, queued, created, tx, claimed>>
        /\ marked'[c] \cup missed'[c] = (marked[c] \cup missed[c]) \cup {Current(c)}
        /\ \A e \in marked'[c] \ marked[c] : e = Current(c) /\ pc[c] = "marking"
        /\ Others(c)
    BY <1>3 DEF Mark, Record, Goto, Others
  <2>2. Todo(c) # {}
    BY <2>1 DEF SessionInv
  <2>3. /\ Todo(c)' = Todo(c) \ {Current(c)}
        /\ pc'[c] = IF Todo(c)' = {} THEN "committing" ELSE "adding"
    BY <2>1, <2>2, TodoShrinks
  <2>4. Current(c) \in claimed[c]
    BY <2>2, CurrentIsTodo DEF Todo
  <2>5. \A d \in Calls \ {c} : Todo(d)' = Todo(d) /\ Current(d)' = Current(d)
    BY <2>1 DEF Others, Todo, Current
  <2>6. tx[c] = "open"
    BY <2>1 DEF SessionInv
  <2>7. SessionInv'
    BY <2>1, <2>3, <2>4, <2>5, <2>6 DEF SessionInv, Others, Calls
  <2>8. ClaimInv'
    BY <2>1 DEF ClaimInv
  <2>9. AddedInv'
    BY <2>1, <2>3, <2>5 DEF AddedInv, Others
  <2> QED BY <2>7, <2>8, <2>9
<1>4. CASE Commit(c)
  <2>1. /\ pc[c] = "committing"
        /\ pc'[c] = "idle"
        /\ \A d \in Calls \ {c} : pc'[d] = pc[d]
        /\ Apply(c)
        /\ UNCHANGED <<queued, created>>
    BY <1>4 DEF Commit, Goto
  <2> QED BY <2>1, EndStep
<1> QED BY <1>1, <1>2, <1>3, <1>4 DEF Publish

\* It survives what throws.
LEMMA ThrowStep ==
    ASSUME TypeOK, Core, NEW c \in Calls, Throws(c)
    PROVE  Core'
<1> USE DEF TypeOK, tables, queue, session, Core
<1>1. CASE AddThrows(c)
  <2>1. /\ pc[c] = "adding"
        /\ pc'[c] = "recording"
        /\ \A d \in Calls \ {c} : pc'[d] = pc[d]
        /\ UNCHANGED <<rows, tx, claimed, marked, missed>>
    BY <1>1 DEF AddThrows, Goto
  <2>2. Current(c) \in Events
    BY <2>1, CurrentIsTodo DEF SessionInv
  <2>3. /\ queued' \subseteq queued \cup {Current(c)}
        /\ \A e \in Events : created'[e] \in Nat /\ created'[e] >= created[e]
        /\ \A e \in queued' : created'[e] > 0
    BY <1>1, <2>2 DEF AddThrows, Enqueue, AddedInv
  <2>4. \A d \in Calls : Todo(d)' = Todo(d) /\ Current(d)' = Current(d)
    BY <2>1 DEF Todo, Current
  <2>5. SessionInv'
    BY <2>1, <2>4 DEF SessionInv, Calls
  <2>6. ClaimInv'
    BY <2>1 DEF ClaimInv
  <2>7. \A d \in Calls : pc[d] = "marking" => Current(d) \in Events
    BY CurrentIsTodo DEF SessionInv
  <2>8. AddedInv'
    BY <2>1, <2>3, <2>4, <2>7 DEF AddedInv
  <2> QED BY <2>5, <2>6, <2>8
<1>2. CASE StatementThrows(c) /\ Release(c)
  BY <1>2, EndStep DEF StatementThrows, Goto
<1>3. CASE (StatementThrows(c) /\ ~Release(c)) \/ CommitThrows(c)
  <2>1. /\ tx[c] = "open"
        /\ tx'[c] \in {"doomed", "uncertain"}
        /\ pc'[c] = "idle"
        /\ Others(c)
        /\ UNCHANGED <<rows, queued, created, claimed, marked, missed>>
    BY <1>3 DEF StatementThrows, CommitThrows, Goto, Others, SessionInv
  <2>2. \A d \in Calls : Todo(d)' = Todo(d) /\ Current(d)' = Current(d)
    BY <2>1 DEF Todo, Current
  <2>3. SessionInv'
    BY <2>1, <2>2 DEF SessionInv, Others, Calls
  <2>4. ClaimInv'
    BY <2>1 DEF ClaimInv
  <2>5. AddedInv'
    BY <2>1, <2>2 DEF AddedInv, Others
  <2> QED BY <2>3, <2>4, <2>5
<1> QED BY <1>1, <1>2, <1>3 DEF Throws

\* It survives the death of the API process.
LEMMA CrashStep ==
    ASSUME TypeOK, Core, Crash
    PROVE  Core'
<1> USE DEF TypeOK, tables, queue, session, Core
<1>1. /\ UNCHANGED <<rows, queued, created, claimed, marked, missed>>
      /\ \A c \in Calls :
            /\ pc'[c] = "idle"
            /\ tx'[c] = CASE pc[c] \in {"adding", "marking", "recording"} -> "doomed"
                          [] pc[c] = "committing"                         -> "uncertain"
                          [] OTHER                                        -> tx[c]
  BY DEF Crash
<1>2. \A c \in Calls : tx'[c] # "open" /\ (tx'[c] = "none" <=> tx[c] = "none")
  BY <1>1 DEF SessionInv
<1>3. SessionInv'
  BY <1>1, <1>2 DEF SessionInv, Calls
<1>4. ClaimInv'
  BY <1>1 DEF ClaimInv
<1>5. AddedInv'
  BY <1>1 DEF AddedInv
<1> QED BY <1>3, <1>4, <1>5

\* It survives the steps of those around publishOnce.
LEMMA OutsideStep ==
    ASSUME TypeOK, Core,
           \/ \E e \in Events : Submit(e) \/ Trim(e)
           \/ \E s \in Sweeps : Tick(s)
    PROVE  Core'
<1> USE DEF TypeOK, tables, queue, session, Core
<1> Events \subseteq Calls /\ Sweeps \subseteq Calls
  BY DEF Calls
<1>1. ASSUME UNCHANGED <<created, session>>
      PROVE  \A c \in Calls : Todo(c)' = Todo(c) /\ Current(c)' = Current(c)
  BY <1>1 DEF Todo, Current
<1>2. ASSUME NEW e \in Events, Submit(e) PROVE Core'
  <2>1. /\ rows[e] = "none"
        /\ rows'[e] = "unpublished"
        /\ \A o \in Events \ {e} : rows'[o] = rows[o]
        /\ pc'[e] = "claiming"
        /\ \A c \in Calls \ {e} : pc'[c] = pc[c]
        /\ UNCHANGED <<queued, created, session>>
    BY <1>2 DEF Submit, Goto
  <2>2. pc[e] = "idle" /\ tx[e] = "none"
    BY <2>1 DEF SessionInv
  <2>3. SessionInv'
    BY <1>1, <2>1, <2>2 DEF SessionInv
  <2>4. ClaimInv'
    BY <2>1 DEF ClaimInv
  <2>5. AddedInv'
    BY <1>1, <2>1 DEF AddedInv
  <2> QED BY <2>3, <2>4, <2>5
<1>3. ASSUME NEW e \in Events, Trim(e) PROVE Core'
  <2>1. /\ queued' \subseteq queued
        /\ UNCHANGED <<rows, created, pc, session>>
    BY <1>3 DEF Trim
  <2> QED BY <1>1, <2>1 DEF SessionInv, ClaimInv, AddedInv
<1>4. ASSUME NEW s \in Sweeps, Tick(s) PROVE Core'
  <2>1. /\ tx[s] = "none"
        /\ pc[s] = "idle"
        /\ pc'[s] = "claiming"
        /\ \A c \in Calls \ {s} : pc'[c] = pc[c]
        /\ UNCHANGED <<rows, queued, created, session>>
    BY <1>4 DEF Tick, Goto
  <2>2. s \notin Events
    BY OutboxAssumption
  <2>3. SessionInv'
    BY <1>1, <2>1, <2>2 DEF SessionInv
  <2>4. ClaimInv'
    BY <2>1 DEF ClaimInv
  <2>5. AddedInv'
    BY <1>1, <2>1 DEF AddedInv
  <2> QED BY <2>3, <2>4, <2>5
<1> QED BY <1>2, <1>3, <1>4

\* The whole inductive invariant.
LEMMA IInvHolds == Spec => []IInv
<1>1. Init => IInv
  BY DEF Init, IInv, TypeOK, SessionInv, ClaimInv, AddedInv, Todo, PCs, TxStates, Calls
<1>2. IInv /\ [Next]_vars => IInv'
  <2> SUFFICES ASSUME IInv, [Next]_vars PROVE IInv'
    OBVIOUS
  <2>1. TypeOK /\ Core
    BY DEF IInv, Core
  <2>2. ASSUME NEW c \in Calls, Publish(c) \/ Throws(c) \/ Server(c) PROVE Core'
    <3>1. Server(c) => Core'
      <4> SUFFICES ASSUME Server(c) PROVE Core'
        OBVIOUS
      <4>1. /\ tx[c] # "open"
            /\ pc' = pc
            /\ UNCHANGED queue
            /\ Apply(c) \/ (Release(c) /\ rows' = rows)
        BY DEF Server, Land, Abort, tables
      <4>2. pc[c] = "idle"
        BY <2>1, <2>2, <4>1 DEF Core, SessionInv, TypeOK, PCs, Server, Land, Abort
      <4> QED BY <2>1, <4>1, <4>2, EndStep DEF queue
    <3> QED BY <2>1, <2>2, <3>1, PublishStep, ThrowStep
  <2>3. ASSUME \/ \E e \in Events : Submit(e) \/ Trim(e)
               \/ \E s \in Sweeps : Tick(s)
        PROVE  Core'
    BY <2>1, <2>3, OutsideStep
  <2>4. ASSUME Crash PROVE Core'
    BY <2>1, <2>4, CrashStep
  <2>5. ASSUME UNCHANGED vars PROVE Core'
    BY <2>1, <2>5
       DEF Core, SessionInv, ClaimInv, AddedInv, Todo, Current, vars, tables, queue, session
  <2>6. Core'
    BY <2>2, <2>3, <2>4, <2>5 DEF Next
  <2>7. TypeOK'
    BY <2>1, TypeStep DEF Core
  <2> QED BY <2>6, <2>7 DEF IInv, Core
<1> QED BY <1>1, <1>2, PTL DEF Spec

\* The variables keep their types, for any events, batches and faults.
THEOREM TypeCorrect == Spec => []TypeOK
BY IInvHolds, PTL DEF IInv

\* No row is in the hands of two calls, immediate or swept, however they fail.
THEOREM ClaimsAreExclusive == Spec => []NoDoubleClaim
<1>1. IInv => NoDoubleClaim
  BY DEF IInv, ClaimInv, NoDoubleClaim, TypeOK
<1> QED BY <1>1, IInvHolds, PTL

-----------------------------------------------------------------------------
\* A COMMIT publishes a batch whose jobs were all queued.
LEMMA ApplyPublishes ==
    ASSUME TypeOK, ClaimInv, SessionInv, AddedInv, NEW c \in Calls, Apply(c),
           UNCHANGED created
    PROVE  R!Publish(marked[c])
<1>1. marked[c] \subseteq Events
  BY DEF TypeOK
<1>2. \A e \in marked[c] : rows[e] = "unpublished" /\ created[e] > 0
  BY DEF ClaimInv, SessionInv, AddedInv
<1> QED BY <1>1, <1>2 DEF Apply, R!Publish

\* queue.add makes a job of an unpublished event, or finds one.
LEMMA AddEnqueues ==
    ASSUME TypeOK, ClaimInv, NEW c \in Calls, Todo(c) # {}, rows' = rows,
           created' = [created EXCEPT ![Current(c)] =
                          IF Current(c) \in queued THEN @ ELSE @ + 1]
    PROVE  R!Enqueue(Current(c)) \/ UNCHANGED R!relayVars
<1>1. Current(c) \in Events /\ Current(c) \in claimed[c]
  BY CurrentIsTodo DEF Todo
<1>2. rows[Current(c)] = "unpublished"
  BY <1>1 DEF ClaimInv
<1>3. CASE Current(c) \in queued
  <2>1. created' = created
    BY <1>1, <1>3 DEF TypeOK
  <2> QED BY <2>1 DEF R!relayVars
<1>4. CASE Current(c) \notin queued
  BY <1>1, <1>2, <1>4 DEF R!Enqueue
<1> QED BY <1>3, <1>4

\* Every step is one of the relay's, or none.
LEMMA RelayStep == IInv /\ [Next]_vars => [R!Next]_R!relayVars
<1> SUFFICES ASSUME IInv, [Next]_vars PROVE [R!Next]_R!relayVars
  OBVIOUS
<1> USE DEF tables, queue, session
<1> TypeOK /\ SessionInv /\ ClaimInv /\ AddedInv
  BY DEF IInv
<1> DEFINE Still == rows' = rows /\ created' = created
<1>1. Still => UNCHANGED R!relayVars
  BY DEF R!relayVars
<1>2. ASSUME NEW e \in Events, Submit(e) PROVE R!Accept(e)
  BY <1>2 DEF Submit, R!Accept
<1>3. ASSUME NEW c \in Calls, Add(c) \/ AddThrows(c)
      PROVE  [R!Next]_R!relayVars
  <2>1. Todo(c) # {} /\ Current(c) \in Events
    BY <1>3, CurrentIsTodo DEF Add, AddThrows, SessionInv
  <2>2. \/ Still
        \/ /\ rows' = rows
           /\ created' = [created EXCEPT ![Current(c)] =
                             IF Current(c) \in queued THEN @ ELSE @ + 1]
    BY <1>3 DEF Add, AddThrows, Enqueue
  <2> QED BY <1>1, <2>1, <2>2, AddEnqueues DEF R!Next
<1>4. ASSUME NEW c \in Calls, Commit(c) \/ Land(c) PROVE [R!Next]_R!relayVars
  <2>1. R!Publish(marked[c])
    BY <1>4, ApplyPublishes DEF Commit, Land
  <2>2. marked[c] \in SUBSET Events
    BY DEF TypeOK
  <2> QED BY <2>1, <2>2 DEF R!Next
<1>5. ASSUME NEW c \in Calls,
             \/ Claim(c) \/ Mark(c) \/ Record(c)
             \/ StatementThrows(c) \/ CommitThrows(c) \/ Abort(c)
      PROVE  Still
  BY <1>5 DEF Claim, ClaimFrom, Mark, Record, StatementThrows, CommitThrows, Abort
<1>6. ASSUME Crash \/ UNCHANGED vars \/ (\E e \in Events : Trim(e)) \/ \E s \in Sweeps : Tick(s)
      PROVE  Still
  BY <1>6 DEF Crash, vars, Trim, Tick
<1> QED BY <1>1, <1>2, <1>3, <1>4, <1>5, <1>6 DEF Next, Publish, Throws, Server, R!Next

\* Every committed event is queued before it counts as published, and never after.
THEOREM RefinesRelay == Spec => RelaySpec
<1>1. Init => R!Init
  BY DEF Init, R!Init
<1> QED BY <1>1, IInvHolds, RelayStep, PTL DEF Spec, RelaySpec, R!Spec
-----------------------------------------------------------------------------
\* The faults that can leave a queued job to be made anew.
Paid == faults["add"] + faults["statement"] + faults["commit"] + faults["crash"]

\* An event whose job will not be made anew unless a fault undoes its publication: it
\* is published, or marked in an open transaction, or queued and about to be marked.
Settled(e) ==
    \/ rows[e] = "published"
    \/ \E c \in Calls : /\ tx[c] = "open"
                        /\ e \in marked[c]
    \/ \E c \in Calls : pc[c] = "marking" /\ e = Current(c)

\* Every job of an event but that of its present publication has been paid for.
DebtInv ==
    \A e \in Events : /\ created[e] <= 1 + Paid
                      /\ ~Settled(e) => created[e] <= Paid

LEMMA PaidIsANumber == TypeOK => Paid \in Nat
<1> {"add", "statement", "commit", "crash"} \subseteq FaultKinds
  BY DEF FaultKinds
<1> QED BY DEF TypeOK, Paid

\* A fault of one of these kinds is a payment, and a trim is none.
LEMMA PaymentIsCounted ==
    ASSUME TypeOK
    PROVE  /\ \A k \in {"add", "statement", "commit", "crash"} :
                 Spend(k) => Paid' = Paid + 1
           /\ Spend("trim") => Paid' = Paid
<1> {"add", "statement", "commit", "crash", "trim"} \subseteq FaultKinds
  BY DEF FaultKinds
<1> QED BY DEF TypeOK, Spend, Paid

\* The event a call is about to add is nobody's to mark, and not settled.
LEMMA CurrentIsUnsettled ==
    ASSUME IInv, NEW c \in Calls, pc[c] = "adding"
    PROVE  Current(c) \in Events /\ ~Settled(Current(c))
<1> USE DEF IInv
<1>1. Todo(c) # {}
  BY DEF SessionInv
<1>2. Current(c) \in Todo(c) /\ Current(c) \in Events
  BY <1>1, CurrentIsTodo
<1>3. Current(c) \in claimed[c] /\ Current(c) \notin marked[c]
  BY <1>2 DEF Todo
<1>4. rows[Current(c)] = "unpublished"
  BY <1>3 DEF ClaimInv
<1>5. ASSUME NEW d \in Calls PROVE Current(c) \notin marked[d]
  BY <1>3, <1>5 DEF ClaimInv, SessionInv
<1>6. ASSUME NEW d \in Calls, pc[d] = "marking" PROVE Current(c) # Current(d)
  <2>1. Current(d) \in claimed[d]
    BY <1>6, CurrentIsTodo DEF SessionInv, Todo
  <2> QED BY <1>3, <1>6, <2>1 DEF ClaimInv
<1> QED BY <1>2, <1>4, <1>5, <1>6 DEF Settled

\* A step that makes no job and undoes no publication leaves the account as it was.
LEMMA SettledStays ==
    ASSUME TypeOK, DebtInv, created' = created, Paid' = Paid,
           \A e \in Events : Settled(e) => Settled(e)'
    PROVE  DebtInv'
BY DEF DebtInv

\* What a call does without failing: only queue.add can make a job, of an event that
\* is not settled.
LEMMA PublishDebt ==
    ASSUME IInv, DebtInv, NEW c \in Calls, Publish(c) \/ Server(c)
    PROVE  DebtInv'
<1> USE DEF IInv, TypeOK, tables, queue, session
<1>1. Paid' = Paid
  BY DEF Publish, Server, Claim, ClaimFrom, Add, Mark, Record, Commit, Land, Abort, Paid
<1>2. CASE Add(c)
  <2>1. pc[c] = "adding" /\ pc'[c] = "marking"
    BY <1>2 DEF Add, Goto
  <2>2. Current(c) \in Events /\ ~Settled(Current(c))
    BY <2>1, CurrentIsUnsettled
  <2>3. \A e \in Events : created'[e] = IF e = Current(c) /\ e \notin queued
                                        THEN created[e] + 1 ELSE created[e]
    BY <1>2, <2>2 DEF Add, Enqueue
  <2>4. \A d \in Calls : Current(d)' = Current(d)
    BY <1>2 DEF Add, Current, Todo
  <2>5. \A e \in Events : Settled(e) => Settled(e)'
    BY <1>2, <2>1, <2>4 DEF Add, Goto, Settled
  <2>6. \A e \in Events : e = Current(c) => Settled(e)'
    BY <2>1, <2>4 DEF Settled
  <2>7. ASSUME NEW e \in Events
        PROVE  created'[e] <= 1 + Paid /\ (~Settled(e)' => created'[e] <= Paid)
    <3> Paid \in Nat /\ created[e] \in Nat
      BY PaidIsANumber
    <3>1. CASE e = Current(c)
      <4>1. created[e] <= Paid
        BY <2>2, <3>1 DEF DebtInv
      <4>2. created'[e] \in {created[e], created[e] + 1}
        BY <2>3
      <4> QED BY <2>6, <3>1, <4>1, <4>2
    <3>2. CASE e # Current(c)
      BY <2>3, <2>5, <3>2 DEF DebtInv
    <3> QED BY <3>1, <3>2
  <2> QED BY <1>1, <2>7 DEF DebtInv
<1>3. ASSUME ~Add(c)
      PROVE  created' = created /\ \A e \in Events : Settled(e) => Settled(e)'
  <2>1. CASE Claim(c)
    <3>1. /\ pc[c] = "claiming" /\ pc'[c] # "marking"
          /\ Others(c)
          /\ UNCHANGED <<rows, created, marked, missed>>
      BY <2>1 DEF Claim, ClaimFrom, Goto, Others
    <3>2. \A d \in Calls \ {c} : Current(d)' = Current(d)
      BY <3>1 DEF Current, Todo, Others
    <3>3. tx[c] # "open"
      BY <3>1 DEF SessionInv
    <3> QED BY <3>1, <3>2, <3>3 DEF Settled, Others
  <2>2. CASE Mark(c) \/ Record(c)
    <3>1. /\ pc[c] \in {"marking", "recording"} /\ pc'[c] # "marking"
          /\ Others(c)
          /\ marked[c] \subseteq marked'[c]
          /\ pc[c] = "marking" => Current(c) \in marked'[c]
          /\ UNCHANGED <<rows, created, tx>>
      BY <2>2 DEF Mark, Record, Goto, Others, After
    <3>2. \A d \in Calls \ {c} : Current(d)' = Current(d)
      BY <3>1 DEF Current, Todo, Others
    <3>3. tx[c] = "open"
      BY <3>1 DEF SessionInv
    <3> QED BY <3>1, <3>2, <3>3 DEF Settled, Others
  <2>3. CASE Commit(c) \/ Server(c)
    <3>1. /\ pc[c] # "marking"
          /\ tx[c] = "open" => Commit(c)
          /\ created' = created
          /\ Others(c)
      BY <2>3, ApplyEffects, ReleaseEffects
         DEF Commit, Server, Land, Abort, Goto, Others, SessionInv
    <3>2. \A e \in Events : /\ rows[e] = "published" => rows'[e] = "published"
                            /\ Commit(c) /\ e \in marked[c] => rows'[e] = "published"
      BY <2>3, ApplyEffects DEF Commit, Server, Land, Abort
    <3>3. \A d \in Calls \ {c} : Current(d)' = Current(d)
      BY <3>1 DEF Current, Todo, Others
    <3> QED BY <3>1, <3>2, <3>3 DEF Settled, Others
  <2> QED BY <1>3, <2>1, <2>2, <2>3 DEF Publish
<1> QED BY <1>1, <1>2, <1>3, SettledStays

\* What throws or dies pays for the job that may be made anew.
LEMMA FaultDebt ==
    ASSUME IInv, DebtInv, Crash \/ \E c \in Calls : Throws(c)
    PROVE  DebtInv'
<1> USE DEF IInv, TypeOK, tables, queue, session
<1>1. Paid' = Paid + 1
  BY PaymentIsCounted DEF Crash, Throws, AddThrows, StatementThrows, CommitThrows
<1>2. ASSUME NEW e \in Events PROVE created'[e] <= Paid + 1
  <2> Paid \in Nat /\ created[e] \in Nat
    BY PaidIsANumber
  <2>1. CASE created' = created
    BY <2>1 DEF DebtInv
  <2>2. ASSUME NEW c \in Calls, AddThrows(c) PROVE created'[e] <= Paid + 1
    <3>1. Current(c) \in Events /\ ~Settled(Current(c))
      BY <2>2, CurrentIsUnsettled DEF AddThrows
    <3>2. created'[e] = created[e] \/ (e = Current(c) /\ created'[e] = created[e] + 1)
      BY <2>2, <3>1 DEF AddThrows, Enqueue
    <3>3. created[e] <= 1 + Paid /\ (e = Current(c) => created[e] <= Paid)
      BY <3>1 DEF DebtInv
    <3> QED BY <3>2, <3>3
  <2> QED BY <2>1, <2>2 DEF Crash, Throws, StatementThrows, CommitThrows
<1>3. ASSUME NEW e \in Events
      PROVE  created'[e] <= 1 + Paid' /\ created'[e] <= Paid'
  <2>1. Paid \in Nat /\ created'[e] \in Nat
    BY PaidIsANumber, TypeStep DEF Next
  <2> QED BY <1>1, <1>2, <2>1
<1> QED BY <1>3 DEF DebtInv

LEMMA DebtStep == IInv /\ DebtInv /\ [Next]_vars => DebtInv'
<1> SUFFICES ASSUME IInv, DebtInv, [Next]_vars PROVE DebtInv'
  OBVIOUS
<1> USE DEF IInv, tables, queue, session
<1>1. ASSUME NEW e \in Events, Submit(e) PROVE DebtInv'
  <2>1. created' = created /\ Paid' = Paid
    BY <1>1 DEF Submit, Paid
  <2>2. \A c \in Calls : /\ Current(c)' = Current(c)
                         /\ pc[c] = "marking" => pc'[c] = "marking"
    BY <1>1 DEF Submit, Goto, Current, Todo, SessionInv, TypeOK
  <2>3. \A o \in Events : rows[o] = "published" => rows'[o] = "published"
    BY <1>1 DEF Submit, TypeOK
  <2> QED BY <1>1, <2>1, <2>2, <2>3, SettledStays DEF Submit, Settled
<1>2. ASSUME NEW s \in Sweeps, Tick(s) PROVE DebtInv'
  <2>1. created' = created /\ Paid' = Paid
    BY <1>2 DEF Tick, Paid
  <2>2. \A c \in Calls : /\ Current(c)' = Current(c)
                         /\ pc[c] = "marking" => pc'[c] = "marking"
    BY <1>2 DEF Tick, Goto, Current, Todo, TypeOK
  <2> QED BY <1>2, <2>1, <2>2, SettledStays DEF Tick, Settled
<1>3. ASSUME (\E e \in Events : Trim(e)) \/ UNCHANGED vars PROVE DebtInv'
  <2>1. created' = created /\ Paid' = Paid
    BY <1>3, PaymentIsCounted DEF Trim, vars, Paid
  <2>2. \A e \in Events : Settled(e)' = Settled(e)
    BY <1>3 DEF Trim, vars, Settled, Current, Todo
  <2> QED BY <2>1, <2>2, SettledStays
<1>4. ASSUME NEW c \in Calls, Publish(c) \/ Server(c) PROVE DebtInv'
  BY <1>4, PublishDebt
<1>5. ASSUME Crash \/ \E c \in Calls : Throws(c) PROVE DebtInv'
  BY <1>5, FaultDebt
<1> QED BY <1>1, <1>2, <1>3, <1>4, <1>5 DEF Next

\* However the adds, the statements, the COMMITs and the process fail, each job that is
\* made anew in the queue is paid for by one fault.
THEOREM DuplicatesArePaidFor == Spec => []DuplicatesCostFaults
<1>1. Init => DebtInv
  BY DEF Init, DebtInv, Paid, FaultKinds
<1>2. IInv /\ DebtInv => DuplicatesCostFaults
  <2> SUFFICES ASSUME IInv, DebtInv PROVE DuplicatesCostFaults
    OBVIOUS
  <2> {"add", "statement", "commit", "crash"} \subseteq FaultKinds
    BY DEF FaultKinds
  <2>1. \A e \in Events : created[e] <= 1 + Paid
    BY DEF DebtInv
  <2> QED BY <2>1 DEF IInv, TypeOK, Paid, DuplicatesCostFaults
<1> QED BY <1>1, <1>2, DebtStep, IInvHolds, PTL DEF Spec

-----------------------------------------------------------------------------
\* Rows that wait.

\* An unpublished row is free for the next call, or one transaction has locked it that
\* will end: that of a call at work, or one whose connection is lost and which the
\* server ends.  So no row is out of reach of the sweeper for good, whatever failed.
\* This is what EventuallyPublished rests on besides fairness.
RowsFreeOrHeld ==
    \A e \in Events : rows[e] = "unpublished" =>
        \/ e \notin Locked
        \/ \E c \in Calls :
              /\ \A d \in Calls : e \in claimed[d] <=> d = c
              /\ \/ pc[c] \in {"adding", "marking", "recording", "committing"}
                 \/ tx[c] \in {"doomed", "uncertain"}

THEOREM NoRowStranded == Spec => []RowsFreeOrHeld
<1>1. ASSUME IInv, NEW e \in Events, e \in Locked
      PROVE  \E c \in Calls :
                /\ \A d \in Calls : e \in claimed[d] <=> d = c
                /\ \/ pc[c] \in {"adding", "marking", "recording", "committing"}
                   \/ tx[c] \in {"doomed", "uncertain"}
  <2>1. PICK c \in Calls : e \in claimed[c]
    BY <1>1 DEF Locked
  <2>2. tx[c] \in TxStates \ {"none"}
    BY <1>1, <2>1 DEF IInv, TypeOK, SessionInv
  <2>3. tx[c] = "open" => pc[c] \in {"adding", "marking", "recording", "committing"}
    BY <1>1 DEF IInv, SessionInv
  <2>4. \A d \in Calls : e \in claimed[d] <=> d = c
    BY <1>1, <2>1 DEF IInv, ClaimInv
  <2> QED BY <2>2, <2>3, <2>4 DEF TxStates
<1>2. IInv => RowsFreeOrHeld
  BY <1>1 DEF RowsFreeOrHeld
<1> QED BY <1>2, IInvHolds, PTL

-----------------------------------------------------------------------------
\* publish_attempts.

\* A call is about to count a miss of event e, or has in a transaction that is open.
Missing(c, e) == e \in missed[c] \/ (pc[c] = "recording" /\ Current(c) = e)

MissInv ==
    \A e \in Events :
        /\ tries[e] <= faults["add"]
        /\ (\E c \in Calls : Missing(c, e)) => tries[e] < faults["add"]

\* A step with which no add fails and no count is committed.
LEMMA NoMiss ==
    ASSUME TypeOK, MissInv, tries' = tries, faults'["add"] = faults["add"],
           \A c \in Calls, e \in Events : Missing(c, e)' => Missing(c, e)
    PROVE  MissInv'
BY DEF MissInv

\* The misses of a call are of rows that it alone has locked.
LEMMA MissIsOwn ==
    ASSUME IInv, NEW c \in Calls, NEW e \in Events, Missing(c, e)
    PROVE  e \in claimed[c] /\ \A d \in Calls \ {c} : ~Missing(d, e)
<1> USE DEF IInv
<1>1. ASSUME NEW d \in Calls, Missing(d, e) PROVE e \in claimed[d]
  <2>1. pc[d] = "recording" => Current(d) \in claimed[d]
    BY CurrentIsTodo DEF SessionInv, Todo
  <2> QED BY <1>1, <2>1 DEF Missing, SessionInv
<1> QED BY <1>1 DEF ClaimInv

LEMMA MissStep == IInv /\ MissInv /\ [Next]_vars => MissInv'
<1> SUFFICES ASSUME IInv, MissInv, [Next]_vars PROVE MissInv'
  OBVIOUS
<1> TypeOK
  BY DEF IInv
<1> USE DEF tables, queue, session
<1> {"add", "statement", "commit", "crash", "trim"} = FaultKinds
  BY DEF FaultKinds
<1>1. \A e \in Events : tries[e] \in Nat /\ faults["add"] \in Nat
  BY DEF TypeOK
\* A COMMIT that executes turns the misses of its call into counts.
<1>2. ASSUME NEW c \in Calls, Apply(c), faults' = faults, pc'[c] = "idle",
             \A d \in Calls \ {c} : pc'[d] = pc[d]
      PROVE  MissInv'
  <2>1. /\ missed'[c] = {}
        /\ \A d \in Calls \ {c} : /\ missed'[d] = missed[d]
                                  /\ marked'[d] = marked[d]
                                  /\ claimed'[d] = claimed[d]
        /\ \A e \in Events : tries'[e] = tries[e] + IF e \in missed[c] THEN 1 ELSE 0
    BY <1>2, ApplyEffects, ReleaseEffects DEF Apply
  <2>2. ASSUME NEW d \in Calls, NEW e \in Events, Missing(d, e)'
        PROVE  d # c /\ Missing(d, e)
    BY <1>2, <2>1, <2>2 DEF Missing, Current, Todo
  <2>3. ASSUME NEW e \in Events
        PROVE  /\ tries'[e] <= faults["add"]
               /\ (\E d \in Calls : Missing(d, e)') => tries'[e] < faults["add"]
    <3>1. CASE e \in missed[c]
      <4>1. Missing(c, e)
        BY <3>1 DEF Missing
      <4>2. \A d \in Calls : ~Missing(d, e)'
        BY <2>2, <4>1, MissIsOwn
      <4>3. tries[e] < faults["add"] /\ tries'[e] = tries[e] + 1
        BY <2>1, <3>1, <4>1 DEF MissInv
      <4> QED BY <1>1, <4>2, <4>3
    <3>2. CASE e \notin missed[c]
      BY <1>1, <2>1, <2>2, <3>2 DEF MissInv
    <3> QED BY <3>1, <3>2
  <2> QED BY <1>2, <2>3 DEF MissInv
<1>3. ASSUME NEW c \in Calls, Release(c), tries' = tries, faults'["add"] = faults["add"],
             pc'[c] = "idle", \A d \in Calls \ {c} : pc'[d] = pc[d]
      PROVE  MissInv'
  <2>1. \A d \in Calls, e \in Events : Missing(d, e)' => Missing(d, e)
    BY <1>3, ReleaseEffects DEF Missing, Current, Todo
  <2> QED BY <1>3, <2>1, NoMiss
<1>4. ASSUME NEW c \in Calls, Claim(c) \/ Add(c) \/ Mark(c) \/ Record(c) PROVE MissInv'
  <2>1. /\ tries' = tries /\ faults' = faults
        /\ pc'[c] # "recording"
        /\ \A d \in Calls \ {c} : /\ pc'[d] = pc[d]
                                  /\ claimed'[d] = claimed[d]
                                  /\ marked'[d] = marked[d]
                                  /\ missed'[d] = missed[d]
        /\ missed'[c] \subseteq missed[c] \cup
              IF pc[c] = "recording" THEN {Current(c)} ELSE {}
    BY <1>4 DEF Claim, ClaimFrom, Add, Mark, Record, Goto, After, TypeOK
  <2>2. \A d \in Calls, e \in Events : Missing(d, e)' => Missing(d, e)
    BY <2>1 DEF Missing, Current, Todo
  <2> QED BY <2>1, <2>2, NoMiss
<1>5. ASSUME NEW c \in Calls, Commit(c) \/ Server(c) PROVE MissInv'
  <2>1. /\ Commit(c) \/ Land(c) => Apply(c)
        /\ Abort(c) => Release(c) /\ tries' = tries
        /\ faults' = faults
        /\ pc'[c] = "idle"
        /\ \A d \in Calls \ {c} : pc'[d] = pc[d]
    BY <1>5 DEF Commit, Server, Land, Abort, Goto, IInv, TypeOK, SessionInv, PCs
  <2> QED BY <1>2, <1>3, <1>5, <2>1 DEF Server
\* An add that throws pays for the count of its miss.
<1>6. ASSUME NEW c \in Calls, AddThrows(c) PROVE MissInv'
  <2>1. /\ tries' = tries
        /\ faults'["add"] = faults["add"] + 1
    BY <1>6 DEF AddThrows, Spend, TypeOK
  <2> QED BY <1>1, <2>1 DEF MissInv
<1>7. ASSUME NEW c \in Calls, StatementThrows(c) \/ CommitThrows(c) PROVE MissInv'
  <2>1. /\ tries' = tries
        /\ faults'["add"] = faults["add"]
        /\ pc'[c] = "idle"
        /\ \A d \in Calls \ {c} : pc'[d] = pc[d]
        /\ Release(c) \/ UNCHANGED <<claimed, marked, missed>>
    BY <1>7 DEF StatementThrows, CommitThrows, Spend, Goto, TypeOK
  <2>2. CASE Release(c)
    BY <1>3, <2>1, <2>2
  <2>3. CASE UNCHANGED <<claimed, marked, missed>>
    <3>1. \A d \in Calls, e \in Events : Missing(d, e)' => Missing(d, e)
      BY <2>1, <2>3 DEF Missing, Current, Todo
    <3> QED BY <2>1, <3>1, NoMiss
  <2> QED BY <2>1, <2>2, <2>3
<1>8. CASE \/ \E e \in Events : Submit(e) \/ Trim(e)
           \/ \E s \in Sweeps : Tick(s)
           \/ Crash
           \/ UNCHANGED vars
  <2>1. /\ UNCHANGED <<tries, claimed, marked, missed>>
        /\ faults'["add"] = faults["add"]
        /\ \A c \in Calls : pc'[c] = "recording" => pc[c] = "recording"
    BY <1>8 DEF Submit, Tick, Trim, Crash, Spend, Goto, vars, TypeOK, Calls
  <2>2. \A c \in Calls, e \in Events : Missing(c, e)' => Missing(c, e)
    BY <2>1 DEF Missing, Current, Todo
  <2> QED BY <2>1, <2>2, NoMiss
<1> QED BY <1>4, <1>5, <1>6, <1>7, <1>8 DEF Next, Publish, Throws

\* publish_attempts never counts more than the adds that failed: a COMMIT of which
\* nothing was heard, a rolled-back batch and a later call count no failure twice
\* (markOutboxPublishAttempt).
THEOREM MissesAreCountedOnce == Spec => [](\A e \in Events : tries[e] <= faults["add"])
<1>1. Init => MissInv
  BY DEF Init, MissInv, Missing, FaultKinds
<1>2. MissInv => \A e \in Events : tries[e] <= faults["add"]
  BY DEF MissInv
<1> QED BY <1>1, <1>2, MissStep, IInvHolds, PTL DEF Spec
=============================================================================
