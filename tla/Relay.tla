-------------------------------- MODULE Relay --------------------------------
(***************************************************************************)
(* What the transactional outbox promises: a job that is committed is put  *)
(* in the queue at least once before its event counts as published, and    *)
(* never after.                                                            *)
(***************************************************************************)
EXTENDS Naturals

CONSTANT Events

VARIABLES
    rows,     \* by event: its row of `outbox_events`
    created   \* by event: how many times the queue took it in as a new job

relayVars == <<rows, created>>

Init == /\ rows = [e \in Events |-> "none"]
        /\ created = [e \in Events |-> 0]

Accept(e) == /\ rows[e] = "none"
             /\ rows' = [rows EXCEPT ![e] = "unpublished"]
             /\ UNCHANGED created

Enqueue(e) == /\ rows[e] = "unpublished"
              /\ created' = [created EXCEPT ![e] = @ + 1]
              /\ UNCHANGED rows

\* A batch is published as one.
Publish(S) == /\ \A e \in S : rows[e] = "unpublished" /\ created[e] > 0
              /\ rows' = [e \in Events |-> IF e \in S THEN "published" ELSE rows[e]]
              /\ UNCHANGED created

Next == \/ \E e \in Events : Accept(e) \/ Enqueue(e)
        \/ \E S \in SUBSET Events : Publish(S)

Spec == Init /\ [][Next]_relayVars
=============================================================================
