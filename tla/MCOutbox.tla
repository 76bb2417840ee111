------------------------------ MODULE MCOutbox ------------------------------
(***************************************************************************)
(* The instance of Outbox for TLC: a fault of each kind.                   *)
(***************************************************************************)
EXTENDS Outbox

EveryKind == [k \in FaultKinds |-> 1]
=============================================================================
