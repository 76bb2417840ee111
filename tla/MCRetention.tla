----------------------------- MODULE MCRetention -----------------------------
(***************************************************************************)
(* Instances of Download for TLC: the faults each run allows.              *)
(***************************************************************************)
EXTENDS Download

NoFault == [k \in FaultKinds |-> 0]

EveryKind  == [k \in FaultKinds |-> 1]
OnlyDelete == [NoFault EXCEPT !["delete"] = 1]
=============================================================================
