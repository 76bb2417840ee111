----------------------------- MODULE MCDemoPool -----------------------------
(***************************************************************************)
(* The instance of DemoPool for TLC.                                       *)
(***************************************************************************)
EXTENDS DemoPool

EveryKind == [k \in FaultKinds |-> IF k = "stop" THEN 2 ELSE 1]
=============================================================================
