------------------------------- MODULE MCBoard -------------------------------
(***************************************************************************)
(* The instance of Board for TLC.                                          *)
(***************************************************************************)
EXTENDS Board

EveryKind == [k \in FaultKinds |-> 1]
=============================================================================
