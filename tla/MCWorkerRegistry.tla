--------------------------- MODULE MCWorkerRegistry ---------------------------
(***************************************************************************)
(* The instance of WorkerRegistry for TLC.                                 *)
(***************************************************************************)
EXTENDS WorkerRegistry

EveryKind == [k \in FaultKinds |-> 1]
=============================================================================
