---------------------------- MODULE MCSubmission ----------------------------
(***************************************************************************)
(* Instances of Submission for TLC: the faults each run allows.            *)
(***************************************************************************)
EXTENDS Submission, TLC

\* Ids, keys and fingerprints are only compared.
Symmetry == Permutations(Requests) \cup Permutations(Keys) \cup Permutations(Prints)

NoFault == [k \in FaultKinds |-> 0]

EveryKind  == [k \in FaultKinds |-> 1]
OnlyCommit == [NoFault EXCEPT !["commit"] = 1]
=============================================================================
