---------------------------- MODULE MCProcessing ----------------------------
(***************************************************************************)
(* Instances of Processing for TLC: the faults each run allows.            *)
(***************************************************************************)
EXTENDS Processing, TLC

\* Tokens are drawn at random and only compared, so they are interchangeable.
TokenSymmetry == Permutations(Tokens)

NoFault == [k \in FaultKinds |-> 0]

OnlyCrashes  == [NoFault EXCEPT !["crash"] = 1, !["republish"] = 1]
OnePause     == [NoFault EXCEPT !["pause"] = 1]
EveryKind    == [NoFault EXCEPT !["pause"] = 1, !["crash"] = 1, !["error"] = 2,
                                !["late"] = 1]
=============================================================================
