------------------------------ MODULE MCJobList ------------------------------
(***************************************************************************)
(* The instance of JobList for TLC: ids are numbers, for their order.      *)
(***************************************************************************)
EXTENDS JobList

ThreeJobs == 1..3
=============================================================================
