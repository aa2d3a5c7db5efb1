-------------------------- MODULE MCCreatePackage --------------------------
(* An instance of CreatePackage for TLC. *)
EXTENDS CreatePackage

CONSTANT q1

JobBounds == [precheck |-> 1, candidate_generation |-> 2, validation |-> 2, baseline_parse |-> 1]
=============================================================================
