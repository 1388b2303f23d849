------------------------------ MODULE MCIntake ------------------------------
(* Intake for TLC: the requests are interchangeable. *)
EXTENDS Intake, TLC

CONSTANTS r1, r2, k1, k2

RequestSymmetry == Permutations(Requests)
=============================================================================
