-------------------------- MODULE MCRetryConvergence --------------------------
(* Small instances of RetryConvergence for TLC. *)
EXTENDS RetryConvergence, TLC

CONSTANTS primary, side, p1, p2, q1, a1, a2, a3

AttemptSymmetry == Permutations(Attempts)
=============================================================================
