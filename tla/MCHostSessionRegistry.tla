------------------------- MODULE MCHostSessionRegistry -------------------------
(* Instances of HostSessionRegistry; the sessions are interchangeable. *)
EXTENDS HostSessionRegistry, TLC

CONSTANTS s1, s2, s3

SessionSymmetry == Permutations(Sessions)
=============================================================================
