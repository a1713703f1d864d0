----------------------------- MODULE Subsequences -----------------------------
(***************************************************************************)
(* Parts of a sequence, chosen by position.                                *)
(***************************************************************************)
EXTENDS Naturals, Sequences, FiniteSets

(* The n-th smallest number of S. *)
Nth(S, n) == CHOOSE i \in S : Cardinality({j \in S : j < i}) = n - 1

(* The elements of s at the positions P, in their order in s. *)
Picked(s, P) == [n \in 1..Cardinality(P) |-> s[Nth(P, n)]]
=============================================================================
