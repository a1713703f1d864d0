------------------------------ MODULE MCActionGate ------------------------------
(* A small instance of ActionGate for TLC. *)
EXTENDS ActionGate, TLC

CONSTANTS erase, test, c1

EveryActionAffects == [a \in Actions |-> <<c1>>]
OneScope == {<<c1>>}
TwoGrantsToErase == <<erase, erase>>
=============================================================================
