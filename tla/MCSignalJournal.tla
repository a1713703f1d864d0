---------------------------- MODULE MCSignalJournal ----------------------------
(* Instances of SignalJournal; a liveness property is checked, so none uses
   symmetry. *)
EXTENDS SignalJournal, TLC

CONSTANTS i1, i2, i3, b1, b2
=============================================================================
