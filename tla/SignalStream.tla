----------------------------- MODULE SignalStream -----------------------------
(***************************************************************************)
(* What a session promises the consumer of its behaviour signals: a stream *)
(* in which an accepted signal keeps its cursor, and from which the        *)
(* consumer commits ever longer prefixes, each signal once and in order.   *)
(* A stream that is broken promises nothing any more.                      *)
(***************************************************************************)
EXTENDS Naturals, FiniteSets

CONSTANT Envelopes

VARIABLES
    accepted,    \* items: a cursor and an envelope
    committed,   \* the items the consumer has committed
    broken

streamVars == <<accepted, committed, broken>>

StreamInit == accepted = {} /\ committed = {} /\ ~broken

(* A new signal takes the next cursor. *)
Accept(e) ==
    /\ \A i \in accepted : i.envelope.id # e.id
    /\ accepted' = accepted \union {[cursor |-> Cardinality(accepted) + 1, envelope |-> e]}
    /\ UNCHANGED <<committed, broken>>

(* The consumer commits everything through a later cursor. *)
Commit(through) ==
    /\ committed' = {i \in accepted : i.cursor <= through}
    /\ committed \subseteq committed'
    /\ UNCHANGED <<accepted, broken>>

StreamNext ==
    \/ \E e \in Envelopes : Accept(e)
    \/ \E i \in accepted : Commit(i.cursor)
    \/ broken'

StreamSpec == StreamInit /\ [][StreamNext]_streamVars
=============================================================================
