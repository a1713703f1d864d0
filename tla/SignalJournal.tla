----------------------------- MODULE SignalJournal -----------------------------
(***************************************************************************)
(* Delivery of behaviour signals from a session to the one consumer that   *)
(* drives it (DigitalPsychology, through CFWBehaviorAdapter).              *)
(*                                                                         *)
(* emit_signal, peek_behavior_signals and acknowledge_behavior_signals     *)
(* each hold signal_lock, so each is one step; a crash may still fall      *)
(* between the commit of a journal row and the update of memory, and the   *)
(* NDJSON projection that _journal derives after the commit may fail and   *)
(* raise, leaving the row committed and memory as it was.  A call that     *)
(* fails before the commit changes nothing and is a stuttering step.       *)
(*                                                                         *)
(* The journal is the SQLite authority restricted to the two kinds of row  *)
(* that concern signals.  _restore_session replays it row by row.  The     *)
(* list signal_journal is kept in cursor order, so a set of items stands   *)
(* for it.  The consumer is not part of this repository: it is modelled    *)
(* from the adapter's contract, acknowledging what it has committed.       *)
(***************************************************************************)
EXTENDS Naturals, Sequences, FiniteSets

CONSTANTS
    SignalIds,        \* values of signal_id
    Bodies,           \* what two envelopes of one signal_id may differ in
    MaxBatch,         \* 32: the most signals one peek returns
    ProjectionFaults, \* kinds of row whose NDJSON projection may fail
    MaxFaults         \* bound: crashes, failed projections and lost batches

ASSUME SignalAssumption ==
    /\ MaxBatch \in Nat \ {0}
    /\ ProjectionFaults \subseteq {"signal", "ack"}
    /\ MaxFaults \in Nat

Envelopes == [id : SignalIds, body : Bodies]
Items == [cursor : Nat \ {0}, envelope : Envelopes]
SignalRow(c, e) == [kind |-> "signal", cursor |-> c, envelope |-> {e}]
AckRow(c) == [kind |-> "ack", cursor |-> c, envelope |-> {}]
Rows == [kind : {"signal", "ack"}, cursor : Nat \ {0},
         envelope : SUBSET Envelopes]

VARIABLES
    journal,    \* committed rows, oldest first
    status,     \* "up", "replaying" or "refused" (PermissionError on resume)
    replayed,   \* rows applied so far while replaying
    cursor,     \* signal_cursor
    ackCursor,  \* signal_ack_cursor
    seen,       \* signal_seen: envelopes by signal_id
    window,     \* signal_journal: the items not acknowledged
    consumed,   \* the consumer's committed cursor
    batch,      \* the consumer's uncommitted batch
    delivered,  \* history: items the consumer has committed
    emitted,    \* history: envelopes whose emit_signal returned
    faults      \* faults so far

memory == <<cursor, ackCursor, seen, window>>
consumer == <<consumed, batch, delivered>>
vars == <<journal, status, replayed, memory, consumer, emitted, faults>>

TypeOK ==
    /\ journal \in Seq(Rows)
    /\ status \in {"up", "replaying", "refused"}
    /\ replayed \in 0..Len(journal)
    /\ cursor \in Nat
    /\ ackCursor \in 0..cursor
    /\ seen \in SUBSET Envelopes
    /\ window \in SUBSET Items
    /\ consumed \in Nat
    /\ batch \in SUBSET Items
    /\ delivered \in SUBSET Items
    /\ emitted \in SUBSET Envelopes
    /\ faults \in 0..MaxFaults

(* The behaviour state of a new session object. *)
EmptyMemory == /\ cursor' = 0
               /\ ackCursor' = 0
               /\ seen' = {}
               /\ window' = {}

Init ==
    /\ journal = <<>>
    /\ status = "up"
    /\ replayed = 0
    /\ cursor = 0
    /\ ackCursor = 0
    /\ seen = {}
    /\ window = {}
    /\ consumed = 0
    /\ batch = {}
    /\ delivered = {}
    /\ emitted = {}
    /\ faults = 0

Fails == /\ faults < MaxFaults
         /\ faults' = faults + 1
-----------------------------------------------------------------------------
(* A signal_id seen before is either the same signal again (return) or a
   conflicting one (ValueError); neither changes anything. *)
Unseen(e) == e.id \notin {s.id : s \in seen}

(* Memory once the item at the next cursor is published. *)
Publish(e) ==
    /\ cursor' = cursor + 1
    /\ seen' = seen \cup {e}
    /\ window' = window \cup {[cursor |-> cursor + 1, envelope |-> e]}
    /\ UNCHANGED ackCursor

(* Fault: the acknowledged cursor moves but one item too many is dropped. *)
FaultyPrune(through) ==
    /\ ackCursor' = through
    /\ window' = {i \in window : i.cursor > through + 1}
    /\ UNCHANGED <<cursor, seen>>
(* Memory once everything through a cursor is acknowledged. *)
Prune(through) ==
    /\ ackCursor' = through
    /\ window' = {i \in window : i.cursor > through}
    /\ UNCHANGED <<cursor, seen>>

EmitSignal(e) ==
    /\ status = "up"
    /\ Unseen(e)
    /\ journal' = Append(journal, SignalRow(cursor + 1, e))
    /\ Publish(e)
    /\ emitted' = emitted \cup {e}
    /\ UNCHANGED <<status, replayed, consumer, faults>>

(* The row is committed, its projection fails, and emit_signal raises. *)
SignalNotProjected(e) ==
    /\ "signal" \in ProjectionFaults
    /\ status = "up"
    /\ Unseen(e)
    /\ Fails
    /\ journal' = Append(journal, SignalRow(cursor + 1, e))
    /\ UNCHANGED <<status, replayed, memory, consumer, emitted>>

(* The process dies after the commit. *)
SignalCutShort(e) ==
    /\ status = "up"
    /\ Unseen(e)
    /\ Fails
    /\ journal' = Append(journal, SignalRow(cursor + 1, e))
    /\ status' = "replaying"
    /\ EmptyMemory
    /\ UNCHANGED <<replayed, consumer, emitted>>

(* peek_behavior_signals from the consumer's committed cursor: the first
   MaxBatch items after it. *)
After(c) == {i \in window : i.cursor > c}

(* Fault: the batch is the newest items, not the oldest. *)
FaultyFirstOf(S) ==
    {i \in S : Cardinality({k \in S : k.cursor > i.cursor}) < MaxBatch}
FirstOf(S) == {i \in S : Cardinality({k \in S : k.cursor < i.cursor}) < MaxBatch}

PeekSignals ==
    /\ status = "up"
    /\ batch = {}
    /\ consumed >= ackCursor
    /\ consumed <= cursor
    /\ After(consumed) # {}
    /\ batch' = FirstOf(After(consumed))
    /\ UNCHANGED <<journal, status, replayed, memory, consumed, delivered,
                   emitted, faults>>

(* The consumer's control tick and its cursor (next_cursor) commit. *)
CommitBatch ==
    /\ batch # {}
    /\ delivered' = delivered \cup batch
    /\ consumed' = CHOOSE c \in {i.cursor : i \in batch} :
                       \A i \in batch : i.cursor <= c
    /\ batch' = {}
    /\ UNCHANGED <<journal, status, replayed, memory, emitted, faults>>

(* The consumer restarts with its batch uncommitted. *)
LoseBatch ==
    /\ batch # {}
    /\ Fails
    /\ batch' = {}
    /\ UNCHANGED <<journal, status, replayed, memory, consumed, delivered,
                   emitted>>

(* acknowledge_behavior_signals: an old cursor returns, one beyond the journal
   raises. *)

(* Fault: the newest signal cannot be acknowledged. *)
FaultyAcknowledgeable(c) == c > ackCursor /\ c < cursor
Acknowledgeable(c) == c > ackCursor /\ c <= cursor

AcknowledgeSignals ==
    /\ status = "up"
    /\ Acknowledgeable(consumed)
    /\ journal' = Append(journal, AckRow(consumed))
    /\ Prune(consumed)
    /\ UNCHANGED <<status, replayed, consumer, emitted, faults>>

AckNotProjected ==
    /\ "ack" \in ProjectionFaults
    /\ status = "up"
    /\ Acknowledgeable(consumed)
    /\ Fails
    /\ journal' = Append(journal, AckRow(consumed))
    /\ UNCHANGED <<status, replayed, memory, consumer, emitted>>

Crash ==
    /\ status \in {"up", "replaying"}
    /\ Fails
    /\ status' = "replaying"
    /\ replayed' = 0
    /\ EmptyMemory
    /\ UNCHANGED <<journal, consumer, emitted>>
-----------------------------------------------------------------------------
(* _restore_session, one row at a time. *)
NextRow == journal[replayed + 1]
Replaying == status = "replaying" /\ replayed < Len(journal)

SignalRowFits(r) ==
    /\ r.kind = "signal"
    /\ r.cursor = cursor + 1
    /\ \A e \in r.envelope : Unseen(e)

AckRowFits(r) ==
    /\ r.kind = "ack"
    /\ ackCursor <= r.cursor
    /\ r.cursor <= cursor

ReplaySignal ==
    /\ Replaying
    /\ SignalRowFits(NextRow)
    /\ \E e \in NextRow.envelope : Publish(e)
    /\ replayed' = replayed + 1
    /\ UNCHANGED <<journal, status, consumer, emitted, faults>>

ReplayAck ==
    /\ Replaying
    /\ AckRowFits(NextRow)
    /\ Prune(NextRow.cursor)
    /\ replayed' = replayed + 1
    /\ UNCHANGED <<journal, status, consumer, emitted, faults>>

ReplayRefused ==
    /\ Replaying
    /\ ~SignalRowFits(NextRow)
    /\ ~AckRowFits(NextRow)
    /\ status' = "refused"
    /\ UNCHANGED <<journal, replayed, memory, consumer, emitted, faults>>

Resumed ==
    /\ status = "replaying"
    /\ replayed = Len(journal)
    /\ status' = "up"
    /\ replayed' = 0
    /\ UNCHANGED <<journal, memory, consumer, emitted, faults>>

Resume == ReplaySignal \/ ReplayAck \/ ReplayRefused \/ Resumed

Next ==
    \/ \E e \in Envelopes : \/ EmitSignal(e)
                            \/ SignalNotProjected(e)
                            \/ SignalCutShort(e)
    \/ PeekSignals
    \/ CommitBatch
    \/ LoseBatch
    \/ AcknowledgeSignals
    \/ AckNotProjected
    \/ Crash
    \/ ReplaySignal
    \/ ReplayAck
    \/ ReplayRefused
    \/ Resumed

Spec == Init /\ [][Next]_vars

(* A host that resumes a crashed session, and a consumer that keeps ticking
   and acknowledging.  Nothing obliges anyone to emit. *)
FairSpec ==
    /\ Spec
    /\ WF_vars(Resume)
    /\ WF_vars(PeekSignals)
    /\ WF_vars(CommitBatch)
    /\ WF_vars(AcknowledgeSignals)
-----------------------------------------------------------------------------
SignalRows == {k \in 1..Len(journal) : journal[k].kind = "signal"}

(* Two signals journalled under one cursor. *)
Torn == \E k, m \in SignalRows : k # m /\ journal[k].cursor = journal[m].cursor

(* _restore_session refuses a journal that this code wrote only when it holds
   two signals under one cursor: repeated acknowledgements, rows whose caller
   saw a failure and crashes at any point leave it replayable. *)
RefusedOnlyIfTorn == status = "refused" => Torn

(* Of a session that is up, every signal whose emit_signal returned has been
   committed by the consumer or is still in the window it can peek, across
   crashes of either side (emit_signal, acknowledge_behavior_signals,
   _restore_session). *)
NoSignalLost ==
    status = "up" => \A e \in emitted : \E i \in delivered \cup window :
                         i.envelope = e

(* Until the journal is torn, the session is an exactly-once stream: the signals
   its rows accept keep their cursors, and what the consumer commits from bounded
   batches (peek_behavior_signals) is always a prefix of them, whatever crashes,
   repeats or fails in between. *)
Accepted == {[cursor |-> journal[k].cursor, envelope |-> CHOOSE e \in journal[k].envelope : TRUE] :
                 k \in SignalRows}

Stream == INSTANCE SignalStream WITH
    accepted <- Accepted, committed <- delivered, broken <- Torn

ImplementsStream == Stream!StreamSpec

(* Every signal that was emitted is in the end committed by the consumer and
   acknowledged (no row of it is left in the window), whatever fails on the way
   short of a journal that cannot be resumed (emit_signal,
   peek_behavior_signals, acknowledge_behavior_signals, _restore_session). *)
SignalsDelivered ==
    \A e \in Envelopes :
        e \in emitted ~> \/ /\ \E i \in delivered : i.envelope = e
                            /\ \A i \in window : i.envelope # e
                         \/ status = "refused"

(* What a journal holds after any crash: it can be replayed unless it is torn,
   and what it owes the consumer is still there. *)
JournalInv == TypeOK /\ RefusedOnlyIfTorn /\ NoSignalLost
=============================================================================
