--------------------------- MODULE TelemetryExport ---------------------------
(***************************************************************************)
(* The runtime's telemetry store and the exporters that deliver it to an   *)
(* external sink (runtime_session/telemetry.py HostTelemetry,              *)
(* runtime_contract/telemetry.py DurableTelemetryExporter).                *)
(*                                                                         *)
(* The store is an append-only file of lines.  Exporters share one state   *)
(* directory: a cursor (lines already consumed), the bounded list of       *)
(* delivered keys and a lease.  One drain is the steps Acquire, ReadCursor, *)
(* Send, the sink's answer, SaveKeys, SaveCursor and Release; the lease    *)
(* may expire, and the process may die, between any two of them.           *)
(***************************************************************************)
EXTENDS Naturals, Sequences, FiniteSets, SequencesExt, Subsequences

CONSTANTS
    Feed,          \* what the session emits, in order; a model value is an EventKey
    Channel,       \* [events -> {"agent", "host"}]: emit or _emit_host_event
    Origin,        \* [Events -> origins]: namespace, instance and agent
    Privileged,    \* events that name operator, repository or service owner
    Oversized,     \* events beyond the schema's or the metadata's bounds
    Exporters,     \* exporter objects over one state directory
    BatchSize,     \* batch_size
    MaxDelivered,  \* max_delivered_ids
    MaxCrashes     \* bound of the model: exporter crashes

ASSUME ExportAssumption ==
    /\ BatchSize \in Nat \ {0} /\ MaxDelivered \in Nat \ {0}
    /\ Feed \in Seq(Range(Feed)) /\ Cardinality(Range(Feed)) = Len(Feed)

Events == Range(Feed)
Malformed == "malformed"

VARIABLES
    store,      \* complete lines of the NDJSON store
    partial,    \* the store ends in a line without its newline
    cursor,     \* telemetry.cursor.json: lines consumed
    keys,       \* telemetry.ids.json: delivered keys, oldest first
    lease,      \* telemetry.lease.json: "none", "live" or "expired"
    drain,      \* [Exporters -> the drain each worker thread is in]
    acked,      \* history: events a sink acknowledged in time
    crashes

vars == <<store, partial, cursor, keys, lease, drain, acked, crashes>>

Idle == [at |-> "idle", start |-> 0, entries |-> <<>>, delivered |-> <<>>,
         batch |-> <<>>, prefix |-> 0]

Init ==
    /\ store = <<>> /\ partial = FALSE
    /\ cursor = 0 /\ keys = <<>> /\ lease = "none"
    /\ drain = [x \in Exporters |-> Idle]
    /\ acked = {} /\ crashes = 0

(* _validate, _validate_metadata and validate_event refuse an event beyond *)
(* the bounds; emit, not the host's path, refuses a privileged actor.  The *)
(* others are written in order.                                            *)
Emittable(e) == e \notin Oversized /\ (Channel[e] = "host" \/ e \notin Privileged)
Written == Picked(Feed, {k \in 1..Len(Feed) : Emittable(Feed[k])})

(* A line appended after a torn one completes it: the two are one line     *)
(* that does not parse.                                                    *)
Appended(e) == IF partial THEN Append(store, Malformed) ELSE Append(store, e)

(* emit and _emit_host_event, through emit_event.                          *)
Emit ==
    /\ Len(store) < Len(Written)
    /\ store' = Appended(Written[Len(store) + 1])
    /\ partial' = FALSE
    /\ UNCHANGED <<cursor, keys, lease, drain, acked, crashes>>

(* The host dies inside the write of a line.                               *)
TearLine ==
    /\ Len(store) < Len(Written)
    /\ ~partial
    /\ Malformed \notin Range(store)
    /\ partial' = TRUE
    /\ UNCHANGED <<store, cursor, keys, lease, drain, acked, crashes>>

AtMost(bound, n) == IF n < bound THEN n ELSE bound

(* _read_entries: line numbers of up to four batches of complete lines     *)
(* that parse, from a cursor that a shorter file resets to its beginning.  *)
FaultyReadEntries(from) ==
    LET begin == IF from > Len(store) THEN 0 ELSE from
        good == {i \in begin + 1..Len(store) : \A j \in begin + 1..i : store[j] # Malformed}
    IN [n \in 1..AtMost(4 * BatchSize, Cardinality(good)) |-> Nth(good, n)]

ReadEntries(from) ==
    LET begin == IF from > Len(store) THEN 0 ELSE from
        good == {i \in begin + 1..Len(store) : store[i] # Malformed}
    IN [n \in 1..AtMost(4 * BatchSize, Cardinality(good)) |-> Nth(good, n)]

(* An event's turn in _fair_batch: rounds over the origins in the order    *)
(* they first appear, one event of each origin a round.  (origin_budget    *)
(* compares with the events of the batch that still wait in the origin's   *)
(* bucket, of which there are none, so a positive budget never binds.)     *)
Turn(entries, pending, i) ==
    LET origin(j) == Origin[store[entries[j]]]
        same(j) == {k \in pending : origin(k) = origin(j)}
        round(j) == Cardinality({k \in same(j) : k < j})
        first(j) == CHOOSE k \in same(j) : \A l \in same(j) : k <= l
    IN Cardinality({j \in pending :
          \/ round(j) < round(i)
          \/ round(j) = round(i) /\ first(j) < first(i)})

FairBatch(entries, delivered) ==
    LET pending == {i \in 1..Len(entries) : store[entries[i]] \notin Range(delivered)}
    IN [n \in 1..AtMost(BatchSize, Cardinality(pending)) |->
           store[entries[CHOOSE i \in pending : Turn(entries, pending, i) = n - 1]]]

Leave(x) == drain' = [drain EXCEPT ![x] = [Idle EXCEPT !.at = "release"]]

(* _delivery_loop and _lease: a wake-up starts a drain unless a lease has  *)
(* not expired.  Every emitted event and every flush enqueues one, so a    *)
(* wake-up may be there at any time; close() keeps the worker from taking  *)
(* another one, which is to take no step until an exporter is opened over  *)
(* the same directory.                                                     *)
Acquire(x) ==
    /\ drain[x].at = "idle"
    /\ lease # "live"
    /\ lease' = "live"
    /\ drain' = [drain EXCEPT ![x].at = "leased"]
    /\ UNCHANGED <<store, partial, cursor, keys, acked, crashes>>

(* _cursor and _read_entries.                                              *)
ReadCursor(x) ==
    /\ drain[x].at = "leased"
    /\ LET entries == ReadEntries(cursor)
       IN drain' = [drain EXCEPT ![x] =
              [@ EXCEPT !.at = IF entries = <<>> THEN "cursor" ELSE "read",
                        !.start = cursor, !.entries = entries]]
    /\ UNCHANGED <<store, partial, cursor, keys, lease, acked, crashes>>

(* _delivered_keys, _fair_batch and the call of the sink.                  *)
Send(x) ==
    /\ drain[x].at = "read"
    /\ LET batch == FairBatch(drain[x].entries, keys)
       IN IF batch = <<>> THEN Leave(x)
          ELSE drain' = [drain EXCEPT ![x] =
                  [@ EXCEPT !.at = "sink", !.delivered = keys, !.batch = batch]]
    /\ UNCHANGED <<store, partial, cursor, keys, lease, acked, crashes>>

(* The sink raises, answers after its deadline, answers None, or names an  *)
(* unknown key: nothing advances.                                          *)
SinkFails(x) ==
    /\ drain[x].at = "sink"
    /\ Leave(x)
    /\ UNCHANGED <<store, partial, cursor, keys, lease, acked, crashes>>

(* How many of the entries read are delivered or acknowledged, in order.   *)
FaultyConsumed(d, ack) ==
    Cardinality({i \in 1..Len(d.entries) : store[d.entries[i]] \in Range(d.delivered) \cup ack})

Consumed(d, ack) ==
    LET done(n) == \A i \in 1..n : store[d.entries[i]] \in Range(d.delivered) \cup ack
    IN CHOOSE n \in 0..Len(d.entries) : done(n) /\ (n < Len(d.entries) => ~done(n + 1))

(* The sink acknowledges some of the batch in time.                        *)
SinkAcknowledges(x, ack) ==
    /\ drain[x].at = "sink"
    /\ acked' = acked \cup ack
    /\ LET n == Consumed(drain[x], ack)
       IN IF n = 0 THEN Leave(x)
          ELSE drain' = [drain EXCEPT ![x] =
                  [@ EXCEPT !.at = "keys", !.batch = <<>>, !.prefix = n]]
    /\ UNCHANGED <<store, partial, cursor, keys, lease, crashes>>

(* The bounded list of keys after a drain.                                 *)

Bounded(s) == IF Len(s) > MaxDelivered THEN SubSeq(s, Len(s) - MaxDelivered + 1, Len(s)) ELSE s

KeysAfter(d) ==
    LET consumed == [i \in 1..d.prefix |-> store[d.entries[i]]]
        new == Picked(consumed, {i \in 1..d.prefix : consumed[i] \notin Range(d.delivered)})
    IN Bounded(d.delivered \o new)

(* _save_keys *)
SaveKeys(x) ==
    /\ drain[x].at = "keys"
    /\ keys' = KeysAfter(drain[x])
    /\ drain' = [drain EXCEPT ![x] = [@ EXCEPT !.at = "cursor", !.delivered = <<>>]]
    /\ UNCHANGED <<store, partial, cursor, lease, acked, crashes>>

(* _save_cursor, after the keys or because there was nothing to read.      *)
SaveCursor(x) ==
    /\ drain[x].at = "cursor"
    /\ cursor' = IF drain[x].prefix = 0 THEN drain[x].start
                 ELSE drain[x].entries[drain[x].prefix]
    /\ Leave(x)
    /\ UNCHANGED <<store, partial, keys, lease, acked, crashes>>

(* _release_lease removes the lease whoever holds it.                      *)
Release(x) ==
    /\ drain[x].at = "release"
    /\ lease' = "none"
    /\ drain' = [drain EXCEPT ![x] = Idle]
    /\ UNCHANGED <<store, partial, cursor, keys, acked, crashes>>

(* A lease lasts at most five seconds; a sink may take up to fifteen.      *)
ExpireLease ==
    /\ lease = "live"
    /\ lease' = "expired"
    /\ UNCHANGED <<store, partial, cursor, keys, drain, acked, crashes>>

Crash(x) ==
    /\ crashes < MaxCrashes
    /\ drain[x].at # "idle"
    /\ crashes' = crashes + 1
    /\ drain' = [drain EXCEPT ![x] = Idle]
    /\ UNCHANGED <<store, partial, cursor, keys, lease, acked>>

Drain(x) ==
    Acquire(x) \/ ReadCursor(x) \/ Send(x) \/ SaveKeys(x) \/ SaveCursor(x) \/ Release(x)

Next ==
    \/ Emit \/ TearLine \/ ExpireLease
    \/ \E x \in Exporters :
          \/ Drain(x) \/ Crash(x) \/ SinkFails(x)
          \/ \E ack \in SUBSET Range(drain[x].batch) : SinkAcknowledges(x, ack)

(* The worker threads run and are woken, leases run out, and a sink that   *)
(* is asked again and again acknowledges a whole batch in time.            *)
Fairness ==
    /\ WF_vars(ExpireLease)
    /\ \A x \in Exporters :
          /\ WF_vars(Drain(x))
          /\ SF_vars(drain[x].at = "sink" /\ SinkAcknowledges(x, Range(drain[x].batch)))

Spec == Init /\ [][Next]_vars /\ Fairness

-----------------------------------------------------------------------------
(* Properties *)

(* The export state is well formed: the cursor is a place in the store,    *)
(* the key list stays within max_delivered_ids without repetitions, and a  *)
(* drain reads only complete lines that parse.                             *)
TypeOK ==
    /\ store \in Seq(Events \cup {Malformed}) /\ Len(store) <= Len(Written)
    /\ cursor \in 0..Len(store) /\ lease \in {"none", "live", "expired"}
    /\ keys \in Seq(Events) /\ Len(keys) <= MaxDelivered
    /\ Cardinality(Range(keys)) = Len(keys)
    /\ \A x \in Exporters :
          /\ drain[x].prefix \in 0..Len(drain[x].entries)
          /\ \A i \in 1..Len(drain[x].entries) : store[drain[x].entries[i]] \in Events

(* Whatever drains overlap, leases expire and processes die: the cursor    *)
(* never passes an event that no sink acknowledged in time, and no key is  *)
(* stored for one.  An overlapped drain can only deliver again.            *)
NothingSkipped ==
    /\ \A i \in 1..cursor : store[i] \in acked \cup {Malformed}
    /\ Range(keys) \subseteq acked

(* A batch is shared out between origins: an origin that still has an      *)
(* event waiting in the entries read got at most one place less than any   *)
(* other.                                                                  *)
BatchIsFair ==
    \A x \in Exporters : drain[x].at = "sink" =>
        LET d == drain[x]
            share(o) == Cardinality({i \in 1..Len(d.batch) : Origin[d.batch[i]] = o})
            waiting == {store[d.entries[i]] : i \in 1..Len(d.entries)}
                         \ (Range(d.delivered) \cup Range(d.batch))
        IN \A e \in waiting : \A f \in Range(d.batch) :
              share(Origin[f]) <= share(Origin[e]) + 1

(* The exporter's stores are sound, complete up to the cursor and shared   *)
(* out fairly (_save_keys, _save_cursor, _fair_batch).                     *)
ExportInv == TypeOK /\ NothingSkipped /\ BatchIsFair

(* Every entry a drain would read is a delivered key: the drain finds      *)
(* nothing to send and returns before it moves the cursor.                 *)
Stalled ==
    LET window == ReadEntries(cursor)
    IN /\ Len(window) = 4 * BatchSize
       /\ \A i \in 1..(4 * BatchSize) : store[window[i]] \in Range(keys)

(* Every event whose line is in the store is acknowledged in the end,      *)
(* through lost answers, expired leases and crashes, unless the whole      *)
(* window behind the cursor already is (telemetry.py:246).                 *)
DeliveredUnlessStalled ==
    \A e \in Range(Written) : (e \in Range(store)) ~> (e \in acked \/ Stalled)
=============================================================================
