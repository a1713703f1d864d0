-------------------------- MODULE OperatorReadModel --------------------------
(***************************************************************************)
(* The cockpit's read model (runtime_contract/operator_readmodel.py,       *)
(* operator_events.py, operator_service.py) and the runtimes that feed it  *)
(* (_emit_runtime in runtime_session/segments.py).                         *)
(*                                                                         *)
(* An emitter reads the next sequence number and publishes an event under  *)
(* it in two steps; one worker stores queued events and pushes them to     *)
(* subscribers; a subscriber registers its queue, reads the stored backlog *)
(* and then follows the queue.                                             *)
(***************************************************************************)
EXTENDS Naturals, Sequences, FiniteSets, SequencesExt, Subsequences

CONSTANTS
    Emitters,      \* runtimes sharing the read model
    Subscribers,   \* cockpit clients
    Retention,     \* retention: rows kept and size of a subscriber's queue
    QueueSize,     \* queue_size
    MaxEvents      \* bound of the model: events emitted

(* What the constants are: a queue of size 0 would be unbounded. *)
OperatorConstants ==
    Retention \in Nat \ {0} /\ QueueSize \in Nat \ {0} /\ MaxEvents \in Nat

VARIABLES
    rows,      \* operator_events: [sequences stored -> event]
    queue,     \* published events not yet projected: [seq, event]
    pending,   \* [Emitters -> sequence read and not yet used, 0 for none]
    emitted,   \* events emitted so far; event n is the n-th
    accepted,  \* history: what publish accepted
    failed,    \* history: events whose projection raised
    worker,    \* "running" or "stopped"
    sub        \* [Subscribers -> the subscription of each]

vars == <<rows, queue, pending, emitted, accepted, failed, worker, sub>>

(* close() puts None at the end of the queue.                              *)
Sentinel == [seq |-> 0, event |-> 0]

Unsubscribed == [at |-> "away", registered |-> FALSE, after |-> 0, queue |-> <<>>, backlog |-> <<>>,
                 shown |-> {}, missed |-> FALSE]

Init ==
    /\ rows = <<>> /\ queue = <<>>
    /\ pending = [m \in Emitters |-> 0]
    /\ emitted = 0 /\ accepted = {} /\ failed = {}
    /\ worker = "running"
    /\ sub = [u \in Subscribers |-> Unsubscribed]

(* SELECT MAX(sequence), as snapshot reports it and wait_for_sequence      *)
(* polls it.                                                               *)
HighWatermark == IF DOMAIN rows = {} THEN 0
                 ELSE CHOOSE n \in DOMAIN rows : \A k \in DOMAIN rows : k <= n

Lowest == CHOOSE n \in DOMAIN rows : \A k \in DOMAIN rows : n <= k

(* allocate_sequence: the number is read, not reserved.                    *)
AllocateSequence(m) ==
    /\ pending[m] = 0 /\ emitted < MaxEvents
    /\ pending' = [pending EXCEPT ![m] = HighWatermark + 1]
    /\ UNCHANGED <<rows, queue, emitted, accepted, failed, worker, sub>>

(* OperatorEvent.create and publish; a full queue refuses the event, which *)
(* _emit_runtime ignores.                                                  *)
Publish(m) ==
    LET event == [seq |-> pending[m], event |-> emitted + 1] IN
    /\ pending[m] > 0
    /\ emitted < MaxEvents
    /\ pending' = [pending EXCEPT ![m] = 0]
    /\ emitted' = emitted + 1
    /\ IF Len(queue) < QueueSize
       THEN queue' = Append(queue, event) /\ accepted' = accepted \cup {event}
       ELSE UNCHANGED <<queue, accepted>>
    /\ UNCHANGED <<rows, failed, worker, sub>>

(* INSERT OR IGNORE, then the retention DELETE.                            *)
Stored(event) ==
    LET all == DOMAIN rows \cup {event.seq}
        top == CHOOSE n \in all : \A k \in all : k <= n
    IN [n \in {k \in all : k + Retention > top} |->
           IF n \in DOMAIN rows THEN rows[n] ELSE event.event]

(* put_nowait on a registered subscriber's queue; Full is passed over.     *)
Pushed(s, event) ==
    IF ~s.registered THEN s
    ELSE IF Len(s.queue) < Retention THEN [s EXCEPT !.queue = Append(@, event)]
    ELSE [s EXCEPT !.missed = TRUE]

(* _run: the head of the queue is stored and pushed under the lock.        *)
Project ==
    /\ worker = "running" /\ queue # <<>> /\ Head(queue) # Sentinel
    /\ queue' = Tail(queue)
    /\ rows' = Stored(Head(queue))
    /\ sub' = [u \in Subscribers |-> Pushed(sub[u], Head(queue))]
    /\ UNCHANGED <<pending, emitted, accepted, failed, worker>>

(* The database raises: the worker goes on with the next event.            *)
ProjectFails ==
    /\ worker = "running" /\ queue # <<>> /\ Head(queue) # Sentinel
    /\ queue' = Tail(queue)
    /\ failed' = failed \cup {Head(queue)}
    /\ UNCHANGED <<rows, pending, emitted, accepted, worker, sub>>

(* A client takes a snapshot and streams after its watermark, or streams   *)
(* from the beginning: the queue is registered here.                       *)
Stream(u, after) ==
    /\ sub[u].at = "away"
    /\ sub' = [sub EXCEPT ![u] = [Unsubscribed EXCEPT !.at = "waiting", !.registered = TRUE,
                                                !.after = after]]
    /\ UNCHANGED <<rows, queue, pending, emitted, accepted, failed, worker>>

(* _backlog: the rows after the client's sequence, in order, or            *)
(* ResyncRequired when the first of them has been deleted.                 *)
FaultyBacklogOf(after) ==
    LET later == {n \in DOMAIN rows : n > after + 1}
    IN [i \in 1..Cardinality(later) |->
           [seq |-> Nth(later, i), event |-> rows[Nth(later, i)]]]

BacklogOf(after) ==
    LET later == {n \in DOMAIN rows : n > after}
    IN [i \in 1..Cardinality(later) |->
           [seq |-> Nth(later, i), event |-> rows[Nth(later, i)]]]

ReadBacklog(u) ==
    LET s == sub[u] IN
    /\ s.at = "waiting"
    /\ sub' = [sub EXCEPT ![u] =
          IF DOMAIN rows # {} /\ s.after + 1 < Lowest
          THEN [s EXCEPT !.at = "resync"]
          ELSE [s EXCEPT !.at = "backlog", !.backlog = BacklogOf(s.after)]]
    /\ UNCHANGED <<rows, queue, pending, emitted, accepted, failed, worker>>

(* A backlog row is put into the client's own queue too, and yielded.      *)
YieldBacklog(u) ==
    LET s == sub[u] IN
    /\ s.at = "backlog" /\ s.backlog # <<>>
    /\ sub' = [sub EXCEPT ![u] =
          IF Len(s.queue) < Retention
          THEN [s EXCEPT !.queue = Append(@, Head(s.backlog)),
                         !.backlog = Tail(@), !.shown = @ \cup {Head(s.backlog)}]
          ELSE [s EXCEPT !.at = "resync"]]
    /\ UNCHANGED <<rows, queue, pending, emitted, accepted, failed, worker>>

(* _iterate after the backlog.                                             *)
Take(u) ==
    LET s == sub[u] IN
    /\ s.at = "backlog" /\ s.backlog = <<>> /\ s.queue # <<>>
    /\ sub' = [sub EXCEPT ![u] = [s EXCEPT !.queue = Tail(@), !.shown = @ \cup {Head(s.queue)}]]
    /\ UNCHANGED <<rows, queue, pending, emitted, accepted, failed, worker>>

(* OperatorSubscription.close; a client told to resync closes and starts   *)
(* over.                                                                   *)
CloseSubscription(u) ==
    /\ sub[u].at \in {"waiting", "backlog", "resync"}
    /\ sub' = [sub EXCEPT ![u] = Unsubscribed]
    /\ UNCHANGED <<rows, queue, pending, emitted, accepted, failed, worker>>

(* close: a full queue swallows the sentinel and the worker goes on; the   *)
(* registered queues are forgotten either way.                             *)
Close ==
    /\ worker = "running" /\ Sentinel \notin Range(queue)
    /\ queue' = IF Len(queue) < QueueSize THEN Append(queue, Sentinel) ELSE queue
    /\ sub' = [u \in Subscribers |-> [sub[u] EXCEPT !.registered = FALSE]]
    /\ UNCHANGED <<rows, pending, emitted, accepted, failed, worker>>

Stop ==
    /\ worker = "running" /\ queue # <<>> /\ Head(queue) = Sentinel
    /\ queue' = Tail(queue)
    /\ worker' = "stopped"
    /\ UNCHANGED <<rows, pending, emitted, accepted, failed, sub>>

Next ==
    \/ \E m \in Emitters : AllocateSequence(m) \/ Publish(m)
    \/ Project \/ ProjectFails \/ Close \/ Stop
    \/ \E u \in Subscribers :
          \/ \E after \in {0, HighWatermark} : Stream(u, after)
          \/ ReadBacklog(u) \/ YieldBacklog(u) \/ Take(u) \/ CloseSubscription(u)

Spec == Init /\ [][Next]_vars

-----------------------------------------------------------------------------
(* Properties *)

(* The read model is well formed and within its bounds: the retention and  *)
(* both kinds of queue.                                                    *)
TypeOK ==
    /\ DOMAIN rows \subseteq 1..MaxEvents
    /\ \A n \in DOMAIN rows : rows[n] \in 1..emitted
    /\ Cardinality(DOMAIN rows) <= Retention
    /\ Len(queue) <= QueueSize
    /\ \A u \in Subscribers : Len(sub[u].queue) <= Retention
    /\ \A m \in Emitters : pending[m] \in 0..(MaxEvents + 1)

(* However emitters race for sequence numbers and whatever the retention   *)
(* deletes, the stored sequences have no hole: what a client compares to   *)
(* tell that its place has expired (operator_readmodel.py:107).            *)
RowsContiguous ==
    \A n, k \in DOMAIN rows : n..k \subseteq DOMAIN rows

(* A registered client whose own queue never overflowed and which was not  *)
(* told to resync misses no stored event after its sequence: it was shown  *)
(* it, or the event waits in its backlog or its queue.                     *)
NoSilentGap ==
    \A u \in Subscribers :
        LET s == sub[u] IN
        (s.registered /\ s.at = "backlog" /\ ~s.missed) =>
            \A n \in DOMAIN rows : n > s.after =>
                [seq |-> n, event |-> rows[n]] \in s.shown \cup Range(s.queue) \cup Range(s.backlog)

(* An accepted event is lost only to a failed projection, to the           *)
(* retention, or because another event holds the sequence both read.       *)
LostOnlyToReuse ==
    \A e \in accepted :
        \/ e \in Range(queue) \/ e \in failed
        \/ e.seq + Retention <= HighWatermark
        \/ e.seq \in DOMAIN rows /\ (rows[e.seq] = e.event \/ \E f \in accepted :
                f # e /\ f.seq = e.seq /\ f.event = rows[e.seq])
=============================================================================
