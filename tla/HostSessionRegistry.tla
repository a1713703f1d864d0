--------------------------- MODULE HostSessionRegistry ---------------------------
(***************************************************************************)
(* The bounded, expiring registry through which host and agent handles     *)
(* reach their sessions.  Every public operation holds one lock, so each   *)
(* is one step; time passes between steps.                                 *)
(*                                                                         *)
(* entries is the OrderedDict in its order (least recently used first).    *)
(* Tokens are uuids in the code and numbers here.  The owner identity      *)
(* stored with an entry is derived from session.bundle.task_id, which a    *)
(* started session cannot change, so resolve's ownership check always      *)
(* succeeds for the session an entry holds.                                *)
(*                                                                         *)
(* A task handle, its agent and its host handle share one token; every     *)
(* method of theirs resolves it first.  A task handle caches the component *)
(* adapter it created and returns it without asking the registry again.    *)
(***************************************************************************)
EXTENDS Naturals, Sequences, FiniteSets, Subsequences

CONSTANTS
    Sessions,     \* started sessions the host may register
    MaxSessions,  \* max_sessions
    Ttl,          \* ttl_seconds
    MaxTokens,    \* bound: tokens drawn
    MaxTime       \* bound: the clock

(* What the constants are. *)
RegistryConstants ==
    /\ MaxSessions \in Nat \ {0}
    /\ Ttl \in Nat \ {0}
    /\ MaxTokens \in Nat
    /\ MaxTime \in Nat

Entries == [token : 1..MaxTokens, session : Sessions, expires : Nat]

VARIABLES
    entries,  \* _entries
    now,      \* the monotonic clock
    drawn,    \* tokens drawn so far (uuid4)
    adapters, \* _component_adapters: the session each task handle's adapter is bound to
    operators,\* whether the runtime's operator read model still takes events
    handles,  \* history: what register returned, and for which session
    closed    \* history: sessions closed since they were last registered

vars == <<entries, now, drawn, adapters, operators, handles, closed>>

TypeOK ==
    /\ entries \in Seq(Entries)
    /\ now \in 0..MaxTime
    /\ drawn \in 0..MaxTokens
    /\ adapters \in SUBSET [token : 1..MaxTokens, session : Sessions]
    /\ operators \in BOOLEAN
    /\ handles \in SUBSET [token : 1..MaxTokens, session : Sessions]
    /\ closed \in SUBSET Sessions

Init ==
    /\ entries = <<>>
    /\ now = 0
    /\ drawn = 0
    /\ adapters = {}
    /\ operators = TRUE
    /\ handles = {}
    /\ closed = {}
-----------------------------------------------------------------------------
Tokens(es) == {es[k].token : k \in 1..Len(es)}
Held(es) == {es[k].session : k \in 1..Len(es)}

(* Fault: an entry whose time has just come is kept. *)
FaultyUnexpired(es) == Picked(es, {k \in 1..Len(es) : es[k].expires >= now})
(* _expire_locked *)
Unexpired(es) == Picked(es, {k \in 1..Len(es) : es[k].expires > now})

Without(es, token) == Picked(es, {k \in 1..Len(es) : es[k].token # token})

(* Fault: every dropped entry's session is closed, held elsewhere or not. *)
FaultyReleased(before, after) ==
    {before[k].session : k \in {j \in 1..Len(before) :
                                  before[j].token \notin Tokens(after)}}
(* _drop_locked closes the session of a dropped entry once no other entry
   holds it. *)
Released(before, after) == Held(before) \ Held(after)

(* _close_resources, for which the telemetry exporter is out of reach: it asks
   for an attribute _telemetry_exporter, and a session has none (its exporter
   is telemetry_state.exporter). *)
CloseResources(gone) == closed' = closed \cup gone

(* The number of entries register evicts to make room for one. *)
Excess(es) == IF Len(es) >= MaxSessions THEN Len(es) - MaxSessions + 1 ELSE 0

(* The eviction loop assigns the evicted token to the variable that holds the
   new one, and the new entry is stored under what that variable holds. *)
TokenFor(es, fresh) == IF Excess(es) = 0 THEN fresh ELSE es[Excess(es)].token

Entry(t, s) == [token |-> t, session |-> s, expires |-> now + Ttl]

Register(s) ==
    LET live == Unexpired(entries)
        kept == SubSeq(live, Excess(live) + 1, Len(live))
        token == TokenFor(live, drawn + 1)
    IN /\ drawn < MaxTokens
       /\ drawn' = drawn + 1
       /\ entries' = Append(kept, Entry(token, s))
       /\ handles' = handles \cup {[token |-> token, session |-> s]}
       /\ closed' = (closed \cup Released(entries, kept)) \ {s}
       /\ UNCHANGED now

(* resolve renews the entry and moves it to the end. *)
Renewed(es, token) ==
    LET mine == Picked(es, {k \in 1..Len(es) : es[k].token = token})
    IN Without(es, token) \o [k \in 1..Len(mine) |-> Entry(token, mine[k].session)]

(* A token without an entry raises, after the expired ones are dropped. *)
Resolve(token) ==
    LET live == Unexpired(entries)
    IN /\ entries' = IF token \in Tokens(live) THEN Renewed(live, token) ELSE live
       /\ CloseResources(Released(entries, live))
       /\ UNCHANGED <<now, drawn, handles>>

Close(token) ==
    /\ entries' = Without(entries, token)
    /\ CloseResources(Released(entries, Without(entries, token)))
    /\ UNCHANGED <<now, drawn, handles>>

CloseAll ==
    /\ entries' = <<>>
    /\ CloseResources(Held(entries))
    /\ UNCHANGED <<now, drawn, adapters, operators, handles>>

Tick ==
    /\ now < MaxTime
    /\ now' = now + 1
    /\ UNCHANGED <<entries, drawn, adapters, operators, handles, closed>>
-----------------------------------------------------------------------------
(* The runtime API and its handles. *)

(* A task is resolved, started and registered; host_handle and agent_handle of
   a bare session register it once more. *)
BeginTask(s) == Register(s) /\ UNCHANGED <<adapters, operators>>

(* A start that raises closes the operator read model, which the runtime shares
   with the tasks it started before. *)
BeginTaskFails ==
    /\ operators' = FALSE
    /\ UNCHANGED <<entries, now, drawn, adapters, handles, closed>>

(* Any method of an agent or host handle, or of a task handle but the two below. *)
CallHandle(token) == Resolve(token) /\ UNCHANGED <<adapters, operators>>

CreateComponentAdapter(h) ==
    /\ ~\E d \in adapters : d.token = h.token
    /\ Resolve(h.token)
    /\ adapters' = adapters \cup {[token |-> h.token, session |-> entries'[k].session] :
                                    k \in {j \in 1..Len(entries') :
                                            entries'[j].token = h.token}}
    /\ UNCHANGED operators

(* Close of a host handle; of a task handle, which forgets its adapter first. *)
CloseHandle(token) == Close(token) /\ UNCHANGED <<adapters, operators>>
CloseTask(h) ==
    /\ Close(h.token)
    /\ adapters' = {d \in adapters : d.token # h.token}
    /\ UNCHANGED operators

IssuedTokens == {h.token : h \in handles}

Next ==
    \/ \E s \in Sessions : BeginTask(s)
    \/ BeginTaskFails
    \/ \E t \in IssuedTokens : CallHandle(t) \/ CloseHandle(t)
    \/ \E h \in handles : CreateComponentAdapter(h) \/ CloseTask(h)
    \/ CloseAll
    \/ Tick

Spec == Init /\ [][Next]_vars
-----------------------------------------------------------------------------
(* The registry never holds more than max_sessions entries, nor two under one
   token, and an entry is never in front of one that would expire sooner: what
   register evicts is what would have expired first (register, resolve). *)
BoundedAndOrdered ==
    /\ TypeOK
    /\ Len(entries) <= MaxSessions
    /\ \A j, k \in 1..Len(entries) :
          j < k => /\ entries[j].token # entries[k].token
                   /\ entries[j].expires <= entries[k].expires

(* A session that was registered is closed exactly when no entry holds it: a
   session reached through several handles stays open until the last of them
   goes, and none is forgotten (_drop_locked, _expire_locked, close_all). *)
ClosedIffUnheld ==
    \A h \in handles : h.session \in closed <=> h.session \notin Held(entries)

(* A call that resolves a handle never returns a session whose handle has
   outlived its time to live (_expire_locked, before every lookup). *)
ServedIsLive ==
    \A t \in IssuedTokens :
        (CallHandle(t) /\ t \in Tokens(entries')) =>
            \E k \in 1..Len(entries) : entries[k].token = t /\ entries[k].expires > now

NoExpiredSessionServed == [][ServedIsLive]_vars

(* Said by docs/integrations.md: "The registry pins each handle to its
   immutable execution identity": a handle reaches the session it was issued
   for, or none. *)
HandleKeepsSession ==
    \A h \in handles : \A k \in 1..Len(entries) :
        entries[k].token = h.token => entries[k].session = h.session
=============================================================================
