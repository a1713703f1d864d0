------------------------------ MODULE SharedWorkflow ------------------------------
(***************************************************************************)
(* Sessions of several agents that move one workflow of the external       *)
(* workflow engine (CSW).  The host issues and revokes signed membership   *)
(* grants and may revoke an adopted behavior profile; a session presents   *)
(* the grant its bundle pins.  Every read of an authority is a step of its *)
(* own, so another session, the host or the engine may act between two     *)
(* reads of one call: record_state_transition, record_workflow_step and    *)
(* the authority part of prepare_action.                                   *)
(*                                                                         *)
(* The engine applies a step by compare and swap on its revision and is    *)
(* durable: log[w] is the sequence of steps it has applied to workflow w,  *)
(* its revision is the length.  One host process holds all sessions and    *)
(* the membership authority; a crash loses both, the journals survive.     *)
(* Structural handlers, evidence resolution, the engine's own refusals and *)
(* an unreachable authority all end a call in the same way (Refused).      *)
(***************************************************************************)
EXTENDS Naturals, Sequences, FiniteSets

CONSTANTS
    Agents,       \* agent_instance_id, one session each
    Grants,       \* membership grants, identified by the digest of their content
    Members,      \* a function of Grants: member_agent_id
    Transitional, \* the grants whose allowed_operations include "transition"
    Bundles,      \* the pinned memberships a run may start with
    Adopters,     \* agents whose bundle adopts the profile that may be revoked
    States,       \* states of the workflow
    Start0,       \* its initial state
    MaxRevision,  \* bound: steps of a workflow
    MaxFaults     \* bound: crashes and failed writes

None == "none"
Shared == "shared"
Workflows == Agents \cup {Shared}

ASSUME WorkflowAssumption ==
    /\ None \notin Grants
    /\ Members \in [Grants -> Agents]
    /\ Transitional \in SUBSET Grants
    /\ Bundles \in SUBSET [Agents -> Grants \cup {None}]
    /\ Bundles # {}
    /\ Adopters \in SUBSET Agents
    /\ Start0 \in States
    /\ MaxRevision \in Nat
    /\ MaxFaults \in Nat

Revisions == 0..MaxRevision
Steps == {s \in [from : States, to : States] : s.from # s.to}

(* What the engine keeps of an applied step. *)
Applied == [agent : Agents, asked : States \cup {None}, from : States, to : States]

(* A call in progress: the origin its caller asserted, the destination it asks
   for, the step resolved, the revisions it expects (none: any) and the one it
   inspected. *)
Calls ==
    [at : {"resolve", "check", "inspect", "apply", "commit", "credit",
           "revocation", "membership"},
     asked : States \cup {None}, to : States, from : States \cup {None},
     expected : SUBSET Revisions, revision : Revisions]

(* Journal rows: session_started, state_transition_allowed (with the revision
   the engine answered) and convergence_recorded (with the step count). *)
Rows ==
    [kind : {"started", "transition", "convergence"}, revision : Revisions, number : Nat]

VARIABLES
    log,       \* the engine's applied steps, per workflow
    issued,    \* the membership authority's _grants
    revoked,   \* its _revocations
    expired,   \* grants past expires_at
    profile,   \* the revocation authority's word on the adopted profile
    pinned,    \* the membership each bundle pins
    up,        \* agents with a running session
    view,      \* statework_states, with the revision it was true at
    count,     \* workflow_steps_since_goal_progress of the retry controller
    call,      \* the call a session is in
    rows,      \* the session's SQLite journal
    faults,    \* bound
    history    \* what the properties speak about

vars == <<log, issued, revoked, expired, profile, pinned, up, view, count, call, rows,
          faults, history>>
authorities == <<log, issued, revoked, expired, profile>>
session == <<up, view, count, call>>

NoCall == [at |-> "idle"]
Workflow(a) == IF pinned[a] = None THEN a ELSE Shared
Revision(w) == Len(log[w])
State(w) == IF log[w] = <<>> THEN Start0 ELSE log[w][Revision(w)].to

TypeOK ==
    /\ log \in [Workflows -> Seq(Applied)]
    /\ \A w \in Workflows : Revision(w) \in Revisions
    /\ {issued, revoked, expired} \subseteq SUBSET Grants
    /\ revoked \subseteq issued
    /\ profile \in {"current", "deferred", "immediate"}
    /\ pinned \in Bundles
    /\ up \in SUBSET Agents
    /\ view \in [Agents -> [state : States, revision : Revisions]]
    /\ count \in [Agents -> Nat]
    /\ call \in [Agents -> Calls \cup {NoCall}]
    /\ rows \in [Agents -> Seq(Rows)]
    /\ faults \in 0..MaxFaults
    /\ history \in [lost : [Agents -> SUBSET Revisions], uncounted : [Agents -> Nat],
                    lateSteps : [Agents -> Nat], lateActions : [Agents -> Nat]]

NoView == [state |-> Start0, revision |-> 0]

Init ==
    /\ log = [w \in Workflows |-> <<>>]
    /\ issued = {} /\ revoked = {} /\ expired = {}
    /\ profile = "current"
    /\ pinned \in Bundles
    /\ up = {}
    /\ view = [a \in Agents |-> NoView]
    /\ count = [a \in Agents |-> 0]
    /\ call = [a \in Agents |-> NoCall]
    /\ rows = [a \in Agents |-> <<>>]
    /\ faults = 0
    /\ history = [lost |-> [a \in Agents |-> {}], uncounted |-> [a \in Agents |-> 0],
                  lateSteps |-> [a \in Agents |-> 0], lateActions |-> [a \in Agents |-> 0]]
-----------------------------------------------------------------------------
(* The host and its membership and revocation authorities. *)

(* issue: the identifier is a digest of the content, so issuing the same grant
   again does not take its revocation back. *)
Issue(g) ==
    /\ g \notin issued
    /\ issued' = issued \cup {g}
    /\ UNCHANGED <<log, revoked, expired, profile, pinned, session, rows, faults, history>>

Revoke(g) ==
    /\ g \in issued \ revoked
    /\ revoked' = revoked \cup {g}
    /\ UNCHANGED <<log, issued, expired, profile, pinned, session, rows, faults, history>>

Expire(g) ==
    /\ g \notin expired
    /\ expired' = expired \cup {g}
    /\ UNCHANGED <<log, issued, revoked, profile, pinned, session, rows, faults, history>>

RevokeProfile(mode) ==
    /\ <<profile, mode>> \in {<<"current", "deferred">>, <<"current", "immediate">>,
                              <<"deferred", "immediate">>}
    /\ profile' = mode
    /\ UNCHANGED <<log, issued, revoked, expired, pinned, session, rows, faults, history>>

(* Fault: the revocations are not consulted. *)
FaultyValid(g, a) ==
    /\ g \in issued \ expired
    /\ Members[g] = a
    /\ g \in Transitional
(* validate, for the operation "transition".  The bundle pins the grant as it was
   issued, so its signature holds. *)
Valid(g, a) ==
    /\ g \in issued \ (revoked \cup expired)
    /\ Members[g] = a
    /\ g \in Transitional

(* _membership_current: a session without a membership has a private workflow. *)
MembershipCurrent(a) == pinned[a] = None \/ Valid(pinned[a], a)

(* _revocation_current: a deferred revocation leaves the running task alone. *)
RevocationCurrent(a) == a \in Adopters => profile # "immediate"
-----------------------------------------------------------------------------
(* Start and resume. *)

Current(a) == [state |-> State(Workflow(a)), revision |-> Revision(Workflow(a))]

Transitions(rs) == {k \in 1..Len(rs) : rs[k].kind = "transition"}
Counts(rs) == {k \in 1..Len(rs) : rs[k].kind = "convergence"}
Last(S) == CHOOSE k \in S : \A j \in S : j <= k

(* Fault: the first transition of the journal is taken for the last. *)
FaultyReplayedView(a) ==
    IF Transitions(rows[a]) = {} THEN Current(a)
    ELSE LET r == rows[a][CHOOSE k \in Transitions(rows[a]) :
                            \A j \in Transitions(rows[a]) : k <= j].revision
         IN [state |-> log[Workflow(a)][r].to, revision |-> r]
(* The authority is inspected when it is bound; the replay then writes the state
   of the session's own last transition over the answer. *)
ReplayedView(a) ==
    IF Transitions(rows[a]) = {} THEN Current(a)
    ELSE LET r == rows[a][Last(Transitions(rows[a]))].revision
         IN [state |-> log[Workflow(a)][r].to, revision |-> r]

(* Each transition row counts one step, each convergence row replaces the count. *)
ReplayedCount(a) ==
    LET base == IF Counts(rows[a]) = {} THEN 0 ELSE Last(Counts(rows[a]))
        known == IF base = 0 THEN 0 ELSE rows[a][base].number
    IN known + Cardinality({k \in Transitions(rows[a]) : k > base})

Begin(a, v, n) ==
    /\ a \notin up
    /\ MembershipCurrent(a)
    /\ up' = up \cup {a}
    /\ view' = [view EXCEPT ![a] = v]
    /\ count' = [count EXCEPT ![a] = n]
    /\ history' = [history EXCEPT !.lateSteps[a] = 0, !.lateActions[a] = 0]
    /\ UNCHANGED <<authorities, pinned, call, faults>>

Row(kind, r, n) == [kind |-> kind, revision |-> r, number |-> n]
StartTask(a) ==
    /\ rows[a] = <<>>
    /\ Begin(a, Current(a), 0)
    /\ rows' = [rows EXCEPT ![a] = <<Row("started", 0, 0)>>]

ResumeTask(a) ==
    /\ rows[a] # <<>>
    /\ Begin(a, ReplayedView(a), ReplayedCount(a))
    /\ UNCHANGED rows
-----------------------------------------------------------------------------
(* Workflow steps. *)

Goto(a, c) ==
    /\ call' = [call EXCEPT ![a] = c]
    /\ UNCHANGED <<issued, revoked, expired, profile, pinned, up>>

(* Fault: the inspected revision is not handed on. *)
FaultyExpected(a) == {}
Expected(a) == {Revision(Workflow(a))}

(* record_state_transition up to its inspection: an asserted origin that differs
   from the inspected state ends the call, so only the others are taken. *)
RequestTransition(a, asserted, to) ==
    /\ a \in up /\ call[a] = NoCall
    /\ Goto(a, [at |-> "resolve", asked |-> IF asserted THEN State(Workflow(a)) ELSE None,
                to |-> to, from |-> None, expected |-> Expected(a), revision |-> 0])
    /\ UNCHANGED <<log, view, count, rows, faults, history>>

(* resolve_legacy_step answers for the state the engine is in now, and raises
   when no step leads from it to the destination. *)
ResolveLegacyStep(a) ==
    /\ call[a].at = "resolve"
    /\ State(Workflow(a)) # call[a].to
    /\ Goto(a, [call[a] EXCEPT !.at = "check", !.from = State(Workflow(a))])
    /\ UNCHANGED <<log, view, count, rows, faults, history>>

(* record_workflow_step called by the host itself, with the revision it last saw
   or with none. *)
RequestStep(a, s, expected) ==
    /\ a \in up /\ call[a] = NoCall
    /\ expected \subseteq {view[a].revision}
    /\ Goto(a, [at |-> "check", asked |-> None, to |-> s.to, from |-> s.from,
                expected |-> expected, revision |-> 0])
    /\ UNCHANGED <<log, view, count, rows, faults, history>>

CheckMembership(a) ==
    /\ call[a].at = "check"
    /\ Goto(a, IF MembershipCurrent(a) THEN [call[a] EXCEPT !.at = "inspect"] ELSE NoCall)
    /\ UNCHANGED <<log, view, count, rows, faults, history>>

InspectWorkflow(a) ==
    LET current == Revision(Workflow(a)) IN
    /\ call[a].at = "inspect"
    /\ Goto(a, IF call[a].expected \subseteq {current}
               THEN [call[a] EXCEPT !.at = "apply", !.revision = current]
               ELSE NoCall)
    /\ UNCHANGED <<log, view, count, rows, faults, history>>

(* apply_workflow_step of the engine: the revision is compared and swapped. *)
ApplyStep(a) ==
    LET w == Workflow(a) c == call[a] IN
    /\ c.at = "apply"
    /\ Revision(w) < MaxRevision
    /\ c.revision = Revision(w) /\ c.from = State(w)
    /\ log' = [log EXCEPT ![w] = Append(@, [agent |-> a, asked |-> c.asked,
                                            from |-> c.from, to |-> c.to])]
    /\ Goto(a, [c EXCEPT !.at = "commit", !.revision = c.revision + 1])
    /\ history' = IF pinned[a] \in revoked \cup expired
                  THEN [history EXCEPT !.lateSteps[a] = @ + 1] ELSE history
    /\ UNCHANGED <<view, count, rows, faults>>

(* An authority that refuses, is out of reach or raises ends the call. *)
Refused(a) ==
    /\ call[a].at \in {"resolve", "inspect", "apply", "revocation"}
    /\ Goto(a, NoCall)
    /\ UNCHANGED <<log, view, count, rows, faults, history>>

(* Fault: the row carries the revision that was inspected. *)
FaultyTransitionRow(c) == Row("transition", c.revision - 1, 0)
TransitionRow(c) == Row("transition", c.revision, 0)
Seen(c) == [state |-> c.to, revision |-> c.revision]

(* Memory first, then the row; the engine has the step already. *)
CommitStep(a) ==
    /\ call[a].at = "commit"
    /\ view' = [view EXCEPT ![a] = Seen(call[a])]
    /\ rows' = [rows EXCEPT ![a] = Append(@, TransitionRow(call[a]))]
    /\ Goto(a, [call[a] EXCEPT !.at = "credit"])
    /\ UNCHANGED <<log, count, faults, history>>

(* _journal raises, before its SQLite commit or (kept) in the projection after. *)
CommitStepFails(a, kept) ==
    /\ call[a].at = "commit"
    /\ faults < MaxFaults /\ faults' = faults + 1
    /\ view' = [view EXCEPT ![a] = Seen(call[a])]
    /\ rows' = IF kept THEN [rows EXCEPT ![a] = Append(@, TransitionRow(call[a]))] ELSE rows
    /\ history' = IF kept THEN [history EXCEPT !.uncounted[a] = @ + 1]
                  ELSE [history EXCEPT !.lost[a] = @ \cup {call[a].revision}]
    /\ Goto(a, NoCall)
    /\ UNCHANGED <<log, count>>

CountRow(n) == Row("convergence", 0, n)

(* record_progress, then the convergence row. *)
CreditStep(a) ==
    /\ call[a].at = "credit"
    /\ count' = [count EXCEPT ![a] = @ + 1]
    /\ rows' = [rows EXCEPT ![a] = Append(@, CountRow(count[a] + 1))]
    /\ Goto(a, NoCall)
    /\ UNCHANGED <<log, view, faults, history>>

CreditStepFails(a) ==
    /\ call[a].at = "credit"
    /\ faults < MaxFaults /\ faults' = faults + 1
    /\ count' = [count EXCEPT ![a] = @ + 1]
    /\ Goto(a, NoCall)
    /\ UNCHANGED <<log, view, rows, history>>
-----------------------------------------------------------------------------
(* The authority part of prepare_action: state, revocation, membership. *)

AuthoritativeStateReady(a) ==
    /\ a \in up /\ call[a] = NoCall
    /\ view' = [view EXCEPT ![a] = Current(a)]
    /\ Goto(a, [at |-> "revocation", asked |-> None, to |-> Start0, from |-> None,
                expected |-> {}, revision |-> 0])
    /\ UNCHANGED <<log, count, rows, faults, history>>

CheckRevocation(a) ==
    /\ call[a].at = "revocation"
    /\ Goto(a, IF RevocationCurrent(a) THEN [call[a] EXCEPT !.at = "membership"] ELSE NoCall)
    /\ UNCHANGED <<log, view, count, rows, faults, history>>

(* With a current membership the authorities let the action pass. *)
GateMembership(a) ==
    /\ call[a].at = "membership"
    /\ Goto(a, NoCall)
    /\ history' = IF MembershipCurrent(a) /\ a \in Adopters /\ profile = "immediate"
                  THEN [history EXCEPT !.lateActions[a] = @ + 1] ELSE history
    /\ UNCHANGED <<log, view, count, rows, faults>>

(* The host process dies: sessions, calls, grants and revocations are gone. *)
HostCrash ==
    /\ faults < MaxFaults /\ faults' = faults + 1
    /\ up # {}
    /\ up' = {}
    /\ issued' = {} /\ revoked' = {}
    /\ view' = [a \in Agents |-> NoView]
    /\ count' = [a \in Agents |-> 0]
    /\ call' = [a \in Agents |-> NoCall]
    /\ history' = [history EXCEPT !.lost = [a \in Agents |->
           IF call[a].at = "commit" THEN @[a] \cup {call[a].revision} ELSE @[a]],
           !.lateSteps = [a \in Agents |-> 0], !.lateActions = [a \in Agents |-> 0]]
    /\ UNCHANGED <<log, expired, profile, pinned, rows>>

Next ==
    \/ \E g \in Grants : Issue(g) \/ Revoke(g) \/ Expire(g)
    \/ \E mode \in {"deferred", "immediate"} : RevokeProfile(mode)
    \/ \E a \in Agents :
          \/ StartTask(a)
          \/ ResumeTask(a)
          \/ \E asserted \in BOOLEAN, to \in States : RequestTransition(a, asserted, to)
          \/ ResolveLegacyStep(a)
          \/ \E s \in Steps, e \in SUBSET {view[a].revision} : RequestStep(a, s, e)
          \/ CheckMembership(a)
          \/ InspectWorkflow(a)
          \/ ApplyStep(a)
          \/ Refused(a)
          \/ CommitStep(a)
          \/ \E kept \in BOOLEAN : CommitStepFails(a, kept)
          \/ CreditStep(a)
          \/ CreditStepFails(a)
          \/ AuthoritativeStateReady(a)
          \/ CheckRevocation(a)
          \/ GateMembership(a)
    \/ HostCrash

Spec == Init /\ [][Next]_vars
-----------------------------------------------------------------------------
OwnSteps(a) ==
    {k \in 1..Revision(Workflow(a)) : log[Workflow(a)][k].agent = a}
RowSteps(a) == {rows[a][k].revision : k \in Transitions(rows[a])}
InCommit(a) == IF call[a].at = "commit" THEN {call[a].revision} ELSE {}

(* A transition whose caller asserted the state it starts from is applied to the
   workflow in that state, whatever other sessions did between the inspection,
   the resolution of the step and its application (record_state_transition). *)
AppliedFromAssertedOrigin ==
    \A w \in Workflows : \A k \in 1..Revision(w) :
        log[w][k].asked \in {None, log[w][k].from}

(* The journal and the engine agree: a session's transition rows are its own
   applied steps, in their order, and a step without a row is being committed
   or was lost to a crash or a failed write (record_workflow_step). *)
RowsAreOwnSteps ==
    \A a \in Agents :
        /\ RowSteps(a) = OwnSteps(a) \ (history.lost[a] \cup InCommit(a))
        /\ \A j, k \in Transitions(rows[a]) :
              j < k => rows[a][j].revision < rows[a][k].revision

(* After a resume a session may see an old state, but never one from before its
   own last durable step (_restore_session writes over the inspected state). *)
ViewIncludesOwnSteps ==
    \A a \in up : \A k \in OwnSteps(a) \ (history.lost[a] \cup InCommit(a)) :
        view[a].revision >= k

(* The retry controller counts each durable step once: not again when the
   journal is replayed, not lost in a crash between the transition row and the
   convergence row; only a step whose projection failed may go uncounted. *)
StepsCountedOnce ==
    \A a \in up : call[a].at # "credit" =>
        LET n == Cardinality(RowSteps(a))
        IN n - history.uncounted[a] <= count[a] /\ count[a] <= n

(* The journal's rows and the retry counter are those of the applied steps
   (record_workflow_step, record_state_transition). *)
StepsOnRecord == TypeOK /\ RowsAreOwnSteps /\ StepsCountedOnce

(* docs/integrations.md: "`immediate` revocation through the host revocation
   authority blocks affected active actions".  After a grant stops being valid,
   or the profile is revoked immediately, at most the one call already past its
   check goes through (_membership_current, _revocation_current). *)
RevocationBites ==
    \A a \in Agents : history.lateSteps[a] <= 1 /\ history.lateActions[a] <= 1
=============================================================================
