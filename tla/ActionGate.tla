------------------------------- MODULE ActionGate -------------------------------
(***************************************************************************)
(* The action gate of a standalone session: an action is prepared          *)
(* (authorized, its confirmation grant consumed, its objective binding     *)
(* taken), executed by the host, and its result recorded under the request *)
(* that authorized it, which moves the criterion ledger: the artifact      *)
(* revision, the verification budget and the verification obligations.     *)
(*                                                                         *)
(* `session' is memory and `journal' what _restore_session rebuilds: the   *)
(* consumed grants and the last snapshot of the criterion ledger.  Pending *)
(* requests and objective bindings are not restored (clear_pending).       *)
(*                                                                         *)
(* An exact action request (its digest) is a member of Actions.  Whatever  *)
(* denies an action without changing anything here is the host's or        *)
(* another module's to decide and may deny at any time: membership and     *)
(* revocation, structural handlers, tool hooks, descriptors, open          *)
(* contradictions, the progress redirect.                                  *)
(***************************************************************************)
EXTENDS Naturals, Sequences, FiniteSets

CONSTANTS
    Actions,           \* action requests, by digest
    Destructive,       \* the ones whose descriptor is destructive
    Verification,      \* the ones whose descriptor says required_verification
    Criteria,          \* criteria of the goal contract
    Scopes,            \* the tuples of criterion ids that actions are about
    Affected,          \* affected_criterion_ids of each action's descriptor
    GrantFor,          \* confirmation_grants: the action of each, in order
    HostPins,          \* whether the host pins the other bindings as well
    MaxVerifications,  \* max_verification_actions_without_artifact_change
    MaxRepeats,        \* max_repeated_equivalent_verifications
    MaxBindings,       \* 512: max_bindings
    MaxPending,        \* requests the host leaves outstanding
    MaxRequests,       \* bound: requests authorized
    MaxIssues,         \* bound: bindings issued
    MaxRevision,       \* bound: artifact changes seen by the ledger
    MaxFaults          \* bound: crashes and failed journal writes

ASSUME GateAssumption ==
    /\ Destructive \subseteq Actions
    /\ Verification \subseteq Actions
    /\ Scopes \subseteq Seq(Criteria)
    /\ Affected \in [Actions -> Scopes]
    /\ GrantFor \in Seq(Actions)
    /\ HostPins \subseteq BOOLEAN
    /\ {MaxVerifications, MaxBindings, MaxPending} \subseteq Nat \ {0}
    /\ {MaxRepeats, MaxRequests, MaxIssues, MaxRevision, MaxFaults} \subseteq Nat

Grants == 1..Len(GrantFor)

(* pinned is the artifact revision a binding holds for, or {} if it names
   none.  place is its position in the dict.  issue is a history field, the
   number of the call that issued the binding; no guard reads it. *)
Relations == {"advances_primary_goal", "required_verification"}
Bindings == [action : Actions, relation : Relations, criteria : Scopes,
             pinned : SUBSET (0..MaxRevision),
             place : 1..MaxIssues, issue : 1..MaxIssues]
SameDigest(b, c) ==
    /\ b.action = c.action
    /\ b.relation = c.relation
    /\ b.criteria = c.criteria
    /\ b.pinned = c.pinned

Requests == [id : 1..MaxRequests, action : Actions, relation : Relations,
             criteria : Scopes]
Named(scope) == {scope[k] : k \in DOMAIN scope}

(* The criterion ledger (TaskEvidenceState), as far as the gate and the
   completion readiness read it. *)
Task == [revision : 0..MaxRevision,
         counts : [Scopes -> Nat],
         repeats : [Actions \X Scopes -> Nat],
         status : [Criteria -> {"active", "partially_observed", "satisfied"}],
         obligation : [Criteria -> {"none", "PENDING", "SATISFIED"}]]
NewTask == [revision |-> 0,
            counts |-> [s \in Scopes |-> 0],
            repeats |-> [k \in Actions \X Scopes |-> 0],
            status |-> [c \in Criteria |-> "active"],
            obligation |-> [c \in Criteria |-> "none"]]

Session == [consumed : SUBSET Grants, bindings : SUBSET Bindings,
            pending : SUBSET Requests, task : Task]
Blank == [consumed |-> {}, bindings |-> {}, pending |-> {}, task |-> NewTask]

VARIABLES
    up,        \* the process is running
    session,   \* consumed_grant_ids, objective_bindings, pending requests, ledger
    journal,   \* the consumed grants and the ledger the committed rows hold
    expired,   \* grants past their expires_at
    drawn,     \* requests authorized so far
    faults,    \* crashes and failed writes so far
    charged,   \* history: the grant each destructive authorization was shown
    issued,    \* history: bindings issued so far
    used,      \* history: the issue of the binding behind each authorization
    verified   \* history: verifications executed since an artifact change

history == <<charged, issued, used, verified>>
vars == <<up, session, journal, expired, drawn, faults, history>>

WellTyped ==
    /\ up \in BOOLEAN
    /\ session \in Session
    /\ journal \in [consumed : SUBSET Grants, task : Task]
    /\ expired \in SUBSET Grants
    /\ drawn \in 0..MaxRequests
    /\ faults \in 0..MaxFaults
    /\ charged \in SUBSET [request : 1..MaxRequests, grant : Grants]
    /\ issued \in 0..MaxIssues
    /\ used \in SUBSET [request : 1..MaxRequests, issue : 1..MaxIssues]
    /\ verified \in SUBSET Requests

(* The state is well formed, and the session holds no more bindings than
   add_objective_binding allows. *)
TypeOK ==
    /\ WellTyped
    /\ Cardinality(session.bindings) <= MaxBindings

Init ==
    /\ up = TRUE
    /\ session = Blank
    /\ journal = [consumed |-> {}, task |-> NewTask]
    /\ expired = {}
    /\ drawn = 0
    /\ faults = 0
    /\ charged = {}
    /\ issued = 0
    /\ used = {}
    /\ verified = {}

Fails == /\ faults < MaxFaults
         /\ faults' = faults + 1
Die == /\ up' = FALSE
       /\ session' = Blank
-----------------------------------------------------------------------------
(* bind_action_objective: a verification binding is pinned to the artifact
   revision of the moment, another as the host likes. *)
Binding(a, relation, scope, pin) ==
    [action |-> a, relation |-> relation, criteria |-> scope,
     pinned |-> IF pin \/ relation = "required_verification"
                THEN {session.task.revision} ELSE {},
     place |-> issued + 1, issue |-> issued + 1]

(* add_objective_binding: an equal binding keeps its place, and the oldest goes
   when there are too many. *)
Added(bindings, b) ==
    LET same == {c \in bindings : SameDigest(c, b)}
        all == (bindings \ same) \cup
           {[b EXCEPT !.place = c.place] : c \in IF same = {} THEN {b} ELSE same}
    IN IF Cardinality(all) > MaxBindings
       THEN {c \in all : \E d \in all : d.place < c.place}
       ELSE all

BindObjective(a, relation, scope, pin) ==
    /\ up
    /\ issued < MaxIssues
    /\ scope # <<>>
    /\ issued' = issued + 1
    /\ session' = [session EXCEPT
                     !.bindings = Added(@, Binding(a, relation, scope, pin))]
    /\ UNCHANGED <<up, journal, expired, drawn, faults, charged, used, verified>>

(* take_objective_binding *)
Taken(bindings, b) == bindings \ {b}

(* What stands in for a binding when none is offered: host_relation and
   criterion_ids as the action's descriptor declares them. *)
Declared(a) ==
    [action |-> a,
     relation |-> IF a \in Verification
                  THEN "required_verification" ELSE "advances_primary_goal",
     criteria |-> Affected[a], pinned |-> {}, place |-> 0, issue |-> 0]

(* What an action can be prepared with: a binding of this session for the
   artifact as it is, or none. *)
Offered == {Declared(a) : a \in Actions} \cup
           {b \in session.bindings : b.pinned \subseteq {session.task.revision}}

Request(b) == [id |-> drawn + 1, action |-> b.action, relation |-> b.relation,
               criteria |-> b.criteria]

(* Fault: the limit on verifications is read as the last count allowed. *)
FaultyLimitExceeded(r) ==
    /\ r.relation = "required_verification"
    /\ \/ session.task.counts[r.criteria] > MaxVerifications
       \/ session.task.repeats[<<r.action, r.criteria>>] > MaxRepeats
(* verification_limit_exceeded *)
LimitExceeded(r) ==
    /\ r.relation = "required_verification"
    /\ \/ session.task.counts[r.criteria] >= MaxVerifications
       \/ session.task.repeats[<<r.action, r.criteria>>] > MaxRepeats

(* confirmation_for: the first grant for the action that is neither consumed
   nor past its time; {} for None. *)
Confirmation(a, gone) ==
    LET usable == {g \in Grants \ (session.consumed \cup gone) : GrantFor[g] = a}
    IN {g \in usable : \A h \in usable : g <= h}

(* What the gate of _prepare_action requires to allow an action. *)
Allows(b) ==
    /\ b.action \in Destructive => Confirmation(b.action, expired) # {}
    /\ ~LimitExceeded(Request(b))

(* _prepare_action allowing an action.  The grant is looked up twice, to decide
   and then to consume it; `late' expire in between. *)
PrepareAction(b, late) ==
    LET shown == Confirmation(b.action, expired)
        spent == Confirmation(b.action, expired \cup late)
    IN /\ up
       /\ drawn < MaxRequests
       /\ Cardinality(session.pending) < MaxPending
       /\ Allows(b)
       /\ drawn' = drawn + 1
       /\ session' = [session EXCEPT !.pending = @ \cup {Request(b)},
                                     !.bindings = Taken(@, b),
                                     !.consumed = @ \cup spent]
       /\ journal' = [journal EXCEPT !.consumed = @ \cup spent]
       /\ expired' = expired \cup late
       /\ charged' = charged \cup
              {[request |-> drawn + 1, grant |-> g] :
                  g \in IF b.action \in Destructive THEN shown ELSE {}}
       /\ used' = used \cup {[request |-> drawn + 1, issue |-> c.issue] :
                                c \in session.bindings \cap {b}}
       /\ UNCHANGED <<up, faults, issued, verified>>

(* It dies after the grant's row, and the caller never learns of the request. *)
PrepareActionInterrupted(b) ==
    /\ up
    /\ Fails
    /\ Allows(b)
    /\ Confirmation(b.action, expired) # {}
    /\ journal' = [journal EXCEPT !.consumed =
                      @ \cup Confirmation(b.action, expired)]
    /\ Die
    /\ UNCHANGED <<expired, drawn, history>>

(* confirmation_consumed raises, its row committed or not.  The request stays
   pending under an identifier nobody was given. *)
PrepareActionFails(b, committed) ==
    /\ up
    /\ Fails
    /\ Allows(b)
    /\ Confirmation(b.action, expired) # {}
    /\ session' = [session EXCEPT !.bindings = Taken(@, b),
                      !.consumed = @ \cup Confirmation(b.action, expired)]
    /\ journal' = IF committed THEN [journal EXCEPT !.consumed = session'.consumed]
                  ELSE journal
    /\ UNCHANGED <<up, expired, drawn, history>>

(* The action is refused, or an earlier row raises, after its binding was taken;
   or the binding was for another action or artifact revision. *)
PrepareRefused(b) ==
    /\ up
    /\ b \in session.bindings
    /\ session' = [session EXCEPT !.bindings = Taken(@, b)]
    /\ UNCHANGED <<up, journal, expired, drawn, faults, history>>

GrantExpires(g) ==
    /\ g \notin expired
    /\ expired' = expired \cup {g}
    /\ UNCHANGED <<up, session, journal, drawn, faults, history>>
-----------------------------------------------------------------------------
(* Fault: a change of the artifact leaves the criteria as they were. *)
FaultyChanged(task, scope) ==
    [task EXCEPT !.revision = @ + 1, !.counts = NewTask.counts,
                 !.repeats = NewTask.repeats,
                 !.obligation = [c \in Criteria |->
                                    IF c \in Named(scope) THEN "PENDING" ELSE @[c]]]
(* commit_candidate of a fact that changed the artifact. *)
Changed(task, scope) ==
    [task EXCEPT !.revision = @ + 1, !.counts = NewTask.counts,
                 !.repeats = NewTask.repeats,
                 !.obligation = [c \in Criteria |->
                                    IF c \in Named(scope) THEN "PENDING" ELSE @[c]],
                 !.status = [c \in Criteria |->
                                    IF c \in Named(scope) THEN "active" ELSE @[c]]]

(* commit_candidate of an action that did not: a verification counts for its
   criteria and for its own fingerprint. *)
Committed(task, r, changed) ==
    IF changed THEN Changed(task, r.criteria)
    ELSE IF r.relation = "required_verification"
    THEN [task EXCEPT !.counts[r.criteria] = @ + 1,
                      !.repeats[<<r.action, r.criteria>>] = @ + 1]
    ELSE task

Executed(r, changed) ==
    IF changed THEN {}
    ELSE IF r.relation = "required_verification" THEN verified \cup {r} ELSE verified

(* _record_tool_result for a pending request. *)
RecordToolResult(r, changed) ==
    /\ up
    /\ r \in session.pending
    /\ changed => session.task.revision < MaxRevision
    /\ session' = [session EXCEPT !.task = Committed(@, r, changed),
                                  !.pending = @ \ {r}]
    /\ journal' = [journal EXCEPT !.task = Committed(session.task, r, changed)]
    /\ verified' = Executed(r, changed)
    /\ UNCHANGED <<up, expired, drawn, faults, charged, issued, used>>

(* It dies after the evidence row and before the ledger's snapshot. *)
RecordToolResultInterrupted(r, changed) ==
    /\ up
    /\ r \in session.pending
    /\ Fails
    /\ Die
    /\ verified' = Executed(r, changed)
    /\ UNCHANGED <<journal, expired, drawn, charged, issued, used>>

(* A row of it raises once the ledger has moved: the request stays pending and
   its result is reported again. *)
RecordToolResultFails(r, changed, committed) ==
    /\ up
    /\ r \in session.pending
    /\ changed => session.task.revision < MaxRevision
    /\ Fails
    /\ session' = [session EXCEPT !.task = Committed(@, r, changed)]
    /\ journal' = IF committed THEN [journal EXCEPT !.task = session'.task]
                  ELSE journal
    /\ verified' = Executed(r, changed)
    /\ UNCHANGED <<up, expired, drawn, charged, issued, used>>

(* A result without an action_request_id that changed the artifact. *)
RecordUncorrelatedChange ==
    /\ up
    /\ session.task.revision < MaxRevision
    /\ session' = [session EXCEPT !.task = Changed(@, <<>>)]
    /\ journal' = [journal EXCEPT !.task = Changed(session.task, <<>>)]
    /\ verified' = {}
    /\ UNCHANGED <<up, expired, drawn, faults, charged, issued, used>>

(* record_goal_progress of the ledger. *)
Progress(task, c) == [task EXCEPT !.status[c] = "partially_observed"]

(* mark_criterion_satisfied *)
Satisfy(task, c) ==
    [task EXCEPT !.status[c] = "satisfied",
                 !.obligation[c] = IF @ = "PENDING" THEN "SATISFIED" ELSE @]

(* _record_goal_progress and _record_criterion_verified.  Both take current
   evidence of the task's subject, which the host can always attest. *)
JudgeCriterion(task) ==
    /\ up
    /\ session' = [session EXCEPT !.task = task]
    /\ journal' = [journal EXCEPT !.task = task]
    /\ UNCHANGED <<up, expired, drawn, faults, history>>
RecordGoalProgress(c) == JudgeCriterion(Progress(session.task, c))
RecordCriterionVerified(c) == JudgeCriterion(Satisfy(session.task, c))

(* The snapshot's row raises and is not committed. *)
JudgeCriterionFails(task) ==
    /\ up
    /\ Fails
    /\ session' = [session EXCEPT !.task = task]
    /\ UNCHANGED <<up, journal, expired, drawn, history>>

Crash ==
    /\ up
    /\ Fails
    /\ Die
    /\ UNCHANGED <<journal, expired, drawn, history>>

(* Fault: the consumed grants are left to the host's memory. *)
FaultyRestored == [Blank EXCEPT !.task = journal.task]
(* _restore_session *)
Restored == [Blank EXCEPT !.consumed = journal.consumed, !.task = journal.task]

Resume ==
    /\ ~up
    /\ up' = TRUE
    /\ session' = Restored
    /\ UNCHANGED <<journal, expired, drawn, faults, history>>

Next ==
    \/ \E a \in Actions, relation \in Relations, scope \in Scopes, pin \in HostPins :
          BindObjective(a, relation, scope, pin)
    \/ \E b \in Offered :
          \/ \E late \in SUBSET (Grants \ expired) : PrepareAction(b, late)
          \/ PrepareActionInterrupted(b)
          \/ \E committed \in BOOLEAN : PrepareActionFails(b, committed)
    \/ \E b \in session.bindings : PrepareRefused(b)
    \/ \E g \in Grants : GrantExpires(g)
    \/ \E r \in session.pending, changed \in BOOLEAN :
          \/ RecordToolResult(r, changed)
          \/ RecordToolResultInterrupted(r, changed)
          \/ \E committed \in BOOLEAN : RecordToolResultFails(r, changed, committed)
    \/ RecordUncorrelatedChange
    \/ \E c \in Criteria : 
          \/ RecordGoalProgress(c)
          \/ RecordCriterionVerified(c)
          \/ JudgeCriterionFails(Progress(session.task, c))
          \/ JudgeCriterionFails(Satisfy(session.task, c))
    \/ Crash
    \/ Resume

Spec == Init /\ [][Next]_vars
-----------------------------------------------------------------------------
(* Two destructive actions are never allowed on one confirmation grant: not
   after a crash and a resume, nor when grants expire between the gate's
   decision and the grant's consumption (_prepare_action, confirmation_for). *)
GrantsNotReused ==
    \A r, q \in charged : r.grant = q.grant => r = q

(* An issued objective binding authorizes at most one request, whether it is
   offered again, issued again, evicted or lost in a crash
   (take_objective_binding, add_objective_binding, clear_pending). *)
BindingsNotReused ==
    \A r, q \in used : r.issue = q.issue => r = q

(* Between two changes of the artifact the host executes no more verifications
   of one tuple of criteria than the policy's limit, plus one for every further
   request it leaves outstanding and one for every crash that cuts a result
   short (verification_limit_exceeded, commit_candidate, _record_tool_result). *)
VerificationLimitHolds ==
    \A scope \in Scopes :
        Cardinality({r \in verified : r.criteria = scope})
            <= MaxVerifications + (MaxPending - 1) + faults

(* A criterion that counts as satisfied has no verification pending for the
   artifact as it is, in memory and after a resume (commit_candidate,
   mark_criterion_satisfied). *)
SatisfiedIsVerified ==
    \A c \in Criteria : \A task \in {session.task, journal.task} :
        task.status[c] = "satisfied" => task.obligation[c] # "PENDING"

(* No authorization, grant or binding, is used twice (_prepare_action,
   confirmation_for, take_objective_binding). *)
AuthorizationsNotReused == GrantsNotReused /\ BindingsNotReused

(* Bindings and verifications stay within their limits
   (add_objective_binding, verification_limit_exceeded). *)
LimitsHold == TypeOK /\ VerificationLimitHolds
=============================================================================
