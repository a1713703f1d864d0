--------------------------- MODULE StandaloneBehavior ---------------------------
(***************************************************************************)
(* The behavior a standalone session falls back on: the attention window   *)
(* over the unfinished criteria, the progress redirect the action gate     *)
(* answers once a budget without goal progress is used up, the policy that *)
(* picks a mode from the host's facts, and the child policy epochs of a    *)
(* host that replans the route.                                            *)
(*                                                                         *)
(* The criterion ledger, the attention and the retry counters are three    *)
(* snapshots with journal rows of their own.  An operation that writes     *)
(* several rows may die between two of them (Commit), so that a resumed    *)
(* session can hold the attention of one moment and the ledger of an       *)
(* earlier one.  What else the gate asks of an action is in ActionGate,    *)
(* the retry counters of a cause are in RetryConvergence.                  *)
(***************************************************************************)
EXTENDS Naturals, FiniteSets

CONSTANTS
    Criteria,        \* criterion ids, numbers: ties are broken by id
    Actions,         \* action requests, by digest
    About,           \* criterion an action is about, 0 for none
    Relation,        \* goal relation of an action
    Routes,          \* legal routes the workflow owner may rank
    WindowSize,      \* 3: WINDOW_SIZE
    YieldThreshold,  \* 2: RETRY_YIELD_THRESHOLD
    MaxRedirects,    \* 2: max_redirects_per_criterion
    SupportLimit,    \* support_actions_before_goal_reanchor
    TotalLimit,      \* max_committed_actions_without_goal_progress
    EpochLimit,      \* max_recovery_epochs_without_goal_progress
    SameLimit,       \* max_same_approach_retries
    MaxPending,      \* bound: actions the host leaves outstanding
    MaxSequence,     \* bound: activity facts
    MaxRevision,     \* bound: logical revisions of the ledger
    MaxEpochs,       \* bound: child policy epochs
    MaxFaults        \* bound: crashes

Relations == {"advances_primary_goal", "removes_concrete_blocker",
              "required_verification", "diagnostic_support", "ambiguous"}

(* What the constants are. *)
BehaviorConstants ==
    /\ Criteria \subseteq Nat \ {0}
    /\ IsFiniteSet(Criteria)
    /\ About \in [Actions -> Criteria \cup {0}]
    /\ Relation \in [Actions -> Relations]
    /\ {WindowSize, YieldThreshold, MaxRedirects, SupportLimit, TotalLimit,
        EpochLimit, SameLimit} \subseteq Nat \ {0}
    /\ {MaxPending, MaxSequence, MaxRevision, MaxEpochs, MaxFaults} \subseteq Nat

Status == {"unmet", "active", "partially_observed", "satisfied"}
Ledger == [sequence : Nat, revision : Nat, status : [Criteria -> Status],
           due : SUBSET Criteria, blockers : BOOLEAN]
NewLedger == [sequence |-> 0, revision |-> 0,
              status |-> [c \in Criteria |-> "unmet"],
              due |-> {}, blockers |-> FALSE]

(* StandaloneAttentionState.  redirects counts under a criterion or under
   __task__, here 0; 0 is also no yield target, and last is <<>> before the
   first redirect.  The action counts and the redirect epoch are written and
   never read. *)
Keys == Criteria \cup {0}
Attention == [retry : [Criteria -> Nat], recent : [Criteria -> Nat],
              redirects : [Keys -> Nat],
              last : (Actions \X Keys) \cup {<<>>},
              yield : Keys, guidance : BOOLEAN, revision : Nat]
NewAttention == [retry |-> [c \in Criteria |-> 0],
                 recent |-> [c \in Criteria |-> 0],
                 redirects |-> [k \in Keys |-> 0],
                 last |-> <<>>, yield |-> 0, guidance |-> FALSE, revision |-> 0]

(* The RetryState of "primary-objective", as far as the policy reads it; same
   stops at SameLimit, the only value it is compared with. *)
Counters == [support : Nat, total : Nat, epochs : Nat, same : 0..SameLimit]
NewCounters == [support |-> 0, total |-> 0, epochs |-> 0, same |-> 0]

NoRecommendation == [legal |-> {}, workflow |-> 0, behavior |-> 0]

VARIABLES
    up,             \* the process is running
    ledger,         \* task_evidence
    attention,      \* standalone_attention_state
    counters,       \* retry state of the primary objective
    journal,        \* the three snapshots the committed rows replay to
    pending,        \* actions allowed and not yet recorded
    contradicted,   \* an operator contradiction is unresolved
    terminated,     \* termination_disposition is terminal
    workflow,       \* revision of the workflow at its owner
    offered,        \* the host's current route recommendation
    epochs,         \* child policy epochs created
    faults,         \* crashes so far
    refused,        \* history: redirects answered since the last reset
    waited          \* history: turns of others since a criterion had one

session == <<ledger, attention, counters>>
history == <<refused, waited>>
vars == <<up, session, journal, pending, contradicted, terminated, workflow,
          offered, epochs, faults, history>>

(* The state is well formed, and a redirect count stays within the limit of
   the criterion. *)
TypeOK ==
    /\ up \in BOOLEAN
    /\ ledger \in Ledger
    /\ attention \in Attention
    /\ counters \in Counters
    /\ journal \in [ledger : Ledger, attention : Attention, counters : Counters]
    /\ pending \in SUBSET Actions
    /\ contradicted \in BOOLEAN
    /\ terminated \in BOOLEAN
    /\ workflow \in Nat
    /\ offered.legal \in SUBSET Routes
    /\ epochs \in 0..MaxEpochs
    /\ faults \in 0..MaxFaults
    /\ refused \in [Keys -> Nat]
    /\ waited \in [Criteria -> Nat]
    /\ \A k \in Keys : attention.redirects[k] <= MaxRedirects

Init ==
    /\ up = TRUE
    /\ ledger = NewLedger
    /\ attention = NewAttention
    /\ counters = NewCounters
    /\ journal = [ledger |-> NewLedger, attention |-> NewAttention,
                  counters |-> NewCounters]
    /\ pending = {}
    /\ contradicted = FALSE
    /\ terminated = FALSE
    /\ workflow = 0
    /\ offered = NoRecommendation
    /\ epochs = 0
    /\ faults = 0
    /\ refused = [k \in Keys |-> 0]
    /\ waited = [c \in Criteria |-> 0]
-----------------------------------------------------------------------------
(* StandaloneAttentionPolicy.select: unfinished criteria, the ones that failed
   or were redirected too often last, then the least recently acted on. *)
Runnable(l) == {c \in Criteria : l.status[c] # "satisfied"}
Late(a, c) == a.retry[c] >= YieldThreshold \/ a.redirects[c] >= YieldThreshold
(* Fault: the window forgets when a criterion was acted on. *)
FaultyBefore(a, c, d) ==
    \/ ~Late(a, c) /\ Late(a, d)
    \/ /\ Late(a, c) = Late(a, d)
       /\ \/ a.retry[c] < a.retry[d]
          \/ a.retry[c] = a.retry[d] /\ c < d
Before(a, c, d) ==
    \/ ~Late(a, c) /\ Late(a, d)
    \/ /\ Late(a, c) = Late(a, d)
       /\ \/ a.recent[c] < a.recent[d]
          \/ /\ a.recent[c] = a.recent[d]
             /\ \/ a.retry[c] < a.retry[d]
                \/ a.retry[c] = a.retry[d] /\ c < d
Ahead(l, a, c) == {d \in Runnable(l) : Before(a, d, c)}
Window(l, a) ==
    {c \in Runnable(l) : Cardinality(Ahead(l, a, c)) < WindowSize}
First(S, a) == CHOOSE c \in S : \A d \in S \ {c} : Before(a, c, d)
Head(l, a) == IF Runnable(l) = {} THEN 0 ELSE First(Runnable(l), a)

(* _reset_progress_redirects *)
ResetRedirects(a) ==
    [a EXCEPT !.redirects = [k \in Keys |-> 0], !.last = <<>>,
              !.yield = 0, !.guidance = FALSE]

(* record_activity of a committed action: its criterion was acted on now, and
   a changed artifact forgives the redirects. *)
Acted(a, c, sequence, changed) ==
    LET touched == [a EXCEPT
            !.recent = [d \in Criteria |-> IF d = c THEN sequence ELSE a.recent[d]],
            !.revision = @ + 1]
    IN IF changed THEN ResetRedirects(touched) ELSE touched
(* record_activity of goal progress *)
Progressed(a, c) ==
    ResetRedirects([a EXCEPT !.retry[c] = 0, !.revision = @ + 1])
(* record_failed_approach *)
FailedApproach(a, c, sequence) ==
    [a EXCEPT !.retry[c] = @ + 1, !.recent[c] = sequence, !.revision = @ + 1]

(* A criterion has had its redirects. *)
Spent(a, key) == a.redirects[key] >= MaxRedirects
(* The criteria attention can yield to. *)
Others(l, a, key) == Window(l, a) \ {key}
(* record_progress_redirect of an action that focuses key: its answer and the
   attention it leaves. *)
Redirected(l, a, d, key) ==
    LET count == a.redirects[key] + 1
        noted == [a EXCEPT !.redirects[key] = count, !.last = <<d, key>>,
                           !.revision = @ + 1]
        others == Others(l, noted, key)
    IN CASE a.last = <<d, key>> ->
              [answer |-> "repeat", attention |-> a]
         [] a.last # <<d, key>> /\ Spent(a, key) ->
              [answer |-> "limit", attention |-> a]
         [] OTHER ->
       CASE count < MaxRedirects ->
              [answer |-> "redirect",
               attention |-> [noted EXCEPT !.guidance = TRUE]]
         [] count >= MaxRedirects /\ others # {} ->
              [answer |-> "yield",
               attention |-> [noted EXCEPT !.yield = First(others, noted),
                                           !.guidance = TRUE]]
         [] OTHER -> [answer |-> "limit", attention |-> noted]
-----------------------------------------------------------------------------
(* StandaloneBehaviorPolicy.decide.  boundary stands for the completion
   readiness that the ledger does not hold: boundary evidence and the
   workflows, both complete or not. *)
Redirecting(a) == \E k \in Keys : a.redirects[k] > 0
Overdue(n, limit) == n >= limit
Mode(l, a, n, boundary) ==
    CASE contradicted -> "REINSPECT"
      [] OTHER ->
    CASE Overdue(n.epochs, EpochLimit) ->
           IF Runnable(l) # {} THEN "REPLAN" ELSE "BLOCKED"
      [] ~Overdue(n.epochs, EpochLimit)
         /\ (Overdue(n.support, SupportLimit) \/ Overdue(n.total, TotalLimit)) ->
           IF a.guidance \/ ~Redirecting(a) THEN "REPLAN" ELSE "DELIVER"
      [] OTHER ->
    CASE Overdue(n.same, SameLimit) -> "RECOVER"
      [] ~Overdue(n.same, SameLimit) /\ l.blockers -> "DIAGNOSE"
      [] ~Overdue(n.same, SameLimit) /\ ~l.blockers /\ l.due # {} -> "VERIFY"
      [] OTHER ->
    IF Runnable(l) # {} THEN "DELIVER"
    ELSE IF boundary THEN "READY_TO_COMPLETE" ELSE "VERIFY"

(* logical_revision + attention.revision: what a recommendation is pinned to. *)
BehaviorRevision(l, a) == l.revision + a.revision
-----------------------------------------------------------------------------
(* The process dies and its memory with it: pending actions, the termination
   and the recommendation the host held are not restored. *)
Die ==
    /\ faults < MaxFaults
    /\ faults' = faults + 1
    /\ up' = FALSE
    /\ ledger' = NewLedger
    /\ attention' = NewAttention
    /\ counters' = NewCounters
    /\ pending' = {}
    /\ terminated' = FALSE
    /\ offered' = NoRecommendation
Crash ==
    /\ up
    /\ Die
    /\ UNCHANGED <<journal, contradicted, workflow, epochs, history>>

(* Memory becomes l, a and n, and their rows are committed in the given order.
   Either all are, or the process dies after the first k of them. *)
Commit(l, a, n, rows, left) ==
    /\ \E k \in 0..Cardinality(DOMAIN rows) :
        /\ LET saved(row) == \E i \in 1..k : rows[i] = row
           IN journal' =
                [ledger |-> IF saved("ledger") THEN l ELSE journal.ledger,
                 attention |-> IF saved("attention") THEN a ELSE journal.attention,
                 counters |-> IF saved("counters") THEN n ELSE journal.counters]
        /\ IF k = Cardinality(DOMAIN rows)
           THEN /\ ledger' = l
                /\ attention' = a
                /\ counters' = n
                /\ pending' = left
                /\ UNCHANGED <<up, faults, terminated, offered>>
           ELSE Die
    /\ UNCHANGED <<contradicted, workflow, epochs>>

(* _restore_session: the last snapshots, whatever moment each is from. *)
Restart ==
    /\ ~up
    /\ up' = TRUE
    /\ ledger' = journal.ledger
    /\ attention' = journal.attention
    /\ counters' = journal.counters
    /\ UNCHANGED <<journal, pending, contradicted, terminated, workflow, offered,
                   epochs, faults, history>>
-----------------------------------------------------------------------------
(* prepare_action past its own checks (module ActionGate), in delivery mode. *)
SupportExhausted(d) ==
    /\ Relation[d] \in {"diagnostic_support", "ambiguous"}
    /\ counters.support >= SupportLimit
TotalExhausted(d) ==
    /\ Relation[d] \notin {"removes_concrete_blocker", "required_verification"}
    /\ counters.total >= TotalLimit
OverBudget(d) == SupportExhausted(d) \/ TotalExhausted(d)
Focus(d) == IF About[d] # 0 THEN About[d] ELSE Head(ledger, attention)

CanPrepare(d) ==
    /\ up
    /\ ~terminated
    /\ d \notin pending
    /\ Cardinality(pending) < MaxPending
Unprepared == <<up, ledger, counters, contradicted, terminated, workflow, offered,
                epochs, faults, waited>>

Prepare(d) ==
    /\ CanPrepare(d)
    /\ ~OverBudget(d)
    /\ pending' = pending \cup {d}
    /\ UNCHANGED <<Unprepared, attention, journal, refused>>

(* consume_progress_redirect_yield: one action on the criterion that attention
   yielded to passes without a further redirect. *)
PrepareYielded(d) ==
    /\ CanPrepare(d)
    /\ OverBudget(d)
    /\ Focus(d) # 0
    /\ Focus(d) = attention.yield
    /\ attention' = [attention EXCEPT !.yield = 0, !.revision = @ + 1]
    /\ journal' = [journal EXCEPT !.attention = attention']
    /\ pending' = pending \cup {d}
    /\ UNCHANGED <<Unprepared, refused>>

(* record_progress_redirect: "redirect" demands a changed hypothesis, "repeat"
   blocks, "yield" and "limit" let the action pass. *)
PrepareRedirected(d) ==
    /\ CanPrepare(d)
    /\ OverBudget(d)
    /\ ~(Focus(d) # 0 /\ Focus(d) = attention.yield)
    /\ LET result == Redirected(ledger, attention, d, Focus(d))
       IN /\ attention' = result.attention
          /\ pending' = IF result.answer \in {"yield", "limit"}
                        THEN pending \cup {d} ELSE pending
          /\ refused' = IF result.answer = "redirect"
                        THEN [refused EXCEPT ![Focus(d)] = @ + 1] ELSE refused
    /\ journal' = [journal EXCEPT !.attention = attention']
    /\ UNCHANGED Unprepared

(* History: a reset that was committed forgives the refusals; an action on the
   head of the window is a turn that the other prompt criteria wait for. *)
Forgiven(a) ==
    refused' = IF journal'.attention = a THEN [k \in Keys |-> 0] ELSE refused
Turn(l, a, c, head) ==
    waited' = [d \in Criteria |->
        IF d = c \/ d \notin Runnable(l) \/ Late(attention, d) \/ Late(a, d)
        THEN 0
        ELSE IF c = head /\ c # 0 THEN waited[d] + 1 ELSE waited[d]]

(* _record_tool_result: commit_candidate, the attention row, the ledger row,
   the committed action of its lane. *)
Committed(l, c, changed) ==
    LET moved == [l EXCEPT !.sequence = @ + 1, !.revision = @ + 1]
    IN IF changed /\ c # 0
       THEN [moved EXCEPT !.status[c] = "active", !.due = @ \cup {c}]
       ELSE moved
RecordAction(d, changed) ==
    LET l == Committed(ledger, About[d], changed)
        a == Acted(attention, About[d], l.sequence, changed)
        support == IF Relation[d] = "diagnostic_support" THEN 1 ELSE 0
    IN /\ up
       /\ d \in pending
       /\ ledger.sequence < MaxSequence
       /\ ledger.revision < MaxRevision
       /\ Commit(l, a, [counters EXCEPT !.total = @ + 1, !.support = @ + support],
                 <<"attention", "ledger", "counters">>, pending \ {d})
       /\ IF changed THEN Forgiven(a) ELSE UNCHANGED refused
       /\ Turn(l, a, About[d], Head(ledger, attention))

(* record_attempt_failure with a semantic descriptor about c. *)
RecordFailure(c, repeated) ==
    LET a == FailedApproach(attention, c, ledger.sequence)
        same == IF repeated /\ counters.same > 0 THEN counters.same + 1 ELSE 1
    IN /\ up
       /\ ledger.revision < MaxRevision
       /\ attention.retry[c] < YieldThreshold
       /\ Commit([ledger EXCEPT !.revision = @ + 1], a,
                 [counters EXCEPT !.same = IF same > SameLimit THEN SameLimit ELSE same],
                 <<"ledger", "attention", "counters">>, pending)
       /\ UNCHANGED refused
       /\ Turn(ledger, a, c, 0)

(* record_goal_progress of c *)
RecordGoalProgress(c) ==
    LET l == [ledger EXCEPT !.status[c] = "partially_observed",
                            !.sequence = @ + 1, !.revision = @ + 1]
        a == Progressed(attention, c)
    IN /\ up
       /\ ledger.sequence < MaxSequence
       /\ ledger.revision < MaxRevision
       /\ Commit(l, a, NewCounters, <<"counters", "ledger", "attention">>, pending)
       /\ Forgiven(a)
       /\ Turn(l, a, 0, 0)

(* Operations that leave the attention alone and write the ledger's row. *)
LedgerOnly(l) ==
    /\ up
    /\ Commit(l, attention, counters, <<"ledger">>, pending)
    /\ UNCHANGED refused
    /\ Turn(l, attention, 0, 0)
(* record_criterion_verified, from accepted current evidence *)
VerifyCriterion(c) ==
    /\ ledger.revision < MaxRevision
    /\ LedgerOnly([ledger EXCEPT !.status[c] = "satisfied", !.due = @ \ {c},
                                 !.revision = @ + 1])
RecordBlocker ==
    /\ ledger.sequence < MaxSequence
    /\ ledger.revision < MaxRevision
    /\ LedgerOnly([ledger EXCEPT !.blockers = TRUE, !.sequence = @ + 1,
                                 !.revision = @ + 2])
ClearBlocker ==
    /\ ledger.blockers
    /\ LedgerOnly([ledger EXCEPT !.blockers = FALSE, !.revision = @ + 1])
RecordRecoveryEpoch ==
    /\ up
    /\ ledger.revision < MaxRevision
    /\ counters.epochs < EpochLimit
    /\ Commit([ledger EXCEPT !.revision = @ + 1], attention,
              [counters EXCEPT !.epochs = @ + 1], <<"ledger", "counters">>, pending)
    /\ UNCHANGED history

(* context_for takes the pending redirect guidance, journals that, and returns
   the text; base_model_context does the same. *)
RenderContext ==
    /\ up
    /\ attention.guidance
    /\ attention' = [attention EXCEPT !.guidance = FALSE, !.revision = @ + 1]
    /\ journal' = [journal EXCEPT !.attention = attention']
    /\ UNCHANGED <<up, ledger, counters, pending, contradicted, terminated,
                   workflow, offered, epochs, faults, history>>

(* record_operator_contradiction and resolve_contradiction touch neither the
   ledger nor the attention. *)
Contradict ==
    /\ up
    /\ contradicted' = ~contradicted
    /\ UNCHANGED <<up, session, journal, pending, terminated, workflow, offered,
                   epochs, faults, history>>
Terminate ==
    /\ up
    /\ ~terminated
    /\ terminated' = TRUE
    /\ UNCHANGED <<up, session, journal, pending, contradicted, workflow, offered,
                   epochs, faults, history>>
-----------------------------------------------------------------------------
(* External: another agent moves the shared workflow at its owner. *)
WorkflowMoves ==
    /\ workflow < 1
    /\ workflow' = workflow + 1
    /\ UNCHANGED <<up, session, journal, pending, contradicted, terminated, offered,
                   epochs, faults, history>>

(* StandaloneRoutePolicy.select: the host's preference, the only route, the one
   with the best score.  The owner's ranking is the legal routes and the best
   of the scored ones. *)
Selected(legal, best, preference) ==
    CASE preference # {} -> preference
      [] preference = {} /\ Cardinality(legal) = 1 -> legal
      [] OTHER -> IF Cardinality(best) = 1 THEN best ELSE {}

(* _rank_legal_routes *)
RankRoutes(legal, best, preference) ==
    /\ up
    /\ \E boundary \in BOOLEAN :
          Mode(ledger, attention, counters, boundary) = "REPLAN"
    /\ ~terminated
    /\ pending = {}
    /\ offered = NoRecommendation
    /\ best \subseteq legal
    /\ preference \subseteq legal
    /\ Selected(legal, best, preference) # {}
    /\ offered' = [legal |-> legal, workflow |-> workflow,
                   behavior |-> BehaviorRevision(ledger, attention)]
    /\ UNCHANGED <<up, session, journal, pending, contradicted, terminated,
                   workflow, epochs, faults, history>>

(* The recommendation is still the one the state would give. *)
FaultyFresh(r) ==
    /\ r.workflow = workflow
    /\ r.behavior <= BehaviorRevision(ledger, attention)
Fresh(r) ==
    /\ r.workflow = workflow
    /\ r.behavior = BehaviorRevision(ledger, attention)

(* _create_child_policy_epoch on a legal route, the recommended one or another.
   The parent's own epoch record stays as it is. *)
CreateChildEpoch(route) ==
    /\ up
    /\ ~terminated
    /\ pending = {}
    /\ epochs < MaxEpochs
    /\ route \in offered.legal
    /\ Fresh(offered)
    /\ epochs' = epochs + 1
    /\ UNCHANGED <<up, session, journal, pending, contradicted, terminated,
                   workflow, offered, faults, history>>
(* The host drops a recommendation it no longer wants. *)
DropRecommendation ==
    /\ offered # NoRecommendation
    /\ offered' = NoRecommendation
    /\ UNCHANGED <<up, session, journal, pending, contradicted, terminated,
                   workflow, epochs, faults, history>>

Next ==
    \/ Crash
    \/ Restart
    \/ \E d \in Actions :
        \/ Prepare(d)
        \/ PrepareYielded(d)
        \/ PrepareRedirected(d)
        \/ \E changed \in BOOLEAN : RecordAction(d, changed)
    \/ \E c \in Criteria :
        \/ \E repeated \in BOOLEAN : RecordFailure(c, repeated)
        \/ RecordGoalProgress(c)
        \/ VerifyCriterion(c)
    \/ RecordBlocker
    \/ ClearBlocker
    \/ RecordRecoveryEpoch
    \/ RenderContext
    \/ Contradict
    \/ Terminate
    \/ WorkflowMoves
    \/ \E legal, best, preference \in SUBSET Routes :
          Cardinality(preference) <= 1 /\ RankRoutes(legal, best, preference)
    \/ \E route \in Routes : CreateChildEpoch(route)
    \/ DropRecommendation

Spec == Init /\ [][Next]_vars
-----------------------------------------------------------------------------
(* An agent without progress is told to change its hypothesis at most
   MaxRedirects - 1 times per criterion until the artifact changes or progress
   is recorded, however the session is restarted in between: after that its
   actions pass, so that the redirect cannot starve it
   (record_progress_redirect). *)
RefusalsBounded == \A k \in Keys : refused[k] < MaxRedirects

(* A criterion that did not fail too often is not passed over: as long as the
   host works on the first criterion of the window, every other prompt
   unfinished criterion gets its turn after one turn of each other criterion.
   A crash between the attention row and the ledger row makes a sequence
   number be used twice and may cost one more turn. *)
AttentionRotates ==
    \A c \in Criteria :
        c \in Runnable(ledger) => waited[c] < Cardinality(Criteria) + faults

(* While a yielded turn is on offer, it is for another criterion than the one
   whose redirect caused it, also when further actions are redirected before
   the turn is taken. *)
YieldsElsewhere ==
    attention.yield # 0 => /\ attention.last # <<>>
                           /\ attention.last[2] # attention.yield

(* A child policy epoch is entered only while the policy still asks for a new
   route: whatever ended that (progress, a redirect that was rendered, a new
   epoch budget) moved the revision the recommendation is pinned to.  An
   operator contradiction moves neither revision. *)
EpochAskedFor ==
    epochs' # epochs => \/ contradicted
                        \/ Mode(ledger, attention, counters, FALSE) = "REPLAN"

EpochJustified == [][EpochAskedFor]_vars
=============================================================================
