---------------------------- MODULE RouteEvidence ----------------------------
(***************************************************************************)
(* Route decisions, their outcomes and the blockers of one session         *)
(* (EvidenceMethods in scripts/runtime_session/evidence.py), from the      *)
(* decisions recorded while the session starts to what a resume reads      *)
(* back.                                                                   *)
(*                                                                         *)
(* Every operation changes the memory, then commits a journal row, then    *)
(* emits an event, and each of the last two may raise: `upto` is the last  *)
(* thing the operation did, "memory", "journal", or "done" when it         *)
(* returned.  The memory keeps what a failed operation left in it.         *)
(***************************************************************************)
EXTENDS Integers, Sequences, FiniteSets, FiniteSetsExt, SequencesExt

CONSTANTS
    Routes,         \* typed routes
    Initial,        \* the routes the resolver froze, in recording order
    Candidate,      \* the route of the experiment's candidate adjustment
    Cohort,         \* the session's routing cohort
    Invocations, Blockers,
    MaxDecisions, MaxEvidence, MaxOutcomes, MaxFaults   \* bounds of the model

VARIABLES
    status,     \* "starting", "up" or "down"
    session,    \* what the process holds
    journal,    \* what its rows replay to
    initials,   \* how many initial decisions were attempted
    issued,     \* how many attestations were made: their identifiers are fresh
    told,       \* history: decisions returned to the host, and what it was
                \*   last told of each blocker
    reports,    \* history: <<invocation, result>> pairs the host reported
    faults      \* operations that raised and crashes

routeVars == <<status, session, journal, initials, issued, told, reports, faults>>

RouteConstants ==
    /\ Initial \in Seq(Routes) /\ Candidate \in Routes
    /\ Cohort \in {"control", "treatment", "holdout", "none"}

Steps == {"memory", "journal", "done"}

(* What evaluators may read of a captured result: its status, or nothing.  *)
Captured == {"pass", "fail", "empty"}

(* Decisions in the order of their recording; evidence and what was        *)
(* invalidated of it; for each invocation the result kept for evaluators.  *)
Blank ==
    [decisions |-> <<>>, outcomes |-> {}, evidence |-> {}, invalidated |-> {},
     result |-> [i \in Invocations |-> "none"], blockers |-> {}]

RouteInit ==
    /\ status = IF Initial = <<>> THEN "up" ELSE "starting"
    /\ session = Blank /\ journal = Blank
    /\ initials = 0 /\ issued = 0 /\ reports = {}
    /\ told = [decisions |-> {}, blockers |-> [b \in Blockers |-> "cleared"]]
    /\ faults = 0

(* The operation raises, if `raises`. *)
MayRaise(raises) ==
    /\ raises => faults < MaxFaults
    /\ faults' = IF raises THEN faults + 1 ELSE faults

(* The memory becomes `kept` and, when its row was committed, the journal  *)
(* `row`.                                                                  *)
Record(kept, row, upto) ==
    /\ MayRaise(upto # "done")
    /\ session' = kept
    /\ journal' = IF upto = "memory" THEN journal ELSE row
-----------------------------------------------------------------------------
(* _record_route_decision: the intervention counts as executed only on the *)
(* candidate's own route.                                                  *)
Decision(route, reason) ==
    [id |-> Len(session.decisions) + Len(journal.decisions), route |-> route,
     reason |-> reason, executed |-> Cohort = "treatment" /\ route = Candidate]

Decided(v, decision) == [v EXCEPT !.decisions = Append(@, decision)]

RecordRouteDecision(route, reason, upto) ==
    LET decision == Decision(route, reason)
    IN  /\ Len(session.decisions) < MaxDecisions
        /\ Record(Decided(session, decision), Decided(journal, decision), upto)
        /\ told' = [told EXCEPT !.decisions =
                        IF upto = "done" THEN @ \union {decision} ELSE @]

(* _record_initial_route_decisions: a failure fails the start, and what is *)
(* left is recorded by no one.                                             *)
RecordInitial(upto) ==
    /\ status = "starting"
    /\ RecordRouteDecision(Initial[initials + 1], "frozen", upto)
    /\ initials' = initials + 1
    /\ status' = IF upto # "done" THEN "down"
                 ELSE IF initials' = Len(Initial) THEN "up" ELSE "starting"
    /\ UNCHANGED <<issued, reports>>

SelectRoute(route, upto) ==
    /\ status = "up"
    /\ RecordRouteDecision(route, "host_selected", upto)
    /\ UNCHANGED <<status, initials, issued, reports>>
-----------------------------------------------------------------------------
(* Evidence.  _record_attestation draws a fresh identifier.                *)
Attestation(kind, i) == [id |-> issued + 1, kind |-> kind, invocation |-> i]
Attested(v, kind, i) == [v EXCEPT !.evidence = @ \union {Attestation(kind, i)}]

MayAttest == status = "up" /\ issued < MaxEvidence /\ issued' = issued + 1

(* _record_tool_result commits three rows: the attestation, the invocation *)
(* without its raw result, and a snapshot with the blockers.  `rows` says  *)
(* how many of them were.                                                  *)
RecordToolResult(i, result, rows) ==
    LET kept == Attested(session, "tool_result", i)
        row == Attested(journal, "tool_result", i)
    IN  /\ MayAttest /\ MayRaise(rows < 3)
        /\ session' = IF rows = 0 THEN kept ELSE [kept EXCEPT !.result[i] = result]
        /\ journal' = CASE rows = 0 -> journal
                        [] rows = 1 -> row
                        [] rows = 2 -> [row EXCEPT !.result[i] = "empty"]
                        [] rows = 3 -> [row EXCEPT !.result[i] = "empty",
                                                   !.blockers = session.blockers]
        /\ reports' = reports \union {<<i, result>>}
        /\ UNCHANGED <<status, initials, told>>

(* _record_validator_result (reinspection-v1, state-transition-v1), with   *)
(* the captured result as its input, or any when none was kept; the        *)
(* validators pass on other fields than the status.                        *)
RecordValidatorResult(i, upto) ==
    /\ MayAttest
    /\ session.result[i] # "none"
    /\ Record(Attested(session, "validation_result", i),
              Attested(journal, "validation_result", i), upto)
    /\ UNCHANGED <<status, initials, told, reports>>

(* _record_observation and _record_statework_evidence: typed host          *)
(* observations, of no invocation.                                         *)
RecordObservation(upto) ==
    /\ MayAttest
    /\ Record(Attested(session, "observation", "none"),
              Attested(journal, "observation", "none"), upto)
    /\ UNCHANGED <<status, initials, told, reports>>

(* An operator observation invalidates evidence.                           *)
Without(v, e) == [v EXCEPT !.invalidated = @ \union {e}]

Invalidate(e) ==
    /\ status = "up" /\ e \in session.evidence \ session.invalidated
    /\ Record(Without(session, e), Without(journal, e), "done")
    /\ UNCHANGED <<status, initials, issued, told, reports>>

Live(e) == e \in session.evidence \ session.invalidated
-----------------------------------------------------------------------------
(* _evaluate_route_outcome: the first validation among the references      *)
(* whose invocation has a status decides; none is no failure.              *)
Verdict(e) ==
    IF e.kind = "validation_result" THEN session.result[e.invocation] ELSE "empty"

FaultyOutcome(refs) ==
    IF \E k \in DOMAIN refs : Verdict(refs[k]) = "pass" THEN "PASS" ELSE "FAIL"
Outcome(refs) ==
    LET decisive == {k \in DOMAIN refs : Verdict(refs[k]) \in {"pass", "fail"}}
    IN  IF decisive = {} THEN "NOT_APPLICABLE"
        ELSE IF Verdict(refs[Min(decisive)]) = "pass" THEN "PASS" ELSE "FAIL"

Evaluated(v, d, refs) ==
    [v EXCEPT !.outcomes = @ \union
        {[decision |-> d, refs |-> refs, outcome |-> Outcome(refs)]}]

EvaluateRouteOutcome(d, refs, upto) ==
    /\ status = "up" /\ Cardinality(session.outcomes) < MaxOutcomes
    /\ \A k \in DOMAIN refs : Live(refs[k])
    /\ Record(Evaluated(session, d, refs), Evaluated(journal, d, refs), upto)
    /\ UNCHANGED <<status, initials, issued, told, reports>>
-----------------------------------------------------------------------------
(* Blockers: a row carries a snapshot of them all.                         *)

FaultySnapshot(blockers) == session.blockers
Snapshot(blockers) == blockers

ChangeBlockers(b, blockers, answer, upto) ==
    /\ MayRaise(upto # "done")
    /\ session' = [session EXCEPT !.blockers = blockers]
    /\ journal' = IF upto = "memory" THEN journal
                  ELSE [journal EXCEPT !.blockers = Snapshot(blockers)]
    /\ told' = [told EXCEPT !.blockers[b] = IF upto = "done" THEN answer ELSE "unsure"]
    /\ UNCHANGED <<status, initials, issued, reports>>

RecordBlocker(b, e, upto) ==
    /\ status = "up" /\ Live(e)
    /\ ChangeBlockers(b, session.blockers \union {b}, "active", upto)

ClearBlocker(b, e, upto) ==
    /\ status = "up" /\ Live(e) /\ b \in session.blockers
    /\ ChangeBlockers(b, session.blockers \ {b}, "cleared", upto)
-----------------------------------------------------------------------------
Crash ==
    /\ status # "down" /\ MayRaise(TRUE)
    /\ status' = "down"
    /\ UNCHANGED <<session, journal, initials, issued, told, reports>>

(* _restore_session: the rows, with no raw tool result in them; initial    *)
(* decisions are not recorded again.                                       *)
Resume ==
    /\ status = "down"
    /\ status' = "up"
    /\ session' = journal
    /\ UNCHANGED <<journal, initials, issued, told, reports, faults>>

(* References cite one or two pieces of evidence.                          *)
References ==
    LET E == session.evidence
    IN  {<<e>> : e \in E} \union {<<p[1], p[2]>> : p \in {q \in E \X E : q[1] # q[2]}}

RouteNext ==
    \/ Crash \/ Resume \/ \E e \in session.evidence : Invalidate(e)
    \/ \E i \in Invocations, result \in Captured, rows \in 0..3 :
           RecordToolResult(i, result, rows)
    \/ \E upto \in Steps :
        \/ RecordInitial(upto)
        \/ \E route \in Routes : SelectRoute(route, upto)
        \/ \E b \in Blockers, e \in session.evidence :
               RecordBlocker(b, e, upto) \/ ClearBlocker(b, e, upto)
    \/ \E upto \in Steps \ {"journal"} :    \* raising after the row leaves what success does
        \/ RecordObservation(upto)
        \/ \E i \in Invocations : RecordValidatorResult(i, upto)
        \/ \E d \in Range(session.decisions), refs \in References :
               EvaluateRouteOutcome(d, refs, upto)

RouteSpec == RouteInit /\ [][RouteNext]_routeVars
-----------------------------------------------------------------------------
(* The resolver's frozen choices are on record before any other decision,  *)
(* once each and in their order; no decision the host was given an         *)
(* identifier of is missing.                                               *)
DecisionsOnRecord ==
    /\ \E n \in 0..Len(Initial) : \A k \in DOMAIN journal.decisions :
           LET decision == journal.decisions[k]
           IN  IF k <= n THEN decision.reason = "frozen" /\ decision.route = Initial[k]
               ELSE decision.reason # "frozen"
    /\ told.decisions \subseteq Range(journal.decisions)

(* An outcome is what the host once reported as the result of a validation *)
(* the outcome cites, also across crashes and failed writes; and an        *)
(* outcome counts for the intervention only where it was executed.         *)
OutcomesGrounded ==
    LET said(o, result) == \E k \in DOMAIN o.refs :
                               /\ o.refs[k].kind = "validation_result"
                               /\ <<o.refs[k].invocation, result>> \in reports
    IN  \A o \in session.outcomes \union journal.outcomes :
            /\ o.outcome = "PASS" => said(o, "pass")
            /\ o.outcome = "FAIL" => said(o, "fail")
            /\ o.decision.executed => o.decision.route = Candidate

(* What the host was last told of a blocker holds, also after a crash.     *)
BlockersAsTold ==
    status = "up" => \A b \in Blockers :
        /\ told.blockers[b] = "active" => b \in session.blockers
        /\ told.blockers[b] = "cleared" => b \notin session.blockers
=============================================================================
