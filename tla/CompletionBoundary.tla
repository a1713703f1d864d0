--------------------------- MODULE CompletionBoundary ---------------------------
(***************************************************************************)
(* The completion boundary of a runtime session: the evidence ledger, the  *)
(* operator's contradictions, the authority revision, the completion and   *)
(* termination permits, and the durable authority journal a crashed        *)
(* session is resumed from.                                                *)
(*                                                                         *)
(* `session' is what the process holds in memory.  `journal' is the view   *)
(* that _restore_session would rebuild from the committed rows: replay is  *)
(* a left fold over the rows, so committing a row is applying that row's   *)
(* replay branch to `journal' (the Replay* operators below), and resuming  *)
(* is copying `journal' into `session'.  A handler that commits several    *)
(* rows has an Interrupted twin, in which the process dies between two of  *)
(* its commits.                                                            *)
(*                                                                         *)
(* Evidence and contradiction identifiers are uuids in the code and their  *)
(* timestamps are compared; here one counter plays both parts: the n-th    *)
(* fact has identifier and timestamp n.                                    *)
(***************************************************************************)
EXTENDS Naturals, FiniteSets

CONSTANTS
    Subjects,            \* subject references used by the host
    TaskSubject,         \* bundle.policy.subject_ref
    Criteria,            \* acceptance criteria of the pinned goal contract
    Required,            \* the criteria that are required
    CriterionKinds,      \* evidence kinds a criterion accepts; {} accepts any
    Boundaries,          \* boundary identifiers evidence may cover
    RequiredBoundaries,  \* boundaries each criterion needs covered
    PlainKinds,          \* evidence kinds the host attests without a tool call
    ValidatorKinds,      \* evidence kinds of the validators the host runs
    HostDispositions,    \* termination dispositions the host asks for
    Combined,            \* runtime_mode = "combined_enforcing"
    MaxFacts,            \* bound: evidence and contradictions recorded
    MaxWorkflowRevision, \* bound: steps of the workflow authority
    MaxCrashes,          \* bound: process crashes
    MaxRefs              \* bound: references cited for one claim or criterion

SessionKinds == {"tool_result", "validation_result", "completion_boundary",
                 "handoff", "contradiction"}
Kinds == SessionKinds \cup PlainKinds
Dispositions == {"BLOCKED", "FAILED", "HANDOFF"}

ASSUME ConstantsAssumption ==
    /\ TaskSubject \in Subjects
    /\ Required \subseteq Criteria
    /\ Required # {}
    /\ CriterionKinds \in [Criteria -> SUBSET Kinds]
    /\ RequiredBoundaries \in [Criteria -> SUBSET Boundaries]
    /\ "none" \notin PlainKinds
    /\ PlainKinds \cap SessionKinds = {}
    /\ ValidatorKinds \subseteq {"validation_result", "completion_boundary"}
    /\ HostDispositions \subseteq Dispositions
    /\ Combined \in BOOLEAN
    /\ MaxFacts \in Nat
    /\ MaxWorkflowRevision \in Nat
    /\ MaxCrashes \in Nat
    /\ MaxRefs \in Nat

Ids == 1..MaxFacts

(* A claim digest identifies the host invocation it was computed for and the
   evidence that proves each criterion (completion_claim_digest). *)
Claim == [source : Ids \cup {0}, proofs : [Criteria -> SUBSET Ids]]
NoClaim == [source |-> 0, proofs |-> [c \in Criteria |-> {}]]

(* source: the tool result whose invocation a validator judged, or 0. *)
Evidence == [kind : Kinds \cup {"none"}, subject : Subjects,
             invalidated : BOOLEAN, covers : SUBSET Boundaries,
             source : Ids \cup {0}, claim : Claim]
NoEvidence == [kind |-> "none", subject |-> TaskSubject, invalidated |-> FALSE,
               covers |-> {}, source |-> 0, claim |-> NoClaim]

Contradiction == [state : {"none", "open", "resolved"}, subject : Subjects]
NoContradiction == [state |-> "none", subject |-> TaskSubject]

(* seen is a history field: how many operator observations had been recorded
   when the permit was issued.  No guard reads it. *)
Permit == [rev : Nat, refs : SUBSET Ids, claim : Claim, seen : Nat]
NoPermit == [rev |-> 0, refs |-> {}, claim |-> NoClaim, seen |-> 0]

TerminationPermit == [disposition : Dispositions \cup {"RUNNING"},
                      rev : Nat, seen : Nat]
Running == [disposition |-> "RUNNING", rev |-> 0, seen |-> 0]

View == [rev : Nat, evid : [Ids -> Evidence], inv : SUBSET Ids,
         contra : [Ids -> Contradiction], permit : Permit,
         segment : {"ACTIVE", "COMPLETED"}]
Blank == [rev |-> 0, evid |-> [i \in Ids |-> NoEvidence], inv |-> {},
          contra |-> [i \in Ids |-> NoContradiction], permit |-> NoPermit,
          segment |-> "ACTIVE"]

(* The last final output, and whether at that moment its permit predated an
   operator observation, or evidence it rested on had been withdrawn. *)
Final == [outcome : Dispositions \cup {"NONE", "SUCCEEDED"}, stale : BOOLEAN,
          onWithdrawn : BOOLEAN]
NoFinal == [outcome |-> "NONE", stale |-> FALSE, onWithdrawn |-> FALSE]

VARIABLES
    up,           \* the process is running
    session,      \* the in-memory session, Blank while down
    termination,  \* termination_disposition and termination_permit
    journal,      \* the view the committed rows replay to
    replayable,   \* FALSE once a committed row cannot be replayed
    clock,        \* facts recorded so far
    workflow,     \* the CSW workflow: its revision, and whether it completed
    crashes,      \* crashes so far
    observed,     \* history: operator observations recorded
    withdrawn,    \* history: evidence whose invalidation was committed
    final         \* history: the last final output

vars == <<up, session, termination, journal, replayable, clock, workflow,
          crashes, observed, withdrawn, final>>
history == <<observed, withdrawn, final>>

TypeOK ==
    /\ up \in BOOLEAN
    /\ session \in View
    /\ termination \in TerminationPermit
    /\ journal \in View
    /\ replayable \in BOOLEAN
    /\ clock \in 0..MaxFacts
    /\ workflow \in [rev : Nat, completed : BOOLEAN]
    /\ crashes \in Nat
    /\ observed \in Nat
    /\ withdrawn \in SUBSET Ids
    /\ final \in Final

Init ==
    /\ up = TRUE
    /\ session = Blank
    /\ termination = Running
    /\ journal = Blank
    /\ replayable = TRUE
    /\ clock = 0
    /\ workflow = [rev |-> 0, completed |-> FALSE]
    /\ crashes = 0
    /\ observed = 0
    /\ withdrawn = {}
    /\ final = NoFinal
-----------------------------------------------------------------------------
(* AuthorityRevisionState.observe_authority: revisions only grow. *)
Later(a, b) == IF a >= b THEN a ELSE b

Known(view, i) == i \in Ids /\ view.evid[i].kind # "none"

(* Fault: resolve that accepts invalidated records. *)
FaultyResolves(view, refs, subject, after, kinds) ==
    /\ refs # {}
    /\ \A i \in refs : /\ view.evid[i].kind \in kinds
                       /\ view.evid[i].subject = subject
                       /\ i > after

(* EvidenceLedger.resolve: every reference is known, current, about the
   subject, newer than `after' and of an allowed kind. *)
Resolves(view, refs, subject, after, kinds) ==
    /\ refs # {}
    /\ \A i \in refs :
          /\ view.evid[i].kind # "none"
          /\ ~view.evid[i].invalidated
          /\ view.evid[i].subject = subject
          /\ i > after
          /\ view.evid[i].kind \in kinds

(* _criterion_evidence_kinds, with `expected_kinds or None' at its use. *)
AcceptedKinds(c) == IF CriterionKinds[c] = {} THEN Kinds ELSE CriterionKinds[c]

ClaimedCriteria(claim) == {c \in Criteria : claim.proofs[c] # {}}

(* Fault: proofs whose boundaries are not looked at. *)
FaultyCriterionProofsCurrent(view, claim) ==
    \A c \in ClaimedCriteria(claim) :
        Resolves(view, claim.proofs[c], TaskSubject, 0, AcceptedKinds(c))

(* _validate_criterion_proofs over the criteria a claim names. *)
CriterionProofsCurrent(view, claim) ==
    \A c \in ClaimedCriteria(claim) :
        /\ Resolves(view, claim.proofs[c], TaskSubject, 0, AcceptedKinds(c))
        /\ RequiredBoundaries[c] \subseteq
               UNION {view.evid[i].covers : i \in claim.proofs[c]}

(* The boundary evidence is current and every record is bound to this claim:
   its digest is the claim's, and the claim's is the one its own invocation
   gives. *)
BoundaryCurrent(view, refs, claim) ==
    /\ Resolves(view, refs, TaskSubject, 0, {"completion_boundary"})
    /\ \A i \in refs : /\ view.evid[i].claim = claim
                       /\ view.evid[i].source = claim.source

OpenContradictions(view) == {k \in Ids : view.contra[k].state = "open"}

(* _authoritative_state_ready: in combined mode the workflow authority's
   revision is observed before the operation goes on. *)
ObservedRevision(view) ==
    IF Combined THEN Later(view.rev, workflow.rev) ELSE view.rev
-----------------------------------------------------------------------------
(* Fault: a contradiction is replayed without observing its revision. *)
FaultyReplayContradiction(view, k, s, r) ==
    [view EXCEPT !.contra[k] = [state |-> "open", subject |-> s]]

(* One operator per journal row: what _restore_session does with it. *)
ReplayAttested(view, i, e) == [view EXCEPT !.evid[i] = e]
ReplayInvocation(view, i) == [view EXCEPT !.inv = @ \cup {i}]
ReplayInvalidated(view, i, r) ==
    [view EXCEPT !.evid[i].invalidated = TRUE, !.rev = Later(@, r)]
ReplayRevoked(view) == [view EXCEPT !.permit = NoPermit]
ReplayContradiction(view, k, s, r) ==
    [view EXCEPT !.contra[k] = [state |-> "open", subject |-> s],
                 !.rev = Later(@, r)]
ReplayResolved(view, k) == [view EXCEPT !.contra[k].state = "resolved"]
ReplayPermit(view, p) == [view EXCEPT !.permit = p]
ReplayHandoff(view) == [view EXCEPT !.segment = "COMPLETED"]

(* The process dies; everything that is only in memory is lost. *)
Die ==
    /\ crashes < MaxCrashes
    /\ crashes' = crashes + 1
    /\ up' = FALSE
    /\ session' = Blank
    /\ termination' = Running
-----------------------------------------------------------------------------
(* _record_attestation of a plain host fact: _record_observation,
   _record_statework_evidence, _record_typed_authority and the like. *)
RecordObservation(kind, s, covers) ==
    LET e == [NoEvidence EXCEPT !.kind = kind, !.subject = s,
                                !.covers = covers]
    IN /\ up
       /\ clock < MaxFacts
       /\ clock' = clock + 1
       /\ session' = [session EXCEPT !.evid[clock + 1] = e]
       /\ journal' = ReplayAttested(journal, clock + 1, e)
       /\ UNCHANGED <<up, termination, replayable, workflow, crashes, history>>

ToolResult(s, covers) ==
    [NoEvidence EXCEPT !.kind = "tool_result", !.subject = s, !.covers = covers]

(* _record_tool_result: the attestation is committed, then the invocation a
   validator may later be asked to judge. *)
RecordToolResult(s, covers) ==
    LET i == clock + 1
        e == ToolResult(s, covers)
    IN /\ up
       /\ clock < MaxFacts
       /\ clock' = i
       /\ session' = [session EXCEPT !.evid[i] = e, !.inv = @ \cup {i}]
       /\ journal' = ReplayInvocation(ReplayAttested(journal, i, e), i)
       /\ UNCHANGED <<up, termination, replayable, workflow, crashes, history>>

RecordToolResultInterrupted(s, covers) ==
    /\ up
    /\ clock < MaxFacts
    /\ clock' = clock + 1
    /\ journal' = ReplayAttested(journal, clock + 1, ToolResult(s, covers))
    /\ Die
    /\ UNCHANGED <<replayable, workflow, history>>

(* _record_validator_result: a passing validator's verdict on an invocation
   the host recorded; a completion verdict carries the claim digest the
   caller gave, and boundaries the caller does not name are the invocation's. *)
RecordValidatorResult(kind, source, claim, covers) ==
    LET i == clock + 1
        e == [NoEvidence EXCEPT !.kind = kind,
                                !.subject = session.evid[source].subject,
                                !.covers = IF covers = {}
                                           THEN session.evid[source].covers
                                           ELSE covers,
                                !.source = source, !.claim = claim]
    IN /\ up
       /\ clock < MaxFacts
       /\ source \in session.inv
       /\ kind = "completion_boundary" => claim # NoClaim
       /\ clock' = i
       /\ session' = [session EXCEPT !.evid[i] = e]
       /\ journal' = ReplayAttested(journal, i, e)
       /\ UNCHANGED <<up, termination, replayable, workflow, crashes, history>>

(* _record_operator_observation.  i = 0 stands for a reference the ledger does
   not know.  The contradiction is attested under its own identifier, in
   memory only: no evidence_attested row is written for it. *)
Withdraws(i) == Known(session, i)
RevokesPermit(s, i) ==
    /\ session.permit # NoPermit
    /\ \/ ~Withdraws(i)
       \/ i \in session.permit.refs
       \/ s = TaskSubject
JournalInvalidation(i) ==
    IF Withdraws(i) THEN ReplayInvalidated(journal, i, session.rev + 1)
                    ELSE journal
JournalRevocation(s, i) ==
    IF RevokesPermit(s, i) THEN ReplayRevoked(JournalInvalidation(i))
                           ELSE JournalInvalidation(i)
StillReplayable(i) == replayable /\ (Withdraws(i) => Known(journal, i))
WithdrawnWith(i) == IF Withdraws(i) THEN withdrawn \cup {i} ELSE withdrawn

RecordOperatorObservation(s, i) ==
    LET k == clock + 1
        r == session.rev + 1
        contradiction == [NoEvidence EXCEPT !.kind = "contradiction",
                                            !.subject = s]
    IN /\ up
       /\ clock < MaxFacts
       /\ clock' = k
       /\ session' =
             [rev |-> r,
              evid |-> [j \in Ids |->
                          IF j = k THEN contradiction
                          ELSE IF j = i /\ Withdraws(i)
                               THEN [session.evid[j] EXCEPT !.invalidated = TRUE]
                               ELSE session.evid[j]],
              inv |-> session.inv,
              contra |-> [session.contra EXCEPT
                            ![k] = [state |-> "open", subject |-> s]],
              permit |-> IF RevokesPermit(s, i) THEN NoPermit ELSE session.permit,
              segment |-> session.segment]
       /\ journal' = ReplayContradiction(JournalRevocation(s, i), k, s, r)
       /\ replayable' = StillReplayable(i)
       /\ observed' = observed + 1
       /\ withdrawn' = WithdrawnWith(i)
       /\ UNCHANGED <<up, termination, workflow, crashes, final>>

(* The process dies after the invalidation row, or after the revocation row;
   the contradiction itself was not recorded and the host call did not
   return. *)
RecordOperatorObservationInterrupted(s, i) ==
    /\ up
    /\ clock < MaxFacts
    /\ Withdraws(i) \/ RevokesPermit(s, i)
    /\ \/ Withdraws(i) /\ journal' = JournalInvalidation(i)
       \/ RevokesPermit(s, i) /\ journal' = JournalRevocation(s, i)
    /\ replayable' = StillReplayable(i)
    /\ withdrawn' = WithdrawnWith(i)
    /\ Die
    /\ UNCHANGED <<clock, workflow, observed, final>>

(* resolve_contradiction: only evidence newer than the contradiction counts. *)
ResolveContradiction(k, refs) ==
    /\ up
    /\ session.contra[k].state = "open"
    /\ Resolves(session, refs, session.contra[k].subject, k,
                {"tool_result", "validation_result", "completion_boundary"})
    /\ session' = [session EXCEPT !.contra[k].state = "resolved"]
    /\ journal' = ReplayResolved(journal, k)
    /\ UNCHANGED <<up, termination, replayable, clock, workflow, crashes, history>>

(* record_completion_claim, for the task subject; a refused claim changes
   nothing but telemetry. *)
RecordCompletionClaim(refs, claim) ==
    LET p == [rev |-> session.rev, refs |-> refs, claim |-> claim,
              seen |-> observed]
    IN /\ up
       /\ Required \subseteq ClaimedCriteria(claim)
       /\ CriterionProofsCurrent(session, claim)
       /\ \A k \in OpenContradictions(session) :
             session.contra[k].subject # TaskSubject
       /\ BoundaryCurrent(session, refs, claim)
       /\ session' = [session EXCEPT !.permit = p]
       /\ journal' = ReplayPermit(journal, p)
       /\ UNCHANGED <<up, termination, replayable, clock, workflow, crashes, history>>

(* completion_statework_receipt, preflight_action and _prepare_action observe
   the workflow authority's revision. *)
ObserveWorkflowAuthority ==
    /\ up
    /\ Combined
    /\ session' = [session EXCEPT !.rev = ObservedRevision(session)]
    /\ UNCHANGED <<up, termination, journal, replayable, clock, workflow,
                   crashes, history>>

(* _publish_handoff of the task's one workflow segment: the attestation, then
   the handoff row that completes the segment. *)
PublishHandoff(refs) ==
    LET i == clock + 1
        e == [NoEvidence EXCEPT !.kind = "handoff"]
    IN /\ up
       /\ Combined
       /\ clock < MaxFacts
       /\ workflow.completed
       /\ Resolves(session, refs, TaskSubject, 0, Kinds)
       /\ clock' = i
       /\ session' = [session EXCEPT !.rev = ObservedRevision(session),
                                     !.evid[i] = e, !.segment = "COMPLETED"]
       /\ journal' = ReplayHandoff(ReplayAttested(journal, i, e))
       /\ UNCHANGED <<up, termination, replayable, workflow, crashes, history>>

PublishHandoffInterrupted(refs) ==
    /\ up
    /\ Combined
    /\ clock < MaxFacts
    /\ workflow.completed
    /\ Resolves(session, refs, TaskSubject, 0, Kinds)
    /\ clock' = clock + 1
    /\ journal' = ReplayAttested(journal, clock + 1,
                                [NoEvidence EXCEPT !.kind = "handoff"])
    /\ Die
    /\ UNCHANGED <<replayable, workflow, history>>

(* Fault: a permit may be older than the authority revision. *)
FaultyPermitHolds ==
    /\ session.permit # NoPermit
    /\ session.permit.rev <= ObservedRevision(session)
    /\ BoundaryCurrent(session, session.permit.refs, session.permit.claim)
    /\ OpenContradictions(session) = {}

(* finish_task up to the contradictions: a bound, unsuperseded permit.  The
   pinned policy is taken to be unrevoked (_revocation_current). *)
PermitHolds ==
    /\ session.permit # NoPermit
    /\ session.permit.rev = ObservedRevision(session)
    /\ BoundaryCurrent(session, session.permit.refs, session.permit.claim)
    /\ OpenContradictions(session) = {}

(* A task of one segment without a workflow closes that segment here. *)
SegmentAtFinish == IF Combined THEN session.segment ELSE "COMPLETED"

TaskProved ==
    /\ SegmentAtFinish = "COMPLETED"
    /\ Required \subseteq ClaimedCriteria(session.permit.claim)
    /\ CriterionProofsCurrent(session, session.permit.claim)
    /\ Combined => workflow.completed

(* The evidence a permit cites, for the boundary and for the criteria. *)
Basis(permit) ==
    permit.refs \cup UNION {permit.claim.proofs[c] : c \in Criteria}

FinishSession == [session EXCEPT !.rev = ObservedRevision(session),
                                 !.segment = SegmentAtFinish]

FinishTask ==
    /\ up
    /\ PermitHolds
    /\ TaskProved
    /\ session' = FinishSession
    /\ final' = [outcome |-> "SUCCEEDED",
                 stale |-> session.permit.seen # observed,
                 onWithdrawn |-> Basis(session.permit) \cap withdrawn # {}]
    /\ UNCHANGED <<up, termination, journal, replayable, clock, workflow,
                   crashes, observed, withdrawn>>

(* finish_task raising after the segment was closed: the session keeps it. *)
FinishTaskRefused ==
    /\ up
    /\ PermitHolds
    /\ ~TaskProved
    /\ session' = FinishSession
    /\ UNCHANGED <<up, termination, journal, replayable, clock, workflow,
                   crashes, history>>
-----------------------------------------------------------------------------
(* request_termination.  Its guard refuses a disposition of "SUCCEEDED", which
   nothing ever stores; its rows are not replayed. *)
RequestTermination(d) ==
    /\ up
    /\ termination.disposition # "SUCCEEDED"
    /\ termination' = [disposition |-> d, rev |-> session.rev, seen |-> observed]
    /\ UNCHANGED <<up, session, journal, replayable, clock, workflow, crashes,
                   history>>

(* Fault: a termination that outlives a later authority revision. *)
FaultyFinishTaskTerminated ==
    /\ up
    /\ termination.disposition # "RUNNING"
    /\ final' = [NoFinal EXCEPT !.outcome = termination.disposition,
                                !.stale = termination.seen # observed]
    /\ UNCHANGED <<up, session, termination, journal, replayable, clock,
                   workflow, crashes, observed, withdrawn>>

FinishTaskTerminated ==
    /\ up
    /\ termination.disposition # "RUNNING"
    /\ termination.rev = session.rev
    /\ final' = [NoFinal EXCEPT !.outcome = termination.disposition,
                                !.stale = termination.seen # observed]
    /\ UNCHANGED <<up, session, termination, journal, replayable, clock,
                   workflow, crashes, observed, withdrawn>>
-----------------------------------------------------------------------------
(* The workflow authority applies a step, for this session or another agent's;
   a step moves its revision and may complete or reopen the workflow. *)
WorkflowStep(done) ==
    /\ Combined
    /\ workflow.rev < MaxWorkflowRevision
    /\ workflow' = [rev |-> workflow.rev + 1, completed |-> done]
    /\ UNCHANGED <<up, session, termination, journal, replayable, clock,
                   crashes, history>>

Crash ==
    /\ up
    /\ Die
    /\ UNCHANGED <<journal, replayable, clock, workflow, history>>

(* resume_task: bind_start_authorities observes the workflow authority, then
   _restore_session replays the journal; a row it cannot replay raises. *)
Resume ==
    /\ ~up
    /\ replayable
    /\ up' = TRUE
    /\ session' = [journal EXCEPT !.rev = ObservedRevision(journal)]
    /\ UNCHANGED <<termination, journal, replayable, clock, workflow, crashes,
                   history>>

KnownIds == {i \in Ids : Known(session, i)}
RefSets == {refs \in SUBSET KnownIds : refs # {} /\ Cardinality(refs) <= MaxRefs}
(* Claims a host computes: for the invocation at hand, with proofs it knows. *)
ClaimsFor(source) ==
    {claim \in [source : {source}, proofs : [Criteria -> RefSets \cup {{}}]] :
       ClaimedCriteria(claim) # {}}
(* Only a completion verdict's claim digest is ever read. *)
ValidatorClaims(kind, source) ==
    IF kind = "completion_boundary" THEN ClaimsFor(source) ELSE {NoClaim}

Next ==
    \/ \E s \in Subjects, covers \in SUBSET Boundaries :
          \/ \E kind \in PlainKinds : RecordObservation(kind, s, covers)
          \/ RecordToolResult(s, covers)
          \/ RecordToolResultInterrupted(s, covers)
    \/ \E kind \in ValidatorKinds, source \in session.inv,
          covers \in SUBSET Boundaries :
          \E claim \in ValidatorClaims(kind, source) :
             RecordValidatorResult(kind, source, claim, covers)
    \/ \E s \in Subjects, i \in KnownIds \cup {0} :
          \/ RecordOperatorObservation(s, i)
          \/ RecordOperatorObservationInterrupted(s, i)
    \/ \E k \in Ids, refs \in RefSets : ResolveContradiction(k, refs)
    \/ \E refs \in RefSets, source \in session.inv :
          \E claim \in ClaimsFor(source) : RecordCompletionClaim(refs, claim)
    \/ ObserveWorkflowAuthority
    \/ \E refs \in RefSets : \/ PublishHandoff(refs)
                             \/ PublishHandoffInterrupted(refs)
    \/ FinishTask
    \/ FinishTaskRefused
    \/ \E d \in HostDispositions : RequestTermination(d)
    \/ FinishTaskTerminated
    \/ \E done \in BOOLEAN : WorkflowStep(done)
    \/ Crash
    \/ Resume

Spec == Init /\ [][Next]_vars
-----------------------------------------------------------------------------
(* No final output, successful or terminated, is produced under a permit that
   was issued before a later operator observation was recorded, however the
   process crashed, resumed and re-observed revisions in between.  Only the
   authority revision protects this when the observation names another
   subject, and that revision is rebuilt from two different sources on resume
   (finish_task, finish_task_terminated, _restore_session). *)
NoStaleFinal == ~final.stale

(* A successful output never rests on evidence whose invalidation had been
   committed, neither on its boundary evidence nor on a criterion's proof, even
   when the process died half way through the observation that withdrew it
   (finish_task, _record_operator_observation, _restore_session). *)
FinalOnLiveEvidence == ~final.onWithdrawn

(* What a resume would rebuild is what the running session decides with: the
   same permit, contradictions and invocations, the same evidence except for
   the contradictions' own attestations, and no smaller a revision once the
   workflow authority is observed again (_journal, _restore_session). *)
JournalCoversSession ==
    up => /\ journal.permit = session.permit
          /\ journal.contra = session.contra
          /\ journal.inv = session.inv
          /\ Combined => journal.segment = session.segment
          /\ session.rev <= ObservedRevision(journal)
          /\ \A i \in Ids : \/ journal.evid[i] = session.evid[i]
                            \/ session.evid[i].kind = "contradiction"

(* What the committed rows alone say: there is a permit, every contradiction is
   resolved, and for each required criterion there is evidence of an accepted
   kind, about the task, not withdrawn and together covering the criterion's
   boundaries. *)
ProvedOnRecord ==
    /\ journal.permit # NoPermit
    /\ OpenContradictions(journal) = {}
    /\ \A c \in Required :
          LET proof == journal.permit.claim.proofs[c]
          IN /\ proof # {}
             /\ \A i \in proof \ withdrawn :
                   /\ journal.evid[i].kind \in AcceptedKinds(c)
                   /\ journal.evid[i].subject = TaskSubject
             /\ RequiredBoundaries[c] \subseteq
                   UNION {journal.evid[i].covers : i \in proof \ withdrawn}

(* Whoever reads only the committed rows when a task is reported successful
   finds it proved there, whatever crashed and resumed before (finish_task,
   _validate_criterion_proofs, _restore_session). *)
CompletionAuditable == [][FinishTask => ProvedOnRecord]_vars

(* The inductive invariant behind the three properties.  A permit is never
   ahead of the revision it will be compared with, and is strictly behind it
   once an observation has been recorded since it was issued: in the session,
   in what a resume would rebuild, and for a termination. *)
Superseded(p, rev) ==
    /\ p.seen <= observed
    /\ p.rev <= rev
    /\ p.seen < observed => p.rev < rev
SessionPermitOrder ==
    (up /\ session.permit # NoPermit) => Superseded(session.permit, session.rev)
JournalPermitOrder ==
    journal.permit # NoPermit =>
        Superseded(journal.permit, ObservedRevision(journal))
TerminationOrder ==
    termination # Running => up /\ Superseded(termination, session.rev)

(* Identifiers above the clock are unused, and withdrawn evidence is invalid
   both in memory and after a resume. *)
UnusedAbove ==
    \A i \in Ids : i > clock => /\ session.evid[i].kind = "none"
                                /\ journal.evid[i].kind = "none"
                                /\ i \notin withdrawn
WithdrawnIsInvalid ==
    \A i \in withdrawn : /\ journal.evid[i].invalidated
                         /\ up => session.evid[i].invalidated

IInv ==
    /\ TypeOK
    /\ SessionPermitOrder
    /\ JournalPermitOrder
    /\ TerminationOrder
    /\ UnusedAbove
    /\ WithdrawnIsInvalid
    /\ JournalCoversSession
    /\ NoStaleFinal
    /\ FinalOnLiveEvidence
=============================================================================
