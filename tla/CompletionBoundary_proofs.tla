------------------------ MODULE CompletionBoundary_proofs ------------------------
(***************************************************************************)
(* Proofs about the completion boundary, for every set of subjects,        *)
(* criteria and boundaries and every value of the bounds.                  *)
(***************************************************************************)
EXTENDS CompletionBoundary, TLAPS

(* The null records belong to their types. *)
LEMMA NullTypes ==
    /\ NoClaim \in Claim
    /\ NoEvidence \in Evidence
    /\ NoContradiction \in Contradiction
    /\ NoPermit \in Permit
    /\ Running \in TerminationPermit
    /\ Blank \in View
    /\ NoFinal \in Final
<1>1. NoClaim \in Claim
  BY DEF NoClaim, Claim
<1>2. NoEvidence \in Evidence
  BY <1>1, ConstantsAssumption DEF NoEvidence, Evidence
<1>3. NoContradiction \in Contradiction
  BY ConstantsAssumption DEF NoContradiction, Contradiction
<1>4. NoPermit \in Permit
  BY <1>1 DEF NoPermit, Permit
<1>5. Running \in TerminationPermit
  BY DEF Running, TerminationPermit
<1>6. Blank \in View
  BY <1>2, <1>3, <1>4 DEF Blank, View
<1>7. NoFinal \in Final
  BY DEF NoFinal, Final
<1>8. QED
  BY <1>1, <1>2, <1>3, <1>4, <1>5, <1>6, <1>7

(* Later is the maximum of two revisions. *)
LEMMA LaterIsMaximum ==
    ASSUME NEW a \in Nat, NEW b \in Nat
    PROVE  /\ Later(a, b) \in Nat
           /\ Later(a, b) >= a
           /\ Later(a, b) >= b
           /\ Later(a, b) = a \/ Later(a, b) = b
BY DEF Later

(* Every replayed row leaves a well-formed view. *)
LEMMA ReplayTypes ==
    ASSUME NEW v \in View, NEW i \in Ids, NEW e \in Evidence, NEW r \in Nat,
           NEW s \in Subjects, NEW p \in Permit
    PROVE  /\ ReplayAttested(v, i, e) \in View
           /\ ReplayInvocation(v, i) \in View
           /\ ReplayInvalidated(v, i, r) \in View
           /\ ReplayRevoked(v) \in View
           /\ ReplayContradiction(v, i, s, r) \in View
           /\ ReplayResolved(v, i) \in View
           /\ ReplayPermit(v, p) \in View
           /\ ReplayHandoff(v) \in View
<1>1. v.rev \in Nat /\ Later(v.rev, r) \in Nat
  BY LaterIsMaximum DEF View
<1>2. [state |-> "open", subject |-> s] \in Contradiction
  BY DEF Contradiction
<1>3. v.evid \in [Ids -> Evidence] /\ v.contra \in [Ids -> Contradiction]
  BY DEF View
<1>4. [v.evid[i] EXCEPT !.invalidated = TRUE] \in Evidence
  BY <1>3 DEF Evidence
<1>5. [v.contra[i] EXCEPT !.state = "resolved"] \in Contradiction
  BY <1>3 DEF Contradiction
<1>6. ReplayInvalidated(v, i, r) \in View
  BY <1>1, <1>3, <1>4 DEF ReplayInvalidated, View
<1>7. ReplayResolved(v, i) \in View
  BY <1>3, <1>5 DEF ReplayResolved, View
<1>8. ReplayContradiction(v, i, s, r) \in View
  BY <1>1, <1>2, <1>3 DEF ReplayContradiction, View
<1>9. ReplayAttested(v, i, e) \in View
  BY <1>3 DEF ReplayAttested, View
<1>10. ReplayRevoked(v) \in View /\ ReplayPermit(v, p) \in View
  BY NullTypes DEF ReplayRevoked, ReplayPermit, View
<1>11. ReplayInvocation(v, i) \in View /\ ReplayHandoff(v) \in View
  BY DEF ReplayInvocation, ReplayHandoff, View
<1>12. QED
  BY <1>6, <1>7, <1>8, <1>9, <1>10, <1>11

(* The evidence each handler attests is well formed. *)
LEMMA EvidenceTypes ==
    ASSUME NEW kind \in Kinds, NEW s \in Subjects,
           NEW covers \in SUBSET Boundaries, NEW source \in Ids \cup {0},
           NEW claim \in Claim
    PROVE  /\ [NoEvidence EXCEPT !.kind = kind, !.subject = s,
                                 !.covers = covers] \in Evidence
           /\ [NoEvidence EXCEPT !.kind = kind, !.subject = s, !.covers = covers,
                                 !.source = source, !.claim = claim] \in Evidence
           /\ [NoEvidence EXCEPT !.kind = kind, !.subject = s] \in Evidence
           /\ [NoEvidence EXCEPT !.kind = kind] \in Evidence
BY NullTypes DEF Evidence

(* What a session observes of a revision is a revision, and never smaller. *)
LEMMA ObservedRevisionGrows ==
    ASSUME TypeOK, NEW v \in View
    PROVE  /\ ObservedRevision(v) \in Nat
           /\ ObservedRevision(v) >= v.rev
           /\ Combined => ObservedRevision(v) >= workflow.rev
           /\ ~Combined => ObservedRevision(v) = v.rev
           /\ ObservedRevision(v) = v.rev \/
                 (Combined /\ ObservedRevision(v) = workflow.rev)
<1>1. v.rev \in Nat /\ workflow.rev \in Nat
  BY DEF View, TypeOK
<1>2. QED
  BY <1>1, LaterIsMaximum DEF ObservedRevision

(* The journal views an operator observation goes through are well formed. *)
LEMMA ObservationJournalTypes ==
    ASSUME TypeOK, NEW s \in Subjects, NEW i \in Ids \cup {0}
    PROVE  /\ JournalInvalidation(i) \in View
           /\ JournalRevocation(s, i) \in View
           /\ WithdrawnWith(i) \in SUBSET Ids
           /\ StillReplayable(i) \in BOOLEAN
<1>1. session.rev + 1 \in Nat
  BY DEF TypeOK, View
<1>2. JournalInvalidation(i) \in View
  <2>1. CASE Withdraws(i)
    <3>1. i \in Ids
      BY <2>1 DEF Withdraws, Known
    <3>2. ReplayInvalidated(journal, i, session.rev + 1) \in View
      BY <1>1, <3>1, NullTypes, ReplayTypes, ConstantsAssumption DEF TypeOK
    <3>3. QED
      BY <2>1, <3>2 DEF JournalInvalidation
  <2>2. CASE ~Withdraws(i)
    BY <2>2 DEF JournalInvalidation, TypeOK
  <2>3. QED
    BY <2>1, <2>2
<1>3. JournalRevocation(s, i) \in View
  <2>1. [JournalInvalidation(i) EXCEPT !.permit = NoPermit] \in View
    BY <1>2, NullTypes DEF View
  <2>2. QED
    BY <1>2, <2>1 DEF JournalRevocation, ReplayRevoked
<1>4. WithdrawnWith(i) \in SUBSET Ids
  BY DEF WithdrawnWith, Withdraws, Known, TypeOK
<1>5. StillReplayable(i) \in BOOLEAN
  BY DEF StillReplayable, TypeOK
<1>6. QED
  BY <1>2, <1>3, <1>4, <1>5

(* Claims the host computes, and sets of references it knows. *)
LEMMA InputTypes ==
    ASSUME TypeOK
    PROVE  /\ session.inv \subseteq Ids
           /\ \A refs \in RefSets : refs \in SUBSET Ids
           /\ \A source \in session.inv : ClaimsFor(source) \subseteq Claim
           /\ KnownIds \subseteq Ids
<1>1. session.inv \subseteq Ids
  BY DEF TypeOK, View
<1>2. KnownIds \subseteq Ids
  BY DEF KnownIds
<1>3. \A refs \in RefSets : refs \in SUBSET Ids
  BY <1>2 DEF RefSets
<1>4. ASSUME NEW source \in session.inv, NEW claim \in ClaimsFor(source)
      PROVE  claim \in Claim
  BY <1>1, <1>3, <1>4 DEF ClaimsFor, Claim
<1>5. QED
  BY <1>1, <1>2, <1>3, <1>4
(* A crash leaves a well-formed, empty process. *)
LEMMA DieTypes ==
    ASSUME TypeOK, Die
    PROVE  /\ up' \in BOOLEAN
           /\ session' \in View
           /\ termination' \in TerminationPermit
           /\ crashes' \in Nat
<1>1. up' \in BOOLEAN
  BY Zenon DEF Die
<1>2. session' \in View
  BY Zenon, NullTypes DEF Die
<1>3. termination' \in TerminationPermit
  BY Zenon, NullTypes DEF Die
<1>4. crashes' \in Nat
  BY DEF Die, TypeOK
<1>5. QED
  BY <1>1, <1>2, <1>3, <1>4
-----------------------------------------------------------------------------
(* One step of the system keeps every variable in its type. *)
LEMMA TypeStep == TypeOK /\ [Next]_vars => TypeOK'
<1> SUFFICES ASSUME TypeOK, [Next]_vars
             PROVE  TypeOK'
  OBVIOUS
<1> USE DEF TypeOK
<1>0. /\ clock < MaxFacts => clock + 1 \in Ids /\ clock + 1 \in 0..MaxFacts
      /\ NoEvidence \in Evidence
      /\ Blank \in View /\ Running \in TerminationPermit
      /\ ObservedRevision(session) \in Nat /\ ObservedRevision(journal) \in Nat
      /\ TaskSubject \in Subjects
  BY NullTypes, ObservedRevisionGrows, ConstantsAssumption DEF Ids
<1>1. ASSUME NEW kind \in PlainKinds, NEW s \in Subjects,
             NEW covers \in SUBSET Boundaries, RecordObservation(kind, s, covers)
      PROVE  TypeOK'
  <2> DEFINE e == [NoEvidence EXCEPT !.kind = kind, !.subject = s,
                                     !.covers = covers]
  <2>1. e \in Evidence
    BY EvidenceTypes, NullTypes DEF Kinds
  <2>2. journal' \in View
    BY <1>0, <1>1, <2>1, ReplayTypes, NullTypes DEF RecordObservation
  <2> HIDE DEF e
  <2>3. session' = [session EXCEPT !.evid[clock + 1] = e]
    BY <1>1 DEF RecordObservation, e
  <2>4. session' \in View
    BY <1>0, <1>1, <2>1, <2>3 DEF RecordObservation, View
  <2>5. QED
    BY <1>0, <1>1, <2>2, <2>4 DEF RecordObservation, history
<1>2. ASSUME NEW s \in Subjects, NEW covers \in SUBSET Boundaries,
             RecordToolResult(s, covers)
      PROVE  TypeOK'
  <2>1. ToolResult(s, covers) \in Evidence
    BY EvidenceTypes, NullTypes DEF ToolResult, Kinds, SessionKinds
  <2>2. journal' \in View
    BY <1>0, <1>2, <2>1, ReplayTypes, NullTypes DEF RecordToolResult
  <2>3. session' \in View
    BY <1>0, <1>2, <2>1 DEF RecordToolResult, View
  <2>4. QED
    BY <1>0, <1>2, <2>2, <2>3 DEF RecordToolResult, history
<1>3. ASSUME NEW s \in Subjects, NEW covers \in SUBSET Boundaries,
             RecordToolResultInterrupted(s, covers)
      PROVE  TypeOK'
  <2>1. ToolResult(s, covers) \in Evidence
    BY EvidenceTypes, NullTypes DEF ToolResult, Kinds, SessionKinds
  <2>2. journal' \in View
    BY <1>0, <1>3, <2>1, ReplayTypes, NullTypes DEF RecordToolResultInterrupted
  <2>3. QED
    BY <1>0, <1>3, <2>2, DieTypes DEF RecordToolResultInterrupted, history
<1>4. ASSUME NEW kind \in ValidatorKinds, NEW source \in session.inv,
             NEW covers \in SUBSET Boundaries,
             NEW claim \in ValidatorClaims(kind, source),
             RecordValidatorResult(kind, source, claim, covers)
      PROVE  TypeOK'
  <2> DEFINE cov == IF covers = {} THEN session.evid[source].covers ELSE covers
             e == [NoEvidence EXCEPT !.kind = kind,
                                     !.subject = session.evid[source].subject,
                                     !.covers = cov,
                                     !.source = source, !.claim = claim]
  <2>1. source \in Ids /\ claim \in Claim /\ kind \in Kinds
    BY InputTypes, NullTypes, ConstantsAssumption DEF Kinds, SessionKinds, ValidatorClaims
  <2>2. session.evid[source] \in Evidence
    BY <2>1 DEF View
  <2>3. session.evid[source].subject \in Subjects /\ cov \in SUBSET Boundaries
    BY <2>2 DEF Evidence
  <2>4. e \in Evidence
    BY <2>1, <2>3, EvidenceTypes
  <2>5. journal' = ReplayAttested(journal, clock + 1, e)
    BY <1>4 DEF RecordValidatorResult
  <2>6. session' = [session EXCEPT !.evid[clock + 1] = e]
    BY <1>4 DEF RecordValidatorResult
  <2> HIDE DEF e
  <2>7. clock + 1 \in Ids /\ clock' = clock + 1
    BY <1>0, <1>4 DEF RecordValidatorResult
  <2>8. journal' \in View
    BY <1>0, <2>4, <2>5, <2>7, ReplayTypes, NullTypes
  <2>9. session' \in View
    BY <2>4, <2>6, <2>7 DEF View
  <2>10. QED
    BY <1>0, <1>4, <2>7, <2>8, <2>9 DEF RecordValidatorResult, history
<1>5. ASSUME NEW s \in Subjects, NEW i \in KnownIds \cup {0},
             RecordOperatorObservation(s, i)
      PROVE  TypeOK'
  <2> DEFINE contradiction == [NoEvidence EXCEPT !.kind = "contradiction",
                                                 !.subject = s]
             evid == [j \in Ids |->
                        IF j = clock + 1 THEN contradiction
                        ELSE IF j = i /\ Withdraws(i)
                             THEN [session.evid[j] EXCEPT !.invalidated = TRUE]
                             ELSE session.evid[j]]
  <2>1. i \in Ids \cup {0} /\ session.rev + 1 \in Nat /\ clock + 1 \in Ids
    BY <1>0, <1>5, InputTypes DEF View, RecordOperatorObservation
  <2>2. journal' \in View
    BY <1>5, <2>1, ObservationJournalTypes, ReplayTypes, NullTypes
       DEF RecordOperatorObservation
  <2>3. contradiction \in Evidence
    BY NullTypes DEF Evidence, Kinds, SessionKinds
  <2>4. evid \in [Ids -> Evidence]
    BY <2>3 DEF View, Evidence
  <2>5. [session.contra EXCEPT ![clock + 1] = [state |-> "open", subject |-> s]]
          \in [Ids -> Contradiction]
    BY <2>1 DEF View, Contradiction
  <2>6. session' \in View
    <3>1. session'.evid = evid
      BY <1>5 DEF RecordOperatorObservation
    <3> HIDE DEF evid, contradiction
    <3>2. session' = [rev |-> session.rev + 1, evid |-> evid,
                      inv |-> session.inv,
                      contra |-> [session.contra EXCEPT
                           ![clock + 1] = [state |-> "open", subject |-> s]],
                      permit |-> IF RevokesPermit(s, i) THEN NoPermit
                                                        ELSE session.permit,
                      segment |-> session.segment]
      BY <1>5 DEF RecordOperatorObservation, evid, contradiction
    <3>3. QED
      BY <2>1, <2>4, <2>5, <3>2, NullTypes DEF View
  <2>7. QED
    BY <1>0, <1>5, <2>1, <2>2, <2>6, ObservationJournalTypes
       DEF RecordOperatorObservation
<1>6. ASSUME NEW s \in Subjects, NEW i \in KnownIds \cup {0},
             RecordOperatorObservationInterrupted(s, i)
      PROVE  TypeOK'
  <2>1. i \in Ids \cup {0}
    BY InputTypes
  <2>2. QED
    BY <1>0, <1>6, <2>1, ObservationJournalTypes, DieTypes
       DEF RecordOperatorObservationInterrupted
<1>7. ASSUME NEW k \in Ids, NEW refs \in RefSets, ResolveContradiction(k, refs)
      PROVE  TypeOK'
  <2>1. session' = ReplayResolved(session, k)
    BY <1>7 DEF ResolveContradiction, ReplayResolved
  <2>2. session' \in View /\ journal' \in View
    BY <1>0, <1>7, <2>1, ReplayTypes, NullTypes DEF ResolveContradiction
  <2>3. QED
    BY <1>7, <2>2 DEF ResolveContradiction, history
<1>8. ASSUME NEW refs \in RefSets, NEW source \in session.inv,
             NEW claim \in ClaimsFor(source), RecordCompletionClaim(refs, claim)
      PROVE  TypeOK'
  <2> DEFINE p == [rev |-> session.rev, refs |-> refs, claim |-> claim,
                   seen |-> observed]
  <2>1. p \in Permit
    BY InputTypes DEF Permit, View
  <2>2. session' = ReplayPermit(session, p) /\ journal' = ReplayPermit(journal, p)
    BY <1>8 DEF RecordCompletionClaim, ReplayPermit
  <2> HIDE DEF p
  <2>3. session' \in View /\ journal' \in View
    BY <2>1, <2>2 DEF ReplayPermit, View
  <2>4. QED
    BY <1>8, <2>3 DEF RecordCompletionClaim, history
<1>9. CASE ObserveWorkflowAuthority
  BY <1>0, <1>9 DEF ObserveWorkflowAuthority, View, history
<1>10. ASSUME NEW refs \in RefSets, PublishHandoff(refs)
       PROVE  TypeOK'
  <2> DEFINE e == [NoEvidence EXCEPT !.kind = "handoff"]
  <2>1. e \in Evidence
    BY NullTypes DEF Evidence, Kinds, SessionKinds
  <2>2. /\ session' = [session EXCEPT !.rev = ObservedRevision(session),
                                      !.evid[clock + 1] = e,
                                      !.segment = "COMPLETED"]
        /\ journal' = ReplayHandoff(ReplayAttested(journal, clock + 1, e))
        /\ clock + 1 \in Ids
    BY <1>0, <1>10 DEF PublishHandoff
  <2> HIDE DEF e
  <2>3. journal' \in View
    BY <1>0, <2>1, <2>2, ReplayTypes, NullTypes
  <2>4. session' \in View
    BY <1>0, <2>1, <2>2 DEF View
  <2>5. QED
    BY <1>0, <1>10, <2>3, <2>4 DEF PublishHandoff, history
<1>11. ASSUME NEW refs \in RefSets, PublishHandoffInterrupted(refs)
       PROVE  TypeOK'
  <2>1. [NoEvidence EXCEPT !.kind = "handoff"] \in Evidence
    BY NullTypes DEF Evidence, Kinds, SessionKinds
  <2>2. journal' \in View
    BY <1>0, <1>11, <2>1, ReplayTypes, NullTypes DEF PublishHandoffInterrupted
  <2>3. QED
    BY <1>0, <1>11, <2>2, DieTypes DEF PublishHandoffInterrupted, history
<1>12. CASE FinishTask
  <2>1. session' \in View
    BY <1>0, <1>12 DEF FinishTask, FinishSession, SegmentAtFinish, View
  <2>2. final' \in Final
    BY <1>12 DEF FinishTask, Final
  <2>3. QED
    BY <1>12, <2>1, <2>2 DEF FinishTask
<1>13. CASE FinishTaskRefused
  <2>1. session' \in View
    BY <1>0, <1>13 DEF FinishTaskRefused, FinishSession, SegmentAtFinish, View
  <2>2. QED
    BY <1>13, <2>1 DEF FinishTaskRefused, history
<1>14. ASSUME NEW d \in HostDispositions, RequestTermination(d)
       PROVE  TypeOK'
  <2>1. termination' \in TerminationPermit
    BY <1>14, ConstantsAssumption DEF RequestTermination, TerminationPermit, View
  <2>2. QED
    BY <1>14, <2>1 DEF RequestTermination, history
<1>15. CASE FinishTaskTerminated
  <2>1. termination.disposition \in Dispositions
    BY <1>15 DEF FinishTaskTerminated, TerminationPermit
  <2>2. final' \in Final
    BY <1>15, <2>1 DEF FinishTaskTerminated, Final, NoFinal
  <2>3. QED
    BY <1>15, <2>2 DEF FinishTaskTerminated
<1>16. ASSUME NEW done \in BOOLEAN, WorkflowStep(done)
       PROVE  TypeOK'
  BY <1>16 DEF WorkflowStep, history
<1>17. CASE Crash
  BY <1>17, DieTypes DEF Crash, history
<1>18. CASE Resume
  BY <1>0, <1>18 DEF Resume, View, history
<1>19. CASE UNCHANGED vars
  BY <1>19 DEF vars
<1>20. QED
  BY <1>1, <1>2, <1>3, <1>4, <1>5, <1>6, <1>7, <1>8, <1>9, <1>10, <1>11, <1>12,
     <1>13, <1>14, <1>15, <1>16, <1>17, <1>18, <1>19 DEF Next

(* Every state variable of the session, the journal and the environment keeps
   its type in every behaviour. *)
THEOREM TypeCorrectness == Spec => []TypeOK
<1>1. Init => TypeOK
  BY NullTypes, ConstantsAssumption DEF Init, TypeOK
<1>2. QED
  BY <1>1, TypeStep, PTL DEF Spec
-----------------------------------------------------------------------------
(* What each replayed row changes in a view, field by field. *)
LEMMA ReplayFields ==
    ASSUME NEW v \in View, NEW i \in Ids, NEW e \in Evidence, NEW r \in Nat,
           NEW s \in Subjects, NEW p \in Permit
    PROVE  /\ LET w == ReplayAttested(v, i, e)
              IN /\ w.rev = v.rev /\ w.permit = v.permit /\ w.contra = v.contra
                 /\ w.inv = v.inv /\ w.segment = v.segment
                 /\ w.evid = [v.evid EXCEPT ![i] = e]
           /\ LET w == ReplayInvocation(v, i)
              IN /\ w.rev = v.rev /\ w.permit = v.permit /\ w.contra = v.contra
                 /\ w.inv = v.inv \cup {i} /\ w.segment = v.segment
                 /\ w.evid = v.evid
           /\ LET w == ReplayInvalidated(v, i, r)
              IN /\ w.rev = Later(v.rev, r) /\ w.permit = v.permit
                 /\ w.contra = v.contra /\ w.inv = v.inv
                 /\ w.segment = v.segment
                 /\ w.evid = [v.evid EXCEPT ![i] =
                               [v.evid[i] EXCEPT !.invalidated = TRUE]]
           /\ LET w == ReplayRevoked(v)
              IN /\ w.rev = v.rev /\ w.permit = NoPermit /\ w.contra = v.contra
                 /\ w.inv = v.inv /\ w.segment = v.segment /\ w.evid = v.evid
           /\ LET w == ReplayContradiction(v, i, s, r)
              IN /\ w.rev = Later(v.rev, r) /\ w.permit = v.permit
                 /\ w.contra = [v.contra EXCEPT
                                 ![i] = [state |-> "open", subject |-> s]]
                 /\ w.inv = v.inv /\ w.segment = v.segment /\ w.evid = v.evid
           /\ LET w == ReplayResolved(v, i)
              IN /\ w.rev = v.rev /\ w.permit = v.permit
                 /\ w.contra = [v.contra EXCEPT ![i] =
                                 [v.contra[i] EXCEPT !.state = "resolved"]]
                 /\ w.inv = v.inv /\ w.segment = v.segment /\ w.evid = v.evid
           /\ LET w == ReplayPermit(v, p)
              IN /\ w.rev = v.rev /\ w.permit = p /\ w.contra = v.contra
                 /\ w.inv = v.inv /\ w.segment = v.segment /\ w.evid = v.evid
           /\ LET w == ReplayHandoff(v)
              IN /\ w.rev = v.rev /\ w.permit = v.permit /\ w.contra = v.contra
                 /\ w.inv = v.inv /\ w.segment = "COMPLETED"
                 /\ w.evid = v.evid
BY DEF ReplayAttested, ReplayInvocation, ReplayInvalidated, ReplayRevoked,
       ReplayContradiction, ReplayResolved, ReplayPermit, ReplayHandoff, View
-----------------------------------------------------------------------------
(* The part of the invariant that orders permits and revisions. *)
OrderInv ==
    /\ SessionPermitOrder
    /\ JournalPermitOrder
    /\ TerminationOrder
    /\ NoStaleFinal
    /\ up => /\ journal.permit = session.permit
             /\ session.rev <= ObservedRevision(journal)

(* A step that touches neither permits nor revisions keeps their order. *)
LEMMA OrderFrame ==
    ASSUME TypeOK, OrderInv,
           session'.rev = session.rev, session'.permit = session.permit,
           journal'.rev = journal.rev, journal'.permit = journal.permit,
           UNCHANGED <<up, termination, workflow, observed, final>>
    PROVE  OrderInv'
<1>1. ObservedRevision(journal)' = ObservedRevision(journal)
  BY DEF ObservedRevision
<1>2. QED
  BY <1>1 DEF OrderInv, SessionPermitOrder, JournalPermitOrder, TerminationOrder,
              NoStaleFinal, Superseded

(* A crash keeps the order when the rows committed before it kept or revoked
   the permit and did not lower the revision. *)
LEMMA OrderDie ==
    ASSUME TypeOK, TypeOK', OrderInv, Die,
           journal'.rev >= journal.rev,
           journal'.permit = journal.permit \/ journal'.permit = NoPermit,
           UNCHANGED <<workflow, observed, final>>
    PROVE  OrderInv'
<1>1. up' = FALSE /\ termination' = Running
  BY DEF Die
<1>2. /\ journal.rev \in Nat /\ journal'.rev \in Nat /\ workflow.rev \in Nat
      /\ journal.permit \in Permit /\ observed \in Nat
  BY DEF TypeOK, View
<1>3. ObservedRevision(journal)' >= ObservedRevision(journal)
  BY <1>2 DEF ObservedRevision, Later
<1>4. JournalPermitOrder'
  <2>1. CASE journal'.permit = NoPermit
    BY <2>1 DEF JournalPermitOrder
  <2>2. CASE journal'.permit = journal.permit
    <3>1. ObservedRevision(journal) \in Nat /\ ObservedRevision(journal)' \in Nat
      BY <1>2 DEF ObservedRevision, Later
    <3>2. journal.permit.rev \in Nat /\ journal.permit.seen \in Nat
      BY <1>2 DEF Permit
    <3>3. QED
      BY <1>3, <2>2, <3>1, <3>2 DEF OrderInv, JournalPermitOrder, Superseded
  <2>3. QED
    BY <2>1, <2>2
<1>5. SessionPermitOrder'
  BY <1>1 DEF SessionPermitOrder
<1>6. TerminationOrder'
  BY <1>1 DEF TerminationOrder
<1>7. NoStaleFinal'
  BY DEF OrderInv, NoStaleFinal
<1>8. QED
  BY <1>1, <1>4, <1>5, <1>6, <1>7 DEF OrderInv

(* One step keeps the order of permits and revisions. *)
LEMMA OrderStep ==
    ASSUME TypeOK, TypeOK', OrderInv, [Next]_vars
    PROVE  OrderInv'
<1>0. /\ session \in View /\ journal \in View
      /\ session' \in View /\ journal' \in View
      /\ session.rev \in Nat /\ journal.rev \in Nat /\ workflow.rev \in Nat
      /\ session.permit \in Permit /\ journal.permit \in Permit
      /\ termination \in TerminationPermit
      /\ observed \in Nat /\ up \in BOOLEAN
      /\ clock < MaxFacts => clock + 1 \in Ids
      /\ TaskSubject \in Subjects
  BY ConstantsAssumption DEF TypeOK, View, Ids
<1>1. ASSUME NEW kind \in PlainKinds, NEW s \in Subjects,
             NEW covers \in SUBSET Boundaries, RecordObservation(kind, s, covers)
      PROVE  OrderInv'
  BY <1>0, <1>1, OrderFrame
     DEF RecordObservation, ReplayAttested, View, history
<1>2. ASSUME NEW s \in Subjects, NEW covers \in SUBSET Boundaries,
             RecordToolResult(s, covers)
      PROVE  OrderInv'
  BY <1>0, <1>2, OrderFrame
     DEF RecordToolResult, ReplayAttested, ReplayInvocation, View, history
<1>3. ASSUME NEW s \in Subjects, NEW covers \in SUBSET Boundaries,
             RecordToolResultInterrupted(s, covers)
      PROVE  OrderInv'
  BY <1>0, <1>3, OrderDie
     DEF RecordToolResultInterrupted, ReplayAttested, View, history
<1>4. ASSUME NEW kind \in ValidatorKinds, NEW source \in session.inv,
             NEW covers \in SUBSET Boundaries,
             NEW claim \in ValidatorClaims(kind, source),
             RecordValidatorResult(kind, source, claim, covers)
      PROVE  OrderInv'
  BY <1>0, <1>4, OrderFrame
     DEF RecordValidatorResult, ReplayAttested, View, history
<1>5. ASSUME NEW s \in Subjects, NEW i \in KnownIds \cup {0},
             RecordOperatorObservation(s, i)
      PROVE  OrderInv'
  <2>1. /\ session'.rev = session.rev + 1
        /\ session'.permit = IF RevokesPermit(s, i) THEN NoPermit
                                                    ELSE session.permit
        /\ up /\ up' /\ observed' = observed + 1
        /\ UNCHANGED <<termination, workflow, final>>
    BY <1>5 DEF RecordOperatorObservation
  <2> DEFINE v == JournalRevocation(s, i)
  <2>2. v \in View /\ JournalInvalidation(i) \in View
    BY InputTypes, ObservationJournalTypes
  <2>3. /\ journal'.rev = Later(v.rev, session.rev + 1)
        /\ journal'.permit = v.permit
    <3>1. journal' = ReplayContradiction(v, clock + 1, s, session.rev + 1)
      BY <1>5 DEF RecordOperatorObservation
    <3>2. clock + 1 \in Ids
      BY <1>0, <1>5 DEF RecordOperatorObservation
    <3> HIDE DEF v
    <3>3. QED
      BY <2>2, <3>1, <3>2 DEF ReplayContradiction, View
  <2>4. v.permit = IF RevokesPermit(s, i) THEN NoPermit ELSE journal.permit
    <3>1. JournalInvalidation(i).permit = journal.permit
      BY <1>0 DEF JournalInvalidation, ReplayInvalidated, View
    <3>2. QED
      BY <2>2, <3>1 DEF JournalRevocation, ReplayRevoked, View
  <2>5. v.rev \in Nat
    BY <2>2 DEF View
  <2> HIDE DEF v
  <2>6. journal'.permit = session'.permit
    BY <2>1, <2>3, <2>4 DEF OrderInv
  <2>7. session'.rev <= ObservedRevision(journal)'
    BY <1>0, <2>1, <2>3, <2>5 DEF ObservedRevision, Later
  <2>8. ASSUME session'.permit # NoPermit
        PROVE  Superseded(session.permit, session.rev)' /\ session'.permit = session.permit
    <3>1. session'.permit = session.permit /\ session.permit # NoPermit
      BY <2>1, <2>8
    <3>2. Superseded(session.permit, session.rev)
      BY <2>1, <3>1 DEF OrderInv, SessionPermitOrder
    <3>3. session.permit.rev \in Nat /\ session.permit.seen \in Nat
      BY <1>0 DEF Permit
    <3>4. QED
      BY <1>0, <2>1, <3>1, <3>2, <3>3 DEF Superseded
  <2>9. SessionPermitOrder'
    BY <2>8 DEF SessionPermitOrder
  <2>10. JournalPermitOrder'
    <3>1. SUFFICES ASSUME journal'.permit # NoPermit
                   PROVE  Superseded(journal.permit, ObservedRevision(journal))'
      BY DEF JournalPermitOrder
    <3>2. /\ session.permit.rev \in Nat /\ session.permit.seen \in Nat
          /\ session.rev + 1 \in Nat
          /\ ObservedRevision(journal)' \in Nat
      BY <1>0, <2>1, <2>3, <2>5 DEF Permit, ObservedRevision, Later
    <3>3. Superseded(session.permit, session.rev)' /\ session'.permit = session.permit
      BY <2>6, <2>8, <3>1
    <3>4. QED
      BY <1>0, <2>1, <2>6, <2>7, <3>2, <3>3 DEF Superseded
  <2>11. TerminationOrder'
    <3>1. SUFFICES ASSUME termination # Running
                   PROVE  Superseded(termination, session.rev)'
      BY <2>1 DEF TerminationOrder
    <3>2. termination.rev \in Nat /\ termination.seen \in Nat
      BY <1>0 DEF TerminationPermit
    <3>3. Superseded(termination, session.rev)
      BY <3>1 DEF OrderInv, TerminationOrder
    <3>4. QED
      BY <1>0, <2>1, <3>2, <3>3 DEF Superseded
  <2>12. NoStaleFinal'
    BY <2>1 DEF OrderInv, NoStaleFinal
  <2>13. QED
    BY <2>6, <2>7, <2>9, <2>10, <2>11, <2>12 DEF OrderInv
<1>6. ASSUME NEW s \in Subjects, NEW i \in KnownIds \cup {0},
             RecordOperatorObservationInterrupted(s, i)
      PROVE  OrderInv'
  <2>1. i \in Ids \cup {0} /\ JournalInvalidation(i) \in View
    BY InputTypes, ObservationJournalTypes
  <2>2. /\ JournalInvalidation(i).permit = journal.permit
        /\ JournalInvalidation(i).rev >= journal.rev
    BY <1>0 DEF JournalInvalidation, ReplayInvalidated, View, Later
  <2>3. /\ JournalRevocation(s, i).rev = JournalInvalidation(i).rev
        /\ \/ JournalRevocation(s, i).permit = journal.permit
           \/ JournalRevocation(s, i).permit = NoPermit
    BY <2>1, <2>2 DEF JournalRevocation, ReplayRevoked, View
  <2>4. QED
    BY <1>6, <2>2, <2>3, OrderDie DEF RecordOperatorObservationInterrupted
<1>7. ASSUME NEW k \in Ids, NEW refs \in RefSets, ResolveContradiction(k, refs)
      PROVE  OrderInv'
  BY <1>0, <1>7, OrderFrame
     DEF ResolveContradiction, ReplayResolved, View, history
<1>8. ASSUME NEW refs \in RefSets, NEW source \in session.inv,
             NEW claim \in ClaimsFor(source), RecordCompletionClaim(refs, claim)
      PROVE  OrderInv'
  <2> DEFINE p == [rev |-> session.rev, refs |-> refs, claim |-> claim,
                   seen |-> observed]
  <2>1. /\ session' = [session EXCEPT !.permit = p]
        /\ journal' = [journal EXCEPT !.permit = p]
        /\ UNCHANGED <<up, termination, workflow, observed, final>>
        /\ up
    BY <1>8 DEF RecordCompletionClaim, ReplayPermit, history
  <2>2. p.rev = session.rev /\ p.seen = observed
    OBVIOUS
  <2> HIDE DEF p
  <2>3. /\ session'.rev = session.rev /\ session'.permit = p
        /\ journal'.rev = journal.rev /\ journal'.permit = p
    BY <1>0, <2>1 DEF View
  <2>4. ObservedRevision(journal)' = ObservedRevision(journal)
    BY <2>1, <2>3 DEF ObservedRevision
  <2>5. ObservedRevision(journal) \in Nat
    BY <1>0 DEF ObservedRevision, Later
  <2>6. QED
    BY <1>0, <2>1, <2>2, <2>3, <2>4, <2>5
       DEF OrderInv, SessionPermitOrder, JournalPermitOrder, TerminationOrder,
           NoStaleFinal, Superseded
<1>9. ASSUME session'.rev = ObservedRevision(session),
             session'.permit = session.permit,
             journal'.rev = journal.rev, journal'.permit = journal.permit,
             UNCHANGED <<up, termination, workflow, observed>>,
             NoStaleFinal', up
      PROVE  OrderInv'
  <2>1. /\ ObservedRevision(journal)' = ObservedRevision(journal)
        /\ ObservedRevision(journal) \in Nat
        /\ ObservedRevision(session) \in Nat
        /\ ObservedRevision(session) >= session.rev
    BY <1>0, <1>9 DEF ObservedRevision, Later
  <2>2. ObservedRevision(session) <= ObservedRevision(journal)
    BY <1>0, <1>9, <2>1 DEF OrderInv, ObservedRevision, Later
  <2>3. /\ session.permit.rev \in Nat /\ session.permit.seen \in Nat
        /\ termination.rev \in Nat /\ termination.seen \in Nat
    BY <1>0 DEF Permit, TerminationPermit
  <2>4. SessionPermitOrder'
    BY <1>0, <1>9, <2>1, <2>3 DEF OrderInv, SessionPermitOrder, Superseded
  <2>5. TerminationOrder'
    BY <1>0, <1>9, <2>1, <2>3 DEF OrderInv, TerminationOrder, Superseded
  <2>6. JournalPermitOrder'
    BY <1>9, <2>1 DEF OrderInv, JournalPermitOrder, Superseded
  <2>7. QED
    BY <1>9, <2>1, <2>2, <2>4, <2>5, <2>6 DEF OrderInv
<1>10. CASE ObserveWorkflowAuthority
  BY <1>0, <1>9, <1>10
     DEF ObserveWorkflowAuthority, View, history, OrderInv, NoStaleFinal
<1>11. ASSUME NEW refs \in RefSets, PublishHandoff(refs)
       PROVE  OrderInv'
  BY <1>0, <1>9, <1>11
     DEF PublishHandoff, ReplayHandoff, ReplayAttested, View, history, OrderInv,
         NoStaleFinal
<1>12. ASSUME NEW refs \in RefSets, PublishHandoffInterrupted(refs)
       PROVE  OrderInv'
  BY <1>0, <1>12, OrderDie
     DEF PublishHandoffInterrupted, ReplayAttested, View, history
<1>13. CASE FinishTask
  <2>1. /\ session'.rev = ObservedRevision(session)
        /\ session'.permit = session.permit
    BY <1>0, <1>13 DEF FinishTask, FinishSession, View
  <2>2. session.permit.seen = observed
    <3>1. /\ up /\ session.permit # NoPermit
          /\ session.permit.rev = ObservedRevision(session)
      BY <1>13 DEF FinishTask, PermitHolds
    <3>2. Superseded(session.permit, session.rev)
      BY <3>1 DEF OrderInv, SessionPermitOrder
    <3>3. ObservedRevision(session) >= session.rev
      BY <1>0 DEF ObservedRevision, Later
    <3>4. session.permit.rev \in Nat /\ session.permit.seen \in Nat
      BY <1>0 DEF Permit
    <3>5. QED
      BY <1>0, <3>1, <3>2, <3>3, <3>4 DEF Superseded
  <2>3. NoStaleFinal'
    BY <1>13, <2>2 DEF FinishTask, NoStaleFinal
  <2>4. QED
    BY <1>9, <1>13, <2>1, <2>3 DEF FinishTask
<1>14. CASE FinishTaskRefused
  <2>1. /\ session'.rev = ObservedRevision(session)
        /\ session'.permit = session.permit
    BY <1>0, <1>14 DEF FinishTaskRefused, FinishSession, View
  <2>2. QED
    BY <1>9, <1>14, <2>1
       DEF FinishTaskRefused, history, OrderInv, NoStaleFinal
<1>15. ASSUME NEW d \in HostDispositions, RequestTermination(d)
       PROVE  OrderInv'
  <2>1. /\ termination'.rev = session.rev /\ termination'.seen = observed
        /\ UNCHANGED <<up, session, journal, workflow, observed, final>>
    BY <1>15 DEF RequestTermination, history
  <2>2. TerminationOrder'
    BY <1>0, <1>15, <2>1 DEF RequestTermination, TerminationOrder, Superseded
  <2>3. ObservedRevision(journal)' = ObservedRevision(journal)
    BY <2>1 DEF ObservedRevision
  <2>4. QED
    BY <2>1, <2>2, <2>3
       DEF OrderInv, SessionPermitOrder, JournalPermitOrder, NoStaleFinal,
           Superseded
<1>16. CASE FinishTaskTerminated
  <2>1. /\ termination # Running
        /\ termination.rev = session.rev
        /\ UNCHANGED <<up, session, termination, journal, workflow, observed>>
    BY <1>16 DEF FinishTaskTerminated, Running
  <2>2. termination.seen = observed
    <3>1. Superseded(termination, session.rev)
      BY <2>1 DEF OrderInv, TerminationOrder
    <3>2. termination.seen \in Nat
      BY <1>0 DEF TerminationPermit
    <3>3. QED
      BY <1>0, <2>1, <3>1, <3>2 DEF Superseded
  <2>3. NoStaleFinal'
    BY <1>16, <2>2 DEF FinishTaskTerminated, NoStaleFinal, NoFinal
  <2>4. ObservedRevision(journal)' = ObservedRevision(journal)
    BY <2>1 DEF ObservedRevision
  <2>5. QED
    BY <2>1, <2>3, <2>4
       DEF OrderInv, SessionPermitOrder, JournalPermitOrder, TerminationOrder,
           Superseded
<1>17. ASSUME NEW done \in BOOLEAN, WorkflowStep(done)
       PROVE  OrderInv'
  <2>1. /\ workflow'.rev = workflow.rev + 1
        /\ UNCHANGED <<up, session, termination, journal, observed, final>>
    BY <1>17 DEF WorkflowStep, history
  <2>2. /\ ObservedRevision(journal) \in Nat
        /\ ObservedRevision(journal)' \in Nat
        /\ ObservedRevision(journal)' >= ObservedRevision(journal)
    BY <1>0, <2>1 DEF ObservedRevision, Later
  <2>3. journal.permit.rev \in Nat /\ journal.permit.seen \in Nat
    BY <1>0 DEF Permit
  <2>4. JournalPermitOrder'
    BY <1>0, <2>1, <2>2, <2>3 DEF OrderInv, JournalPermitOrder, Superseded
  <2>5. QED
    BY <1>0, <2>1, <2>2, <2>4
       DEF OrderInv, SessionPermitOrder, TerminationOrder, NoStaleFinal,
           Superseded
<1>18. CASE Crash
  BY <1>0, <1>18, OrderDie DEF Crash, history
<1>19. CASE Resume
  <2>1. /\ session'.rev = ObservedRevision(journal)
        /\ session'.permit = journal.permit
        /\ up' /\ UNCHANGED <<termination, journal, workflow, observed, final>>
    BY <1>0, <1>19 DEF Resume, View, history
  <2>2. /\ ObservedRevision(journal)' = ObservedRevision(journal)
        /\ ObservedRevision(journal) \in Nat
    BY <1>0, <2>1 DEF ObservedRevision, Later
  <2>3. termination' = Running
    BY <1>19, <2>1 DEF Resume, OrderInv, TerminationOrder
  <2>4. SessionPermitOrder' /\ JournalPermitOrder'
    BY <2>1, <2>2
       DEF OrderInv, SessionPermitOrder, JournalPermitOrder, Superseded
  <2>5. QED
    BY <2>1, <2>2, <2>3, <2>4 DEF OrderInv, TerminationOrder, NoStaleFinal
<1>20. CASE UNCHANGED vars
  BY <1>20, OrderFrame DEF vars
<1>21. QED
  BY <1>1, <1>2, <1>3, <1>4, <1>5, <1>6, <1>7, <1>8, <1>10, <1>11, <1>12, <1>13,
     <1>14, <1>15, <1>16, <1>17, <1>18, <1>19, <1>20 DEF Next
-----------------------------------------------------------------------------
(* The part of the invariant about evidence: what memory and journal agree on. *)
ViewsAgree ==
    up => /\ journal.contra = session.contra
          /\ journal.inv = session.inv
          /\ Combined => journal.segment = session.segment
          /\ \A i \in Ids : \/ journal.evid[i] = session.evid[i]
                            \/ session.evid[i].kind = "contradiction"
EvidenceInv == UnusedAbove /\ WithdrawnIsInvalid /\ ViewsAgree

(* Attesting the next fact in memory and in the journal alike. *)
LEMMA EvidenceAttested ==
    ASSUME TypeOK, EvidenceInv, up, clock < MaxFacts, clock' = clock + 1,
           NEW e \in Evidence,
           session'.evid = [session.evid EXCEPT ![clock + 1] = e],
           journal'.evid = [journal.evid EXCEPT ![clock + 1] = e],
           journal'.contra = journal.contra, session'.contra = session.contra,
           journal'.inv = session'.inv,
           Combined => journal'.segment = session'.segment,
           UNCHANGED <<up, replayable, withdrawn>>
    PROVE  EvidenceInv'
<1>1. /\ clock + 1 \in Ids /\ clock \in Nat
      /\ session.evid \in [Ids -> Evidence] /\ journal.evid \in [Ids -> Evidence]
  BY ConstantsAssumption DEF TypeOK, View, Ids
<1>2. UnusedAbove'
  BY <1>1 DEF EvidenceInv, UnusedAbove, Ids
<1>3. clock + 1 \notin withdrawn
  BY <1>1 DEF EvidenceInv, UnusedAbove
<1>4. withdrawn \subseteq Ids
  BY DEF TypeOK
<1>5. WithdrawnIsInvalid'
  BY <1>1, <1>3, <1>4 DEF EvidenceInv, WithdrawnIsInvalid
<1>6. ViewsAgree'
  BY <1>1 DEF EvidenceInv, ViewsAgree
<1>7. QED
  BY <1>2, <1>5, <1>6 DEF EvidenceInv

(* A step that touches no evidence. *)
LEMMA EvidenceFrame ==
    ASSUME TypeOK, EvidenceInv,
           session'.evid = session.evid, journal'.evid = journal.evid,
           up => journal'.contra = session'.contra,
           session'.inv = session.inv, journal'.inv = journal.inv,
           up /\ Combined => journal'.segment = session'.segment,
           UNCHANGED <<up, replayable, withdrawn, clock>>
    PROVE  EvidenceInv'
BY DEF EvidenceInv, UnusedAbove, WithdrawnIsInvalid, ViewsAgree

(* A crash forgets the session; what matters is what the journal holds. *)
LEMMA EvidenceDie ==
    ASSUME TypeOK, TypeOK', Die,
           \A i \in Ids : i > clock' => /\ journal'.evid[i].kind = "none"
                                        /\ i \notin withdrawn',
           \A i \in withdrawn' : journal'.evid[i].invalidated
    PROVE  EvidenceInv'
<1>1. up' = FALSE /\ session' = Blank
  BY DEF Die
<1>2. \A i \in Ids : session'.evid[i].kind = "none"
  BY <1>1 DEF Blank, NoEvidence
<1>3. QED
  BY <1>1, <1>2 DEF EvidenceInv, UnusedAbove, WithdrawnIsInvalid, ViewsAgree

(* The invalidation row of an observation marks what it withdraws, in the
   journal, and leaves other evidence and every kind alone. *)
LEMMA InvalidationEvidence ==
    ASSUME TypeOK, EvidenceInv, up, NEW s \in Subjects, NEW i \in KnownIds \cup {0}
    PROVE  /\ \A j \in Ids :
                 /\ JournalInvalidation(i).evid[j] =
                       IF j = i /\ Withdraws(i)
                       THEN [journal.evid[j] EXCEPT !.invalidated = TRUE]
                       ELSE journal.evid[j]
                 /\ JournalInvalidation(i).evid[j].kind = journal.evid[j].kind
           /\ JournalInvalidation(i).contra = journal.contra
           /\ JournalInvalidation(i).inv = journal.inv
           /\ JournalInvalidation(i).segment = journal.segment
           /\ JournalRevocation(s, i).evid = JournalInvalidation(i).evid
           /\ JournalRevocation(s, i).contra = journal.contra
           /\ JournalRevocation(s, i).inv = journal.inv
           /\ JournalRevocation(s, i).segment = journal.segment
           /\ \A j \in WithdrawnWith(i) :
                 j \in Ids /\ j <= clock /\ JournalInvalidation(i).evid[j].invalidated
<1>0. /\ session \in View /\ journal \in View /\ clock \in Nat
      /\ withdrawn \subseteq Ids
      /\ journal.evid \in [Ids -> Evidence]
      /\ JournalInvalidation(i) \in View
  BY InputTypes, ObservationJournalTypes, ConstantsAssumption DEF TypeOK, View
<1>1. Withdraws(i) => i \in Ids /\ i <= clock /\ i \in Nat
  BY <1>0 DEF Withdraws, Known, EvidenceInv, UnusedAbove, Ids
<1>2. /\ JournalInvalidation(i).contra = journal.contra
      /\ JournalInvalidation(i).inv = journal.inv
      /\ JournalInvalidation(i).segment = journal.segment
  BY <1>0 DEF JournalInvalidation, ReplayInvalidated, View
<1>3. /\ JournalRevocation(s, i).evid = JournalInvalidation(i).evid
      /\ JournalRevocation(s, i).contra = journal.contra
      /\ JournalRevocation(s, i).inv = journal.inv
      /\ JournalRevocation(s, i).segment = journal.segment
  BY <1>0, <1>2 DEF JournalRevocation, ReplayRevoked, View
<1>4. ASSUME NEW j \in Ids
      PROVE  /\ JournalInvalidation(i).evid[j] =
                   IF j = i /\ Withdraws(i)
                   THEN [journal.evid[j] EXCEPT !.invalidated = TRUE]
                   ELSE journal.evid[j]
             /\ JournalInvalidation(i).evid[j].kind = journal.evid[j].kind
  <2>1. journal.evid[j] \in Evidence
    BY <1>0
  <2>2. JournalInvalidation(i).evid[j] =
           IF j = i /\ Withdraws(i)
           THEN [journal.evid[j] EXCEPT !.invalidated = TRUE]
           ELSE journal.evid[j]
    BY <1>0, <1>1 DEF JournalInvalidation, ReplayInvalidated, View
  <2>3. QED
    BY <2>1, <2>2 DEF Evidence
<1>5. ASSUME NEW j \in WithdrawnWith(i)
      PROVE  j \in Ids /\ j <= clock /\ JournalInvalidation(i).evid[j].invalidated
  <2>1. CASE j = i /\ Withdraws(i)
    <3>1. j \in Ids /\ j <= clock /\ journal.evid[j] \in Evidence
      BY <1>0, <1>1, <2>1
    <3>2. QED
      BY <1>4, <2>1, <3>1 DEF Evidence
  <2>2. CASE ~(j = i /\ Withdraws(i))
    <3>1. j \in withdrawn /\ j \in Ids
      BY <1>0, <2>2 DEF WithdrawnWith
    <3>2. j <= clock /\ journal.evid[j].invalidated
      BY <1>0, <3>1 DEF EvidenceInv, UnusedAbove, WithdrawnIsInvalid, Ids
    <3>3. QED
      BY <1>4, <2>2, <3>1, <3>2
  <2>3. QED
    BY <2>1, <2>2
<1>6. QED
  BY <1>2, <1>3, <1>4, <1>5

(* One step keeps what memory and journal agree on about evidence. *)
LEMMA EvidenceStep ==
    ASSUME TypeOK, TypeOK', EvidenceInv, [Next]_vars
    PROVE  EvidenceInv'
<1>0. /\ session \in View /\ journal \in View
      /\ session.evid \in [Ids -> Evidence] /\ journal.evid \in [Ids -> Evidence]
      /\ clock \in Nat /\ withdrawn \subseteq Ids
      /\ clock < MaxFacts => clock + 1 \in Ids
      /\ NoEvidence \in Evidence /\ NoClaim \in Claim
  BY ConstantsAssumption, NullTypes DEF TypeOK, View, Ids
<1>1. ASSUME NEW kind \in PlainKinds, NEW s \in Subjects,
             NEW covers \in SUBSET Boundaries, RecordObservation(kind, s, covers)
      PROVE  EvidenceInv'
  <2> DEFINE e == [NoEvidence EXCEPT !.kind = kind, !.subject = s,
                                     !.covers = covers]
  <2>1. e \in Evidence
    BY <1>0 DEF Evidence, Kinds
  <2>2. /\ session' = [session EXCEPT !.evid[clock + 1] = e]
        /\ journal' = ReplayAttested(journal, clock + 1, e)
        /\ up /\ clock < MaxFacts /\ clock' = clock + 1
        /\ UNCHANGED <<up, replayable, withdrawn>>
    BY <1>1 DEF RecordObservation, history
  <2> HIDE DEF e
  <2>3. QED
    BY <1>0, <2>1, <2>2, EvidenceAttested
       DEF ReplayAttested, View, EvidenceInv, ViewsAgree
<1>2. ASSUME NEW s \in Subjects, NEW covers \in SUBSET Boundaries,
             RecordToolResult(s, covers)
      PROVE  EvidenceInv'
  <2> DEFINE e == ToolResult(s, covers)
  <2>1. e \in Evidence
    BY <1>0 DEF ToolResult, Evidence, Kinds, SessionKinds
  <2>2. /\ session' = [session EXCEPT !.evid[clock + 1] = e,
                                      !.inv = @ \cup {clock + 1}]
        /\ journal' = ReplayInvocation(ReplayAttested(journal, clock + 1, e),
                                       clock + 1)
        /\ up /\ clock < MaxFacts /\ clock' = clock + 1
        /\ UNCHANGED <<up, replayable, withdrawn>>
    BY <1>2 DEF RecordToolResult, history
  <2> HIDE DEF e
  <2>3. /\ session'.evid = [session.evid EXCEPT ![clock + 1] = e]
        /\ journal'.evid = [journal.evid EXCEPT ![clock + 1] = e]
        /\ journal'.contra = journal.contra /\ session'.contra = session.contra
        /\ journal'.segment = journal.segment
        /\ session'.segment = session.segment
        /\ session'.inv = session.inv \cup {clock + 1}
        /\ journal'.inv = journal.inv \cup {clock + 1}
    BY <1>0, <2>2 DEF ReplayAttested, ReplayInvocation, View
  <2>4. QED
    BY <2>1, <2>2, <2>3, EvidenceAttested DEF EvidenceInv, ViewsAgree
<1>3. ASSUME NEW e \in Evidence, clock < MaxFacts, clock' = clock + 1,
             journal' = ReplayAttested(journal, clock + 1, e), Die,
             UNCHANGED withdrawn
      PROVE  EvidenceInv'
  <2>1. journal'.evid = [journal.evid EXCEPT ![clock + 1] = e]
    BY <1>0, <1>3 DEF ReplayAttested, View
  <2>2. clock + 1 \notin withdrawn
    BY <1>0, <1>3 DEF EvidenceInv, UnusedAbove
  <2>3. \A i \in Ids : i > clock' => /\ journal'.evid[i].kind = "none"
                                     /\ i \notin withdrawn'
    <3>1. \A i \in Ids : i \in Nat
      BY DEF Ids
    <3>2. ASSUME NEW i \in Ids, i > clock'
          PROVE  i > clock /\ i # clock + 1
      BY <1>0, <1>3, <3>1, <3>2
    <3>3. QED
      BY <1>0, <1>3, <2>1, <3>2 DEF EvidenceInv, UnusedAbove
  <2>4. \A i \in withdrawn' : journal'.evid[i].invalidated
    BY <1>0, <1>3, <2>1, <2>2 DEF EvidenceInv, WithdrawnIsInvalid
  <2>5. QED
    BY <1>3, <2>3, <2>4, EvidenceDie
<1>4. ASSUME NEW s \in Subjects, NEW covers \in SUBSET Boundaries,
             RecordToolResultInterrupted(s, covers)
      PROVE  EvidenceInv'
  <2>1. ToolResult(s, covers) \in Evidence
    BY <1>0 DEF ToolResult, Evidence, Kinds, SessionKinds
  <2>2. QED
    BY <1>3, <1>4, <2>1 DEF RecordToolResultInterrupted, history
<1>5. ASSUME NEW kind \in ValidatorKinds, NEW source \in session.inv,
             NEW covers \in SUBSET Boundaries,
             NEW claim \in ValidatorClaims(kind, source),
             RecordValidatorResult(kind, source, claim, covers)
      PROVE  EvidenceInv'
  <2> DEFINE e == [NoEvidence EXCEPT !.kind = kind,
                                     !.subject = session.evid[source].subject,
                                     !.covers = IF covers = {}
                                                THEN session.evid[source].covers
                                                ELSE covers,
                                     !.source = source, !.claim = claim]
  <2>1. e \in Evidence
    <3>1. source \in Ids /\ claim \in Claim
      BY <1>0, InputTypes DEF View, ValidatorClaims
    <3>2. session.evid[source] \in Evidence /\ kind \in Kinds
      BY <1>0, <3>1, ConstantsAssumption DEF Kinds, SessionKinds
    <3>3. QED
      BY <1>0, <3>1, <3>2 DEF Evidence
  <2>2. /\ session' = [session EXCEPT !.evid[clock + 1] = e]
        /\ journal' = ReplayAttested(journal, clock + 1, e)
        /\ up /\ clock < MaxFacts /\ clock' = clock + 1
        /\ UNCHANGED <<up, replayable, withdrawn>>
    BY <1>5 DEF RecordValidatorResult, history
  <2> HIDE DEF e
  <2>3. QED
    BY <1>0, <2>1, <2>2, EvidenceAttested
       DEF ReplayAttested, View, EvidenceInv, ViewsAgree
<1>6. ASSUME NEW s \in Subjects, NEW i \in KnownIds \cup {0},
             RecordOperatorObservation(s, i)
      PROVE  EvidenceInv'
  <2> DEFINE k == clock + 1
             v == JournalRevocation(s, i)
             c == [state |-> "open", subject |-> s]
  <2>1. /\ k \in Ids /\ up /\ up' /\ clock' = k
        /\ withdrawn' = WithdrawnWith(i) /\ replayable' = StillReplayable(i)
        /\ journal' = ReplayContradiction(v, k, s, session.rev + 1)
    BY <1>0, <1>6 DEF RecordOperatorObservation
  <2>2. /\ session'.contra = [session.contra EXCEPT ![k] = c]
        /\ session'.inv = session.inv /\ session'.segment = session.segment
        /\ session'.evid =
             [j \in Ids |->
                IF j = k THEN [NoEvidence EXCEPT !.kind = "contradiction",
                                                 !.subject = s]
                ELSE IF j = i /\ Withdraws(i)
                     THEN [session.evid[j] EXCEPT !.invalidated = TRUE]
                     ELSE session.evid[j]]
    BY <1>6 DEF RecordOperatorObservation
  <2>3. v \in View
    BY InputTypes, ObservationJournalTypes
  <2>4. /\ v.evid = JournalInvalidation(i).evid /\ v.contra = journal.contra
        /\ v.inv = journal.inv /\ v.segment = journal.segment
    BY <2>1, InvalidationEvidence
  <2>5. \A j \in Ids :
           /\ v.evid[j] = IF j = i /\ Withdraws(i)
                          THEN [journal.evid[j] EXCEPT !.invalidated = TRUE]
                          ELSE journal.evid[j]
           /\ v.evid[j].kind = journal.evid[j].kind
    BY <2>1, <2>4, InvalidationEvidence
  <2>6. \A j \in WithdrawnWith(i) : j \in Ids /\ j <= clock /\ v.evid[j].invalidated
    BY <2>1, <2>4, InvalidationEvidence
  <2> HIDE DEF v
  <2>7. /\ journal'.evid = v.evid /\ journal'.inv = v.inv
        /\ journal'.segment = v.segment
        /\ journal'.contra = [v.contra EXCEPT ![k] = c]
    BY <2>1, <2>3 DEF ReplayContradiction, View
  <2>8. UnusedAbove'
    <3>1. SUFFICES ASSUME NEW j \in Ids, j > k
                   PROVE  /\ session'.evid[j].kind = "none"
                          /\ journal'.evid[j].kind = "none"
                          /\ j \notin WithdrawnWith(i)
      BY <2>1 DEF UnusedAbove
    <3>2. j \in Nat /\ j > clock /\ j # k
      BY <1>0, <3>1 DEF Ids
    <3>3. session.evid[j].kind = "none" /\ journal.evid[j].kind = "none"
      BY <3>2 DEF EvidenceInv, UnusedAbove
    <3>4. session.evid[j] \in Evidence
      BY <1>0
    <3>5. session'.evid[j].kind = "none"
      BY <2>2, <3>2, <3>3, <3>4 DEF Evidence
    <3>6. j \notin WithdrawnWith(i)
      BY <1>0, <2>6, <3>2
    <3>7. QED
      BY <2>5, <2>7, <3>3, <3>5, <3>6
  <2>9. WithdrawnIsInvalid'
    <3>1. SUFFICES ASSUME NEW j \in WithdrawnWith(i)
                   PROVE  session'.evid[j].invalidated
      BY <2>1, <2>6, <2>7 DEF WithdrawnIsInvalid
    <3>2. j \in Ids /\ j # k /\ session.evid[j] \in Evidence
      <4>1. j \in Ids /\ j <= clock
        BY <2>6, <3>1
      <4>2. j \in Nat
        BY <4>1 DEF Ids
      <4>3. QED
        BY <1>0, <4>1, <4>2
    <3>3. CASE j = i /\ Withdraws(i)
      BY <2>2, <3>2, <3>3 DEF Evidence
    <3>4. CASE ~(j = i /\ Withdraws(i))
      <4>1. j \in withdrawn
        BY <3>1, <3>4 DEF WithdrawnWith
      <4>2. QED
        BY <2>1, <2>2, <3>2, <3>4, <4>1 DEF EvidenceInv, WithdrawnIsInvalid
    <3>5. QED
      BY <3>3, <3>4
  <2>10. ViewsAgree'
    <3>1. /\ journal.contra = session.contra /\ journal.inv = session.inv
          /\ Combined => journal.segment = session.segment
      BY <2>1 DEF EvidenceInv, ViewsAgree
    <3>2. ASSUME NEW j \in Ids
          PROVE  \/ journal'.evid[j] = session'.evid[j]
                 \/ session'.evid[j].kind = "contradiction"
      <4>1. CASE j = k
        BY <1>0, <2>2, <4>1 DEF Evidence
      <4>2. CASE j # k
        <5>1. \/ journal.evid[j] = session.evid[j]
              \/ session.evid[j].kind = "contradiction"
          BY <2>1, <3>2 DEF EvidenceInv, ViewsAgree
        <5>2. session.evid[j] \in Evidence
          BY <1>0
        <5>3. session'.evid[j] = IF j = i /\ Withdraws(i)
                                 THEN [session.evid[j] EXCEPT !.invalidated = TRUE]
                                 ELSE session.evid[j]
          BY <2>2, <4>2
        <5>4. QED
          BY <2>5, <2>7, <5>1, <5>2, <5>3 DEF Evidence
      <4>3. QED
        BY <4>1, <4>2
    <3>3. QED
      BY <2>2, <2>4, <2>7, <3>1, <3>2 DEF ViewsAgree
  <2>11. QED
    BY <2>8, <2>9, <2>10 DEF EvidenceInv
<1>7. ASSUME NEW s \in Subjects, NEW i \in KnownIds \cup {0},
             RecordOperatorObservationInterrupted(s, i)
      PROVE  EvidenceInv'
  <2>1. /\ up /\ Die /\ clock' = clock /\ withdrawn' = WithdrawnWith(i)
        /\ \/ journal' = JournalInvalidation(i)
           \/ journal' = JournalRevocation(s, i)
    BY <1>7 DEF RecordOperatorObservationInterrupted
  <2>2. journal'.evid = JournalInvalidation(i).evid
    BY <2>1, InvalidationEvidence
  <2>3. \A j \in withdrawn' : j \in Ids /\ j <= clock /\ journal'.evid[j].invalidated
    BY <2>1, <2>2, InvalidationEvidence
  <2>4. \A j \in Ids : j > clock => journal'.evid[j].kind = "none"
    BY <2>1, <2>2, InvalidationEvidence DEF EvidenceInv, UnusedAbove
  <2>5. \A j \in Ids : j > clock => j \notin withdrawn'
    BY <1>0, <2>3 DEF Ids
  <2>6. QED
    BY <2>1, <2>3, <2>4, <2>5, EvidenceDie
<1>8. ASSUME NEW k \in Ids, NEW refs \in RefSets, ResolveContradiction(k, refs)
      PROVE  EvidenceInv'
  BY <1>0, <1>8, EvidenceFrame
     DEF ResolveContradiction, ReplayResolved, View, history, EvidenceInv,
         ViewsAgree
<1>9. ASSUME NEW refs \in RefSets, NEW source \in session.inv,
             NEW claim \in ClaimsFor(source), RecordCompletionClaim(refs, claim)
      PROVE  EvidenceInv'
  BY <1>0, <1>9, EvidenceFrame
     DEF RecordCompletionClaim, ReplayPermit, View, history, EvidenceInv,
         ViewsAgree
<1>10. CASE ObserveWorkflowAuthority
  BY <1>0, <1>10, EvidenceFrame
     DEF ObserveWorkflowAuthority, View, history, EvidenceInv, ViewsAgree
<1>11. ASSUME NEW refs \in RefSets, PublishHandoff(refs)
       PROVE  EvidenceInv'
  <2> DEFINE e == [NoEvidence EXCEPT !.kind = "handoff"]
  <2>1. e \in Evidence
    BY <1>0 DEF Evidence, Kinds, SessionKinds
  <2>2. /\ session' = [session EXCEPT !.rev = ObservedRevision(session),
                                      !.evid[clock + 1] = e,
                                      !.segment = "COMPLETED"]
        /\ journal' = ReplayHandoff(ReplayAttested(journal, clock + 1, e))
        /\ up /\ clock < MaxFacts /\ clock' = clock + 1
        /\ UNCHANGED <<up, replayable, withdrawn>>
    BY <1>11 DEF PublishHandoff, history
  <2> HIDE DEF e
  <2>3. QED
    BY <1>0, <2>1, <2>2, EvidenceAttested
       DEF ReplayAttested, ReplayHandoff, View, EvidenceInv, ViewsAgree
<1>12. ASSUME NEW refs \in RefSets, PublishHandoffInterrupted(refs)
       PROVE  EvidenceInv'
  <2>1. [NoEvidence EXCEPT !.kind = "handoff"] \in Evidence
    BY <1>0 DEF Evidence, Kinds, SessionKinds
  <2>2. QED
    BY <1>3, <1>12, <2>1 DEF PublishHandoffInterrupted, history
<1>13. CASE FinishTask
  BY <1>0, <1>13, EvidenceFrame
     DEF FinishTask, FinishSession, SegmentAtFinish, View, EvidenceInv, ViewsAgree
<1>14. CASE FinishTaskRefused
  BY <1>0, <1>14, EvidenceFrame
     DEF FinishTaskRefused, FinishSession, SegmentAtFinish, View, history,
         EvidenceInv, ViewsAgree
<1>15. ASSUME NEW d \in HostDispositions, RequestTermination(d)
       PROVE  EvidenceInv'
  BY <1>15, EvidenceFrame DEF RequestTermination, history, EvidenceInv, ViewsAgree
<1>16. CASE FinishTaskTerminated
  BY <1>16, EvidenceFrame DEF FinishTaskTerminated, EvidenceInv, ViewsAgree
<1>17. ASSUME NEW done \in BOOLEAN, WorkflowStep(done)
       PROVE  EvidenceInv'
  BY <1>17, EvidenceFrame DEF WorkflowStep, history, EvidenceInv, ViewsAgree
<1>18. CASE Crash
  BY <1>18, EvidenceDie
     DEF Crash, history, EvidenceInv, UnusedAbove, WithdrawnIsInvalid
<1>19. CASE Resume
  <2>1. /\ session'.evid = journal.evid /\ session'.contra = journal.contra
        /\ session'.inv = journal.inv /\ session'.segment = journal.segment
        /\ UNCHANGED <<journal, replayable, clock, withdrawn>>
    BY <1>0, <1>19 DEF Resume, View, history
  <2>2. QED
    BY <2>1 DEF EvidenceInv, UnusedAbove, WithdrawnIsInvalid, ViewsAgree
<1>20. CASE UNCHANGED vars
  BY <1>20, EvidenceFrame DEF vars, EvidenceInv, ViewsAgree
<1>21. QED
  BY <1>1, <1>2, <1>4, <1>5, <1>6, <1>7, <1>8, <1>9, <1>10, <1>11, <1>12, <1>13,
     <1>14, <1>15, <1>16, <1>17, <1>18, <1>19, <1>20 DEF Next
-----------------------------------------------------------------------------
(* Everything a holding permit rests on is current in the session. *)
LEMMA BasisIsCurrent ==
    ASSUME TypeOK, PermitHolds, TaskProved
    PROVE  \A i \in Basis(session.permit) : ~session.evid[i].invalidated
<1>1. \A i \in session.permit.refs : ~session.evid[i].invalidated
  BY DEF PermitHolds, BoundaryCurrent, Resolves
<1>2. ASSUME NEW c \in Criteria, NEW i \in session.permit.claim.proofs[c]
      PROVE  ~session.evid[i].invalidated
  <2>1. c \in ClaimedCriteria(session.permit.claim)
    BY <1>2 DEF ClaimedCriteria
  <2>2. QED
    BY <1>2, <2>1 DEF TaskProved, CriterionProofsCurrent, Resolves
<1>3. QED
  BY <1>1, <1>2 DEF Basis

(* One step keeps final outputs off withdrawn evidence. *)
LEMMA LiveEvidenceStep ==
    ASSUME TypeOK, EvidenceInv, FinalOnLiveEvidence, [Next]_vars
    PROVE  FinalOnLiveEvidence'
<1>1. CASE FinishTask
  <2>1. \A i \in withdrawn : session.evid[i].invalidated
    BY <1>1 DEF FinishTask, EvidenceInv, WithdrawnIsInvalid
  <2>2. Basis(session.permit) \cap withdrawn = {}
    BY <1>1, <2>1, BasisIsCurrent DEF FinishTask
  <2>3. QED
    BY <1>1, <2>2 DEF FinishTask, FinalOnLiveEvidence
<1>2. CASE FinishTaskTerminated
  BY <1>2 DEF FinishTaskTerminated, NoFinal, FinalOnLiveEvidence
<1>3. ASSUME ~FinishTask, ~FinishTaskTerminated
      PROVE  final' = final
  BY <1>3 DEF Next, vars, history, RecordObservation, RecordToolResult,
     RecordToolResultInterrupted, RecordValidatorResult,
     RecordOperatorObservation, RecordOperatorObservationInterrupted,
     ResolveContradiction, RecordCompletionClaim, ObserveWorkflowAuthority,
     PublishHandoff, PublishHandoffInterrupted, FinishTaskRefused,
     RequestTermination, WorkflowStep, Crash, Resume
<1>4. QED
  BY <1>1, <1>2, <1>3 DEF FinalOnLiveEvidence

LEMMA IInvParts ==
    IInv <=> TypeOK /\ OrderInv /\ EvidenceInv /\ FinalOnLiveEvidence
BY DEF IInv, OrderInv, EvidenceInv, ViewsAgree, JournalCoversSession

(* The inductive invariant holds in every behaviour. *)
THEOREM InductiveInvariant == Spec => []IInv
<1>1. Init => IInv
  <2>1. SUFFICES ASSUME Init PROVE IInv
    OBVIOUS
  <2>2. TypeOK
    BY <2>1, NullTypes, ConstantsAssumption DEF Init, TypeOK
  <2>3. OrderInv
    BY <2>1 DEF Init, OrderInv, SessionPermitOrder, JournalPermitOrder,
       TerminationOrder, NoStaleFinal, NoFinal, ObservedRevision, Later, Blank
  <2>4. EvidenceInv
    BY <2>1 DEF Init, EvidenceInv, UnusedAbove, WithdrawnIsInvalid, ViewsAgree,
       Blank, NoEvidence
  <2>5. FinalOnLiveEvidence
    BY <2>1 DEF Init, NoFinal, FinalOnLiveEvidence
  <2>6. QED
    BY <2>2, <2>3, <2>4, <2>5, IInvParts
<1>2. IInv /\ [Next]_vars => IInv'
  <2>1. SUFFICES ASSUME IInv, [Next]_vars PROVE IInv'
    OBVIOUS
  <2>2. TypeOK /\ OrderInv /\ EvidenceInv /\ FinalOnLiveEvidence
    BY <2>1, IInvParts
  <2>3. TypeOK'
    BY <2>1, <2>2, TypeStep
  <2>4. OrderInv' /\ EvidenceInv' /\ FinalOnLiveEvidence'
    BY <2>1, <2>2, <2>3, OrderStep, EvidenceStep, LiveEvidenceStep
  <2>5. QED
    BY <2>3, <2>4 DEF IInv, OrderInv, EvidenceInv, ViewsAgree,
                      JournalCoversSession
<1>3. QED
  BY <1>1, <1>2, PTL DEF Spec

(* finish_task and finish_task_terminated never act under a permit that an
   operator observation has superseded. *)
THEOREM NoStaleFinalAlways == Spec => []NoStaleFinal
BY InductiveInvariant, PTL DEF IInv

(* finish_task never reports success on withdrawn evidence. *)
THEOREM FinalOnLiveEvidenceAlways == Spec => []FinalOnLiveEvidence
BY InductiveInvariant, PTL DEF IInv

(* A resume rebuilds what the running session decides with. *)
THEOREM JournalCoversSessionAlways == Spec => []JournalCoversSession
BY InductiveInvariant, PTL DEF IInv
-----------------------------------------------------------------------------
(* Evidence a criterion's proof cites is on record as the session has it, and
   is not withdrawn, when finish_task succeeds. *)
LEMMA ProofIsOnRecord ==
    ASSUME IInv, FinishTask, NEW c \in Required,
           "contradiction" \notin AcceptedKinds(c),
           NEW i \in session.permit.claim.proofs[c]
    PROVE  /\ i \notin withdrawn
           /\ journal.evid[i] = session.evid[i]
           /\ journal.evid[i].kind \in AcceptedKinds(c)
           /\ journal.evid[i].subject = TaskSubject
<1>1. c \in ClaimedCriteria(session.permit.claim)
  BY DEF FinishTask, TaskProved
<1>2. /\ session.evid[i].kind \in AcceptedKinds(c)
      /\ session.evid[i].subject = TaskSubject
      /\ ~session.evid[i].invalidated
  BY <1>1 DEF FinishTask, TaskProved, CriterionProofsCurrent, Resolves
<1>3. i \in Ids
  BY <1>1 DEF IInv, TypeOK, View, Permit, Claim, ClaimedCriteria
<1>4. journal.evid[i] = session.evid[i]
  BY <1>2, <1>3 DEF FinishTask, IInv, JournalCoversSession
<1>5. i \notin withdrawn
  BY <1>2 DEF FinishTask, IInv, WithdrawnIsInvalid
<1>6. QED
  BY <1>2, <1>4, <1>5

(* Whoever reads only the committed rows finds a successful finish proved, if
   no required criterion accepts an operator's contradiction as its evidence:
   that attestation is the one the journal does not hold.  Every criterion kind
   with default evidence kinds is such (_criterion_evidence_kinds); one without
   accepts any kind. *)
THEOREM CompletionIsAuditable ==
    ASSUME \A c \in Required : "contradiction" \notin AcceptedKinds(c)
    PROVE  Spec => CompletionAuditable
<1>1. ASSUME IInv, FinishTask
      PROVE  ProvedOnRecord
  <2>1. journal.permit = session.permit /\ journal.contra = session.contra
    BY <1>1 DEF FinishTask, IInv, JournalCoversSession
  <2>2. journal.permit # NoPermit /\ OpenContradictions(journal) = {}
    BY <1>1, <2>1 DEF FinishTask, PermitHolds, OpenContradictions
  <2>3. ASSUME NEW c \in Required
        PROVE  LET proof == journal.permit.claim.proofs[c]
               IN /\ proof # {}
                  /\ \A i \in proof \ withdrawn :
                        /\ journal.evid[i].kind \in AcceptedKinds(c)
                        /\ journal.evid[i].subject = TaskSubject
                  /\ RequiredBoundaries[c] \subseteq
                        UNION {journal.evid[i].covers : i \in proof \ withdrawn}
    <3> DEFINE proof == session.permit.claim.proofs[c]
    <3>1. c \in ClaimedCriteria(session.permit.claim)
      BY <1>1 DEF FinishTask, TaskProved
    <3>2. proof # {}
      BY <3>1 DEF ClaimedCriteria
    <3>3. \A i \in proof : /\ i \notin withdrawn
                           /\ journal.evid[i] = session.evid[i]
                           /\ journal.evid[i].kind \in AcceptedKinds(c)
                           /\ journal.evid[i].subject = TaskSubject
      BY <1>1, ProofIsOnRecord
    <3>4. RequiredBoundaries[c] \subseteq
             UNION {session.evid[i].covers : i \in proof}
      BY <1>1, <3>1 DEF FinishTask, TaskProved, CriterionProofsCurrent
    <3>5. UNION {session.evid[i].covers : i \in proof} \subseteq
             UNION {journal.evid[i].covers : i \in proof \ withdrawn}
      BY <3>3
    <3>6. QED
      BY <2>1, <3>2, <3>3, <3>4, <3>5
  <2>4. QED
    BY <2>2, <2>3 DEF ProvedOnRecord
<1>2. IInv /\ [Next]_vars => [FinishTask => ProvedOnRecord]_vars
  BY <1>1
<1>3. QED
  BY <1>2, InductiveInvariant, PTL DEF Spec, CompletionAuditable
=============================================================================
