------------------------- MODULE SharedWorkflow_proofs -------------------------
(***************************************************************************)
(* Proofs about the sessions of several agents on one workflow: the        *)
(* journal and the engine agree, asserted origins are honoured, the view   *)
(* of a session is not behind its own steps, steps are counted once, and a *)
(* revocation bites, for any number of sessions, grants and steps.         *)
(*                                                                         *)
(* WorkflowInv is the inductive invariant.  One lemma per action           *)
(* (CallStepFact, CommitFact, CreditFact, ...) says what it changes; each  *)
(* conjunct has a lemma (TypeStep, RowsStep, AssertedStep, ViewStep,       *)
(* CountStep, LateStep) with one step per action.                          *)
(*                                                                         *)
(* RouteInv is the inductive invariant of the routes of one session: the   *)
(* last section.                                                           *)
(***************************************************************************)
EXTENDS MCSharedWorkflow, FiniteSetTheorems, WellFoundedInduction, TLAPS

(* The state the engine answered at revision r. *)
StateAt(w, r) == IF r = 0 THEN Start0 ELSE log[w][r].to

(* Only a running session is in a call. *)
CallsOfRunning == \A a \in Agents : call[a] # NoCall => a \in up

(* The journal agrees with the engine, lost steps were applied, and a step being
   committed is the latest of its session. *)
RowsInv ==
    /\ RowsAreOwnSteps
    /\ \A a \in Agents :
          /\ history.lost[a] \subseteq OwnSteps(a)
          /\ call[a].at = "commit" =>
                /\ call[a].revision \in OwnSteps(a) \ history.lost[a]
                /\ \A k \in OwnSteps(a) : k <= call[a].revision
(* An asserted origin is the state of the workflow at the one revision the call
   expects; past the inspection that is the revision inspected. *)
Asserted(a) ==
    /\ call[a].at \in {"resolve", "check", "inspect", "apply"} /\ call[a].asked # None =>
          \E r \in 0..Revision(Workflow(a)) :
              call[a].expected = {r} /\ call[a].asked = StateAt(Workflow(a), r)
    /\ call[a].at = "apply" => call[a].expected \subseteq {call[a].revision}
AssertedInv == AppliedFromAssertedOrigin /\ \A a \in Agents : Asserted(a)

(* The journal counts every durable step once, and a running session counts what
   its journal counts and the step it is about to credit. *)
Within(n, a) ==
    LET steps == Cardinality(RowSteps(a))
    IN steps <= n + history.uncounted[a] /\ n <= steps
Pending(a) == IF call[a].at = "credit" THEN 1 ELSE 0
CountInv ==
    /\ \A a \in Agents : Within(ReplayedCount(a), a)
    /\ \A a \in up : Within(count[a] + Pending(a), a)

(* A step or an action that passed late was past its check before; the next
   check refuses. *)
LateOnce(a) ==
    /\ history.lateSteps[a] <= 1 /\ history.lateActions[a] <= 1
    /\ history.lateSteps[a] = 1 =>
          /\ pinned[a] \in revoked \cup expired
          /\ call[a].at \notin {"inspect", "apply"}
    /\ history.lateActions[a] = 1 =>
          a \in Adopters /\ profile = "immediate" /\ call[a].at # "membership"
LateInv == \A a \in Agents : LateOnce(a)

(* The inductive invariant. *)
WorkflowInv ==
    /\ TypeOK /\ CallsOfRunning /\ RowsInv /\ AssertedInv /\ ViewIncludesOwnSteps
    /\ CountInv /\ LateInv
-----------------------------------------------------------------------------
(* The order of the naturals, as a relation. *)
Below == {p \in Nat \X Nat : p[1] < p[2]}

(* Induction over the naturals for a set instead of a predicate. *)
LEMMA NatSetInduction ==
    ASSUME NEW S, 0 \in S, \A n \in Nat : n \in S => n + 1 \in S
    PROVE  Nat \subseteq S
<1>1. IsWellFoundedOn(Below, Nat)
  BY NatLessThanWellFounded DEF OpToRel, Below
<1>2. SUFFICES ASSUME Nat \ S # {} PROVE FALSE
  OBVIOUS
<1>3. PICK x \in Nat \ S : \A y \in Nat \ S : <<y, x>> \notin Below
  BY <1>1, <1>2, WFMin
<1>4. x # 0 /\ x - 1 \in Nat /\ (x - 1) + 1 = x
  OBVIOUS
<1>5. x - 1 \in Nat \ S
  BY <1>4
<1>6. <<x - 1, x>> \in Below
  BY <1>4 DEF Below
<1> QED
  BY <1>3, <1>5, <1>6

(* A set of indices has a largest one. *)
LEMMA LastFact ==
    ASSUME NEW n \in Nat, NEW T \in SUBSET (1..n), T # {}
    PROVE  Last(T) \in T /\ \A j \in T : j <= Last(T)
<1> DEFINE S == {m \in Nat : \A U \in SUBSET (1..m) :
                    U # {} => \E k \in U : \A j \in U : j <= k}
<1>1. 0 \in S
  <2>1. 1..0 = {}
    OBVIOUS
  <2> QED BY <2>1
<1>2. ASSUME NEW m \in Nat, m \in S PROVE m + 1 \in S
  <2>1. ASSUME NEW U \in SUBSET (1..(m + 1)), U # {}
        PROVE  \E k \in U : \A j \in U : j <= k
    <3>1. CASE m + 1 \in U
      BY <3>1
    <3>2. CASE m + 1 \notin U
      <4>1. U \in SUBSET (1..m)
        BY <3>2
      <4> QED BY <4>1, <1>2, <2>1
    <3> QED BY <3>1, <3>2
  <2> QED BY <2>1
<1>3. Nat \subseteq S
  <2> HIDE DEF S
  <2> QED BY <1>1, <1>2, NatSetInduction
<1>4. \E k \in T : \A j \in T : j <= k
  BY <1>3
<1> QED BY <1>4 DEF Last
-----------------------------------------------------------------------------
(* What a well typed state gives about one agent. *)
LEMMA TypeFacts ==
    ASSUME TypeOK, NEW a \in Agents
    PROVE  /\ Workflow(a) \in Workflows
           /\ \A w \in Workflows : /\ log[w] \in Seq(Applied) /\ Revision(w) \in Nat
                                   /\ Revision(w) \in Revisions /\ State(w) \in States
           /\ Current(a) \in [state : States, revision : Revisions]
           /\ call[a] # NoCall => call[a] \in Calls
           /\ call[a].at # "idle" => call[a] \in Calls
           /\ rows[a] \in Seq(Rows) /\ Len(rows[a]) \in Nat
           /\ view[a] \in [state : States, revision : Revisions]
<1>1. Workflow(a) \in Workflows
  BY DEF Workflow, Workflows
<1>2. ASSUME NEW w \in Workflows
      PROVE  /\ log[w] \in Seq(Applied) /\ Revision(w) \in Nat
             /\ Revision(w) \in Revisions /\ State(w) \in States
  <2>1. log[w] \in Seq(Applied) /\ Revision(w) \in Revisions /\ Revision(w) \in Nat
    BY DEF TypeOK, Revision
  <2>2. log[w] # <<>> => log[w][Revision(w)] \in Applied
    BY <2>1 DEF Revision
  <2> QED BY <2>1, <2>2, WorkflowAssumption DEF State, Applied
<1>3. call[a] \in Calls \cup {NoCall} /\ rows[a] \in Seq(Rows)
  BY DEF TypeOK
<1>4. view[a] \in [state : States, revision : Revisions]
  BY DEF TypeOK
<1> QED BY <1>1, <1>2, <1>3, <1>4 DEF Current, NoCall

(* The row of the last transition names a step of the session's own workflow. *)
LEMMA ReplayedViewFact ==
    ASSUME TypeOK, RowsInv, NEW a \in Agents
    PROVE  /\ ReplayedView(a) \in [state : States, revision : Revisions]
           /\ \A k \in RowSteps(a) : ReplayedView(a).revision >= k
<1> DEFINE T == Transitions(rows[a])
<1>1. T \in SUBSET (1..Len(rows[a])) /\ Len(rows[a]) \in Nat
  BY TypeFacts DEF Transitions
<1>2. CASE T = {}
  BY <1>2, TypeFacts DEF ReplayedView, RowSteps
<1>3. CASE T # {}
  <2>1. Last(T) \in T /\ \A j \in T : j <= Last(T)
    BY <1>1, <1>3, LastFact
  <2> DEFINE r == rows[a][Last(T)].revision
  <2>2. r \in OwnSteps(a)
    BY <2>1 DEF RowsInv, RowsAreOwnSteps, RowSteps
  <2>3. /\ Workflow(a) \in Workflows /\ log[Workflow(a)] \in Seq(Applied)
        /\ Revision(Workflow(a)) \in Revisions /\ r \in 1..Revision(Workflow(a))
        /\ Len(log[Workflow(a)]) = Revision(Workflow(a))
    BY <2>2, TypeFacts DEF OwnSteps, Revision
  <2>4. log[Workflow(a)][r] \in Applied /\ r \in Revisions
    BY <2>3, WorkflowAssumption DEF Revisions
  <2>5. ReplayedView(a) = [state |-> log[Workflow(a)][r].to, revision |-> r]
    BY <1>3 DEF ReplayedView
  <2>6. ASSUME NEW k \in RowSteps(a) PROVE r >= k
    <3>1. PICK j \in T : k = rows[a][j].revision
      BY DEF RowSteps
    <3>2. j < Last(T) => rows[a][j].revision < r
      BY <2>1, <3>1 DEF RowsInv, RowsAreOwnSteps
    <3>3. rows[a][j].revision \in Nat /\ r \in Nat
      <4>1. rows[a][j] \in Rows /\ rows[a][Last(T)] \in Rows
        BY <1>1, <2>1, <3>1, TypeFacts DEF TypeOK
      <4> QED BY <4>1, WorkflowAssumption DEF Rows, Revisions
    <3>4. j \in Nat /\ Last(T) \in Nat /\ j <= Last(T)
      BY <1>1, <2>1, <3>1
    <3> QED BY <3>1, <3>2, <3>3, <3>4
  <2> HIDE DEF r, T
  <2> QED BY <2>4, <2>5, <2>6 DEF Applied
<1> QED BY <1>2, <1>3

(* A fresh host process is well typed. *)
LEMMA TypeInit == Init => TypeOK
<1> SUFFICES ASSUME Init PROVE TypeOK
  OBVIOUS
<1>1. log \in [Workflows -> Seq(Applied)] /\ \A w \in Workflows : Revision(w) \in Revisions
  BY WorkflowAssumption DEF Init, Revision, Revisions
<1>2. view \in [Agents -> [state : States, revision : Revisions]]
  BY WorkflowAssumption DEF Init, NoView, Revisions
<1>3. call \in [Agents -> Calls \cup {NoCall}] /\ rows \in [Agents -> Seq(Rows)]
  BY DEF Init
<1>4. history \in [lost : [Agents -> SUBSET Revisions], uncounted : [Agents -> Nat],
                    lateSteps : [Agents -> Nat], lateActions : [Agents -> Nat]]
  BY DEF Init
<1> QED BY <1>1, <1>2, <1>3, <1>4, WorkflowAssumption DEF Init, TypeOK

(* The host's actions touch the authorities only. *)
HostStep ==
    \/ \E g \in Grants : Issue(g) \/ Revoke(g) \/ Expire(g)
    \/ \E mode \in {"deferred", "immediate"} : RevokeProfile(mode)

(* Steps of a call that change nothing but the call. *)
CallStep(a) ==
    \/ \E asserted \in BOOLEAN, to \in States : RequestTransition(a, asserted, to)
    \/ ResolveLegacyStep(a)
    \/ \E s \in Steps, e \in SUBSET {view[a].revision} : RequestStep(a, s, e)
    \/ CheckMembership(a)
    \/ InspectWorkflow(a)
    \/ Refused(a)
    \/ CheckRevocation(a)

(* The host withdraws grants and profiles and never gives one back. *)
LEMMA HostStepFact ==
    ASSUME TypeOK, HostStep
    PROVE  /\ UNCHANGED <<log, pinned, session, rows, faults, history>>
           /\ {issued', revoked', expired'} \subseteq SUBSET Grants /\ revoked' \subseteq issued'
           /\ profile' \in {"current", "deferred", "immediate"}
           /\ revoked \subseteq revoked' /\ expired \subseteq expired'
           /\ profile = "immediate" => profile' = "immediate"
BY DEF HostStep, Issue, Revoke, Expire, RevokeProfile, TypeOK, session

(* A step inside a call leaves everything but the call as it is. *)
LEMMA CallStepFact ==
    ASSUME TypeOK, NEW a \in Agents, CallStep(a), CallsOfRunning
    PROVE  /\ UNCHANGED <<log, issued, revoked, expired, profile, pinned, up, view, count,
                          rows, faults, history>>
           /\ a \in up
           /\ call[a].at \notin {"commit", "credit"}
           /\ call' = [call EXCEPT ![a] = call'[a]]
           /\ call'[a] \in Calls \cup {NoCall}
           /\ call'[a].at \notin {"commit", "credit"}
<1> USE DEF Goto
<1>1. /\ Workflow(a) \in Workflows /\ State(Workflow(a)) \in States
      /\ Revision(Workflow(a)) \in Revisions
      /\ call[a].at # "idle" => call[a] \in Calls
      /\ view[a].revision \in Revisions
      /\ 0 \in Revisions
  BY TypeFacts, WorkflowAssumption DEF Revisions
<1>2. UNCHANGED <<log, issued, revoked, expired, profile, pinned, up, view, count, rows,
                  faults, history>>
  BY DEF CallStep, RequestTransition, ResolveLegacyStep, RequestStep, CheckMembership,
         InspectWorkflow, Refused, CheckRevocation
<1>3. a \in up /\ call[a].at \notin {"commit", "credit"}
  BY DEF CallStep, RequestTransition, ResolveLegacyStep, RequestStep, CheckMembership,
         InspectWorkflow, Refused, CheckRevocation, CallsOfRunning, NoCall
<1>4. DOMAIN call = Agents
  BY DEF TypeOK
<1>5. ASSUME NEW c \in Calls \cup {NoCall}, call' = [call EXCEPT ![a] = c],
             c.at \notin {"commit", "credit"}
      PROVE  /\ call' = [call EXCEPT ![a] = call'[a]]
             /\ call'[a] \in Calls \cup {NoCall}
             /\ call'[a].at \notin {"commit", "credit"}
  BY <1>4, <1>5
<1>6. NoCall \in Calls \cup {NoCall} /\ NoCall.at \notin {"commit", "credit"}
  BY DEF NoCall
<1>7. CASE \E asserted \in BOOLEAN, to \in States : RequestTransition(a, asserted, to)
  <2>1. PICK asserted \in BOOLEAN, to \in States : RequestTransition(a, asserted, to)
    BY <1>7
  <2> DEFINE c == [at |-> "resolve", asked |-> IF asserted THEN State(Workflow(a)) ELSE None,
                   to |-> to, from |-> None, expected |-> Expected(a), revision |-> 0]
  <2>2. c \in Calls /\ c.at = "resolve"
    BY <1>1 DEF Calls, Expected
  <2>3. call' = [call EXCEPT ![a] = c]
    BY <2>1 DEF RequestTransition
  <2> HIDE DEF c
  <2> QED BY <1>2, <1>3, <1>5, <2>2, <2>3
<1>8. CASE ResolveLegacyStep(a)
  <2> DEFINE c == [call[a] EXCEPT !.at = "check", !.from = State(Workflow(a))]
  <2>1. c \in Calls /\ c.at = "check"
    BY <1>1, <1>8 DEF ResolveLegacyStep, Calls
  <2>2. call' = [call EXCEPT ![a] = c]
    BY <1>8 DEF ResolveLegacyStep
  <2> HIDE DEF c
  <2> QED BY <1>2, <1>3, <1>5, <2>1, <2>2
<1>9. CASE \E s \in Steps, e \in SUBSET {view[a].revision} : RequestStep(a, s, e)
  <2>1. PICK s \in Steps, e \in SUBSET {view[a].revision} : RequestStep(a, s, e)
    BY <1>9
  <2> DEFINE c == [at |-> "check", asked |-> None, to |-> s.to, from |-> s.from,
                   expected |-> e, revision |-> 0]
  <2>2. c \in Calls /\ c.at = "check"
    BY <1>1 DEF Calls, Steps
  <2>3. call' = [call EXCEPT ![a] = c]
    BY <2>1 DEF RequestStep
  <2> HIDE DEF c
  <2> QED BY <1>2, <1>3, <1>5, <2>2, <2>3
<1>10. CASE CheckMembership(a)
  <2> DEFINE c == [call[a] EXCEPT !.at = "inspect"]
  <2>1. c \in Calls /\ c.at = "inspect"
    BY <1>1, <1>10 DEF CheckMembership, Calls
  <2>2. call' = [call EXCEPT ![a] = c] \/ call' = [call EXCEPT ![a] = NoCall]
    BY <1>10 DEF CheckMembership
  <2> HIDE DEF c
  <2> QED BY <1>2, <1>3, <1>5, <1>6, <2>1, <2>2
<1>11. CASE InspectWorkflow(a)
  <2> DEFINE c == [call[a] EXCEPT !.at = "apply", !.revision = Revision(Workflow(a))]
  <2>1. c \in Calls /\ c.at = "apply"
    BY <1>1, <1>11 DEF InspectWorkflow, Calls
  <2>2. call' = [call EXCEPT ![a] = c] \/ call' = [call EXCEPT ![a] = NoCall]
    BY <1>11 DEF InspectWorkflow
  <2> HIDE DEF c
  <2> QED BY <1>2, <1>3, <1>5, <1>6, <2>1, <2>2
<1>12. CASE Refused(a)
  BY <1>12, <1>2, <1>3, <1>5, <1>6 DEF Refused
<1>13. CASE CheckRevocation(a)
  <2> DEFINE c == [call[a] EXCEPT !.at = "membership"]
  <2>1. c \in Calls /\ c.at = "membership"
    BY <1>1, <1>13 DEF CheckRevocation, Calls
  <2>2. call' = [call EXCEPT ![a] = c] \/ call' = [call EXCEPT ![a] = NoCall]
    BY <1>13 DEF CheckRevocation
  <2> HIDE DEF c
  <2> QED BY <1>2, <1>3, <1>5, <1>6, <2>1, <2>2
<1> QED BY <1>7, <1>8, <1>9, <1>10, <1>11, <1>12, <1>13 DEF CallStep

(* The type of the history. *)
Histories == [lost : [Agents -> SUBSET Revisions], uncounted : [Agents -> Nat],
              lateSteps : [Agents -> Nat], lateActions : [Agents -> Nat]]

(* The history keeps its shape, one field of one agent at a time. *)
LEMMA HistoryFact ==
    ASSUME NEW h \in Histories, NEW a \in Agents
    PROVE  /\ \A S \in SUBSET Revisions : [h EXCEPT !.lost[a] = S] \in Histories
           /\ \A n \in Nat : /\ [h EXCEPT !.uncounted[a] = n] \in Histories
                             /\ [h EXCEPT !.lateSteps[a] = n] \in Histories
                             /\ [h EXCEPT !.lateActions[a] = n] \in Histories
<1>1. ASSUME NEW S \in SUBSET Revisions PROVE [h EXCEPT !.lost[a] = S] \in Histories
  <2>1. [h EXCEPT !.lost[a] = S] = [h EXCEPT !.lost = [h.lost EXCEPT ![a] = S]]
    BY DEF Histories
  <2>2. [h.lost EXCEPT ![a] = S] \in [Agents -> SUBSET Revisions]
    BY DEF Histories
  <2> QED BY <2>1, <2>2 DEF Histories
<1>2. ASSUME NEW n \in Nat
      PROVE  /\ [h EXCEPT !.uncounted[a] = n] \in Histories
             /\ [h EXCEPT !.lateSteps[a] = n] \in Histories
             /\ [h EXCEPT !.lateActions[a] = n] \in Histories
  <2>1. /\ [h EXCEPT !.uncounted[a] = n] = [h EXCEPT !.uncounted = [h.uncounted EXCEPT ![a] = n]]
        /\ [h EXCEPT !.lateSteps[a] = n] = [h EXCEPT !.lateSteps = [h.lateSteps EXCEPT ![a] = n]]
        /\ [h EXCEPT !.lateActions[a] = n] = [h EXCEPT !.lateActions = [h.lateActions EXCEPT ![a] = n]]
    BY DEF Histories
  <2>2. /\ [h.uncounted EXCEPT ![a] = n] \in [Agents -> Nat]
        /\ [h.lateSteps EXCEPT ![a] = n] \in [Agents -> Nat]
        /\ [h.lateActions EXCEPT ![a] = n] \in [Agents -> Nat]
    BY DEF Histories
  <2> QED BY <2>1, <2>2 DEF Histories
<1> QED BY <1>1, <1>2

(* What a resume reads from the journal is a number. *)
LEMMA ReplayedCountType ==
    ASSUME TypeOK, NEW a \in Agents
    PROVE  ReplayedCount(a) \in Nat
<1> DEFINE base == IF Counts(rows[a]) = {} THEN 0 ELSE Last(Counts(rows[a]))
           tail == {k \in Transitions(rows[a]) : k > base}
<1>1. rows[a] \in Seq(Rows) /\ Len(rows[a]) \in Nat
  BY TypeFacts
<1>2. Counts(rows[a]) \in SUBSET (1..Len(rows[a])) /\ tail \in SUBSET (1..Len(rows[a]))
  BY DEF Counts, Transitions
<1>3. Cardinality(tail) \in Nat
  <2> HIDE DEF tail
  <2>1. IsFiniteSet(1..Len(rows[a]))
    BY <1>1, FS_Interval
  <2>2. IsFiniteSet(tail)
    BY <2>1, <1>2, FS_Subset
  <2> QED BY <2>2, FS_CardinalityType
<1>4. base = 0 \/ base \in 1..Len(rows[a])
  <2>1. CASE Counts(rows[a]) # {}
    <3>1. Last(Counts(rows[a])) \in Counts(rows[a])
      BY <1>1, <1>2, <2>1, LastFact
    <3> QED BY <3>1, <1>2
  <2> QED BY <2>1
<1>5. base # 0 => rows[a][base].number \in Nat
  <2> HIDE DEF base
  <2>1. ASSUME base \in 1..Len(rows[a]) PROVE rows[a][base] \in Rows
    BY <1>1, <2>1
  <2> QED BY <1>4, <2>1 DEF Rows
<1>6. ReplayedCount(a) = (IF base = 0 THEN 0 ELSE rows[a][base].number) + Cardinality(tail)
  BY DEF ReplayedCount
<1> HIDE DEF base, tail
<1> QED BY <1>3, <1>5, <1>6

(* Every action keeps the types, and only a running session is in a call. *)
LEMMA TypeStep ==
    ASSUME TypeOK, CallsOfRunning, RowsInv, [Next]_vars
    PROVE  TypeOK' /\ CallsOfRunning'
<1>0. /\ MaxRevision \in Nat /\ MaxFaults \in Nat /\ Start0 \in States
      /\ 0 \in Revisions /\ Revisions \subseteq Nat
      /\ history \in Histories
  BY WorkflowAssumption DEF Revisions, TypeOK, Histories
<1>1. CASE UNCHANGED vars
  BY <1>1 DEF vars, TypeOK, CallsOfRunning, Revision
<1>2. CASE HostStep
  BY <1>2, HostStepFact DEF session, TypeOK, CallsOfRunning, Revision
<1>3. ASSUME NEW a \in Agents, CallStep(a) PROVE TypeOK' /\ CallsOfRunning'
  <2>1. call' \in [Agents -> Calls \cup {NoCall}]
    BY <1>3, CallStepFact DEF TypeOK
  <2>2. CallsOfRunning'
    BY <1>3, CallStepFact DEF CallsOfRunning, TypeOK
  <2> QED BY <1>3, <2>1, <2>2, CallStepFact DEF TypeOK, Revision
<1>4. ASSUME NEW a \in Agents, StartTask(a) \/ ResumeTask(a) PROVE TypeOK' /\ CallsOfRunning'
  <2>1. /\ UNCHANGED <<log, issued, revoked, expired, profile, pinned, call, faults>>
        /\ up' = up \cup {a}
    BY <1>4 DEF StartTask, ResumeTask, Begin, authorities
  <2>2. view' \in [Agents -> [state : States, revision : Revisions]]
    <3>1. Current(a) \in [state : States, revision : Revisions]
      BY TypeFacts
    <3>2. ReplayedView(a) \in [state : States, revision : Revisions]
      BY ReplayedViewFact
    <3> QED BY <1>4, <3>1, <3>2 DEF StartTask, ResumeTask, Begin, TypeOK
  <2>3. count' \in [Agents -> Nat]
    <3>1. ReplayedCount(a) \in Nat
      BY ReplayedCountType
    <3>2. count' = [count EXCEPT ![a] = 0] \/ count' = [count EXCEPT ![a] = ReplayedCount(a)]
      BY <1>4 DEF StartTask, ResumeTask, Begin
    <3>3. count \in [Agents -> Nat]
      BY DEF TypeOK
    <3> QED BY <3>1, <3>2, <3>3
  <2>4. rows' \in [Agents -> Seq(Rows)]
    <3>1. <<Row("started", 0, 0)>> \in Seq(Rows)
      BY <1>0 DEF Row, Rows
    <3> QED BY <1>4, <3>1 DEF StartTask, ResumeTask, TypeOK
  <2>5. history' \in Histories
    <3>1. [history EXCEPT !.lateSteps[a] = 0] \in Histories
      BY <1>0, HistoryFact
    <3>2. [[history EXCEPT !.lateSteps[a] = 0] EXCEPT !.lateActions[a] = 0] \in Histories
      BY <3>1, HistoryFact
    <3>3. history' = [history EXCEPT !.lateSteps[a] = 0, !.lateActions[a] = 0]
      BY <1>4 DEF StartTask, ResumeTask, Begin
    <3> QED BY <3>2, <3>3
  <2>6. CallsOfRunning'
    BY <2>1 DEF CallsOfRunning
  <2> QED BY <2>1, <2>2, <2>3, <2>4, <2>5, <2>6 DEF TypeOK, Revision, Histories
<1>5. ASSUME NEW a \in Agents, ApplyStep(a) PROVE TypeOK' /\ CallsOfRunning'
  <2> DEFINE w == Workflow(a)
             c == call[a]
             e == [agent |-> a, asked |-> c.asked, from |-> c.from, to |-> c.to]
             d == [c EXCEPT !.at = "commit", !.revision = c.revision + 1]
  <2>1. /\ c \in Calls /\ w \in Workflows /\ log[w] \in Seq(Applied)
        /\ c.revision = Revision(w) /\ Revision(w) < MaxRevision /\ c.from = State(w)
        /\ State(w) \in States /\ a \in up
    BY <1>5, TypeFacts DEF ApplyStep, CallsOfRunning, NoCall
  <2>2. e \in Applied
    BY <2>1 DEF Calls, Applied
  <2>3. d \in Calls
    <3>1. c.revision \in Nat /\ c.revision + 1 \in Revisions
      BY <2>1, <1>0 DEF Calls, Revisions
    <3> QED BY <2>1, <3>1 DEF Calls
  <2>4. log' = [log EXCEPT ![w] = Append(log[w], e)] /\ call' = [call EXCEPT ![a] = d]
    BY <1>5 DEF ApplyStep, Goto, TypeOK
  <2>5. /\ UNCHANGED <<issued, revoked, expired, profile, pinned, up, view, count, rows, faults>>
        /\ history' = [history EXCEPT !.lateSteps[a] = history.lateSteps[a] + 1] \/ history' = history
    BY <1>5 DEF ApplyStep, Goto
  <2>10. history' \in Histories
    <3>1. history.lateSteps[a] + 1 \in Nat
      BY <1>0 DEF Histories
    <3>2. [history EXCEPT !.lateSteps[a] = history.lateSteps[a] + 1] \in Histories
      BY <3>1, <1>0, HistoryFact
    <3> QED BY <2>5, <3>2, <1>0
  <2> HIDE DEF w, c, e, d
  <2>6. Append(log[w], e) \in Seq(Applied) /\ Len(Append(log[w], e)) = Len(log[w]) + 1
    BY <2>1, <2>2
  <2>7. \A v \in Workflows : Revision(v)' \in Revisions
    <3>1. ASSUME NEW v \in Workflows PROVE Revision(v)' \in Revisions
      <4>1. CASE v = w
        BY <4>1, <2>1, <2>4, <2>6, <1>0 DEF Revision, Revisions, TypeOK
      <4>2. CASE v # w
        BY <4>2, <2>4 DEF Revision, TypeOK
      <4> QED BY <4>1, <4>2
    <3> QED BY <3>1
  <2>8. log' \in [Workflows -> Seq(Applied)] /\ call' \in [Agents -> Calls \cup {NoCall}]
    BY <2>1, <2>3, <2>4, <2>6 DEF TypeOK
  <2>9. CallsOfRunning'
    BY <2>1, <2>4, <2>5 DEF CallsOfRunning, TypeOK
  <2> QED BY <2>5, <2>7, <2>8, <2>9, <2>10 DEF TypeOK, Histories
<1>6. ASSUME NEW a \in Agents,
             CommitStep(a) \/ \E kept \in BOOLEAN : CommitStepFails(a, kept)
      PROVE  TypeOK' /\ CallsOfRunning'
  <2> DEFINE c == call[a]
             d == [c EXCEPT !.at = "credit"]
  <2>1. c \in Calls /\ c.at = "commit" /\ a \in up
    BY <1>6, TypeFacts DEF CommitStep, CommitStepFails, CallsOfRunning, NoCall
  <2>2. Seen(c) \in [state : States, revision : Revisions] /\ TransitionRow(c) \in Rows
    BY <2>1 DEF Seen, TransitionRow, Row, Rows, Calls
  <2>3. d \in Calls
    BY <2>1 DEF Calls
  <2>4. /\ UNCHANGED <<log, issued, revoked, expired, profile, pinned, up, count>>
        /\ view' = [view EXCEPT ![a] = Seen(c)]
        /\ rows' = [rows EXCEPT ![a] = Append(rows[a], TransitionRow(c))] \/ rows' = rows
        /\ call' = [call EXCEPT ![a] = d] \/ call' = [call EXCEPT ![a] = NoCall]
    BY <1>6 DEF CommitStep, CommitStepFails, Goto, TypeOK
  <2>5. faults' \in 0..MaxFaults
    BY <1>6, <1>0 DEF CommitStep, CommitStepFails, TypeOK
  <2>6. history' \in Histories
    <3>1. c.revision \in Revisions
      BY <2>1 DEF Calls
    <3>2. /\ history.uncounted[a] + 1 \in Nat
          /\ history.lost[a] \cup {c.revision} \in SUBSET Revisions
      BY <3>1, <1>0 DEF Histories
    <3>3. \/ history' = history
          \/ history' = [history EXCEPT !.uncounted[a] = history.uncounted[a] + 1]
          \/ history' = [history EXCEPT !.lost[a] = history.lost[a] \cup {c.revision}]
      BY <1>6 DEF CommitStep, CommitStepFails
    <3>4. [history EXCEPT !.uncounted[a] = history.uncounted[a] + 1] \in Histories
      BY <3>2, <1>0, HistoryFact
    <3>5. [history EXCEPT !.lost[a] = history.lost[a] \cup {c.revision}] \in Histories
      BY <3>2, <1>0, HistoryFact
    <3> QED BY <3>3, <3>4, <3>5, <1>0
  <2> HIDE DEF c, d
  <2>7. Append(rows[a], TransitionRow(c)) \in Seq(Rows)
    BY <2>2, TypeFacts
  <2>8. /\ view' \in [Agents -> [state : States, revision : Revisions]]
        /\ rows' \in [Agents -> Seq(Rows)] /\ call' \in [Agents -> Calls \cup {NoCall}]
    <3>1. view' \in [Agents -> [state : States, revision : Revisions]]
      BY <2>2, <2>4 DEF TypeOK
    <3>2. rows' \in [Agents -> Seq(Rows)]
      BY <2>4, <2>7 DEF TypeOK
    <3>3. call' \in [Agents -> Calls \cup {NoCall}]
      BY <2>3, <2>4 DEF TypeOK
    <3> QED BY <3>1, <3>2, <3>3
  <2>9. CallsOfRunning'
    BY <2>1, <2>4 DEF CallsOfRunning, TypeOK
  <2> QED BY <2>4, <2>5, <2>6, <2>8, <2>9 DEF TypeOK, Revision, Histories
<1>7. ASSUME NEW a \in Agents, CreditStep(a) \/ CreditStepFails(a)
      PROVE  TypeOK' /\ CallsOfRunning'
  <2>1. count[a] + 1 \in Nat /\ CountRow(count[a] + 1) \in Rows
    BY <1>0 DEF TypeOK, CountRow, Row, Rows
  <2>2. Append(rows[a], CountRow(count[a] + 1)) \in Seq(Rows)
    BY <2>1, TypeFacts
  <2>3. /\ UNCHANGED <<log, issued, revoked, expired, profile, pinned, up, view, history>>
        /\ count' = [count EXCEPT ![a] = count[a] + 1]
        /\ \/ rows' = [rows EXCEPT ![a] = Append(rows[a], CountRow(count[a] + 1))]
           \/ rows' = rows
        /\ call' = [call EXCEPT ![a] = NoCall]
        /\ faults' \in 0..MaxFaults
    BY <1>7, <1>0 DEF CreditStep, CreditStepFails, Goto, TypeOK
  <2>4. /\ count' \in [Agents -> Nat] /\ rows' \in [Agents -> Seq(Rows)]
        /\ call' \in [Agents -> Calls \cup {NoCall}]
    BY <2>1, <2>2, <2>3 DEF TypeOK
  <2>5. CallsOfRunning'
    BY <2>3 DEF CallsOfRunning, TypeOK
  <2> QED BY <2>3, <2>4, <2>5 DEF TypeOK, Revision
<1>8. ASSUME NEW a \in Agents, AuthoritativeStateReady(a) PROVE TypeOK' /\ CallsOfRunning'
  <2> DEFINE d == [at |-> "revocation", asked |-> None, to |-> Start0, from |-> None,
                   expected |-> {}, revision |-> 0]
  <2>1. d \in Calls
    BY <1>0 DEF Calls
  <2>2. /\ UNCHANGED <<log, issued, revoked, expired, profile, pinned, up, count, rows, faults, history>>
        /\ view' = [view EXCEPT ![a] = Current(a)] /\ a \in up
        /\ call' = [call EXCEPT ![a] = d]
    BY <1>8 DEF AuthoritativeStateReady, Goto
  <2> HIDE DEF d
  <2>3. /\ view' \in [Agents -> [state : States, revision : Revisions]]
        /\ call' \in [Agents -> Calls \cup {NoCall}]
    BY <2>1, <2>2, TypeFacts DEF TypeOK
  <2>4. CallsOfRunning'
    BY <2>2 DEF CallsOfRunning, TypeOK
  <2> QED BY <2>2, <2>3, <2>4 DEF TypeOK, Revision
<1>9. ASSUME NEW a \in Agents, GateMembership(a) PROVE TypeOK' /\ CallsOfRunning'
  <2>1. /\ UNCHANGED <<log, issued, revoked, expired, profile, pinned, up, view, count, rows, faults>>
        /\ call' = [call EXCEPT ![a] = NoCall]
        /\ \/ history' = [history EXCEPT !.lateActions[a] = history.lateActions[a] + 1]
           \/ history' = history
    BY <1>9 DEF GateMembership, Goto
  <2>2. history' \in Histories
    <3>1. history.lateActions[a] + 1 \in Nat
      BY <1>0 DEF Histories
    <3>2. [history EXCEPT !.lateActions[a] = history.lateActions[a] + 1] \in Histories
      BY <3>1, <1>0, HistoryFact
    <3> QED BY <2>1, <3>2, <1>0
  <2> QED BY <2>1, <2>2 DEF TypeOK, Revision, CallsOfRunning, Histories
<1>10. CASE HostCrash
  <2>1. /\ UNCHANGED <<log, expired, profile, pinned, rows>>
        /\ up' = {} /\ issued' = {} /\ revoked' = {}
        /\ count' \in [Agents -> Nat] /\ call' = [b \in Agents |-> NoCall]
        /\ faults' \in 0..MaxFaults
    BY <1>10, <1>0 DEF HostCrash, TypeOK
  <2>2. view' \in [Agents -> [state : States, revision : Revisions]]
    BY <1>10, <1>0 DEF HostCrash, NoView
  <2>3. history' \in Histories
    <3>1. \A b \in Agents : call[b].at = "commit" => call[b].revision \in Revisions
      BY TypeFacts DEF Calls
    <3> QED BY <1>10, <3>1, <1>0 DEF HostCrash, Histories
  <2> QED BY <2>1, <2>2, <2>3 DEF TypeOK, Revision, CallsOfRunning, Histories
<1> QED
  BY <1>1, <1>2, <1>3, <1>4, <1>5, <1>6, <1>7, <1>8, <1>9, <1>10 DEF Next, HostStep, CallStep
-----------------------------------------------------------------------------
(* One more row. *)
LEMMA AppendRow ==
    ASSUME NEW rs \in Seq(Rows), NEW r \in Rows
    PROVE  /\ Transitions(Append(rs, r)) =
                 Transitions(rs) \cup (IF r.kind = "transition" THEN {Len(rs) + 1} ELSE {})
           /\ Counts(Append(rs, r)) =
                 Counts(rs) \cup (IF r.kind = "convergence" THEN {Len(rs) + 1} ELSE {})
           /\ \A k \in 1..Len(rs) : Append(rs, r)[k] = rs[k]
           /\ Append(rs, r)[Len(rs) + 1] = r
           /\ Transitions(rs) \subseteq 1..Len(rs) /\ Counts(rs) \subseteq 1..Len(rs)
<1>1. Len(Append(rs, r)) = Len(rs) + 1 /\ Len(rs) \in Nat
  OBVIOUS
<1>2. 1..(Len(rs) + 1) = (1..Len(rs)) \cup {Len(rs) + 1}
  BY <1>1
<1>3. /\ \A k \in 1..Len(rs) : Append(rs, r)[k] = rs[k]
      /\ Append(rs, r)[Len(rs) + 1] = r
  OBVIOUS
<1> QED BY <1>1, <1>2, <1>3 DEF Transitions, Counts

(* The same steps, the same transition rows. *)
LEMMA RowsUntouched ==
    ASSUME RowsInv, UNCHANGED <<log, pinned>>, history'.lost = history.lost,
           \A b \in Agents :
              /\ call'[b].at = "commit" <=> call[b].at = "commit"
              /\ call[b].at = "commit" => call'[b].revision = call[b].revision
              /\ Transitions(rows'[b]) = Transitions(rows[b])
              /\ \A k \in Transitions(rows[b]) : rows'[b][k] = rows[b][k]
    PROVE  RowsInv'
<1>1. ASSUME NEW b \in Agents
      PROVE  /\ OwnSteps(b)' = OwnSteps(b) /\ InCommit(b)' = InCommit(b)
             /\ RowSteps(b)' = RowSteps(b)
  BY DEF OwnSteps, InCommit, RowSteps, Workflow, Revision
<1>2. RowsAreOwnSteps'
  <2>1. ASSUME NEW b \in Agents
        PROVE  RowSteps(b)' = OwnSteps(b)' \ (history.lost[b]' \cup InCommit(b)')
    BY <1>1 DEF RowsInv, RowsAreOwnSteps
  <2>2. ASSUME NEW b \in Agents, NEW j \in Transitions(rows'[b]), NEW k \in Transitions(rows'[b]), j < k
        PROVE  rows'[b][j].revision < rows'[b][k].revision
    BY <2>2 DEF RowsInv, RowsAreOwnSteps
  <2> QED BY <2>1, <2>2 DEF RowsAreOwnSteps
<1> QED BY <1>1, <1>2 DEF RowsInv

(* An applied step is one more step of its own session. *)
LEMMA AppliedOwnStep ==
    ASSUME TypeOK, NEW a \in Agents, ApplyStep(a), NEW b \in Agents
    PROVE  /\ OwnSteps(b)' = OwnSteps(b) \cup (IF b = a THEN {Revision(Workflow(a)) + 1} ELSE {})
           /\ \A k \in OwnSteps(b) : k \in Nat /\ k <= Revision(Workflow(b))
           /\ Revision(Workflow(b)) \in Nat
           /\ call' = [call EXCEPT ![a] = call'[a]]
           /\ call'[a].at = "commit" /\ call'[a].revision = Revision(Workflow(a)) + 1
           /\ UNCHANGED <<pinned, rows, up, view, count>> /\ history'.lost = history.lost
           /\ history'.uncounted = history.uncounted
<1> DEFINE w == Workflow(a)
           e == [agent |-> a, asked |-> call[a].asked, from |-> call[a].from, to |-> call[a].to]
<1>1. /\ log' = [log EXCEPT ![w] = Append(log[w], e)] /\ w \in Workflows
      /\ pinned' = pinned /\ log \in [Workflows -> Seq(Applied)]
      /\ Workflow(b) \in Workflows /\ call[a] \in Calls
    BY TypeFacts DEF ApplyStep, Goto, TypeOK
<1>2. /\ call' = [call EXCEPT ![a] = [call[a] EXCEPT !.at = "commit", !.revision = call[a].revision + 1]]
      /\ call[a].revision = Revision(w) /\ DOMAIN call = Agents
  BY DEF ApplyStep, Goto, TypeOK
<1>3. /\ call' = [call EXCEPT ![a] = call'[a]]
      /\ call'[a].at = "commit" /\ call'[a].revision = Revision(w) + 1
  BY <1>1, <1>2 DEF Calls
<1>4. UNCHANGED <<rows, up, view, count>>
  BY DEF ApplyStep, Goto
<1>5. history'.lost = history.lost /\ history'.uncounted = history.uncounted
  BY DEF ApplyStep, TypeOK
<1>6. e.agent = a
  OBVIOUS
<1> HIDE DEF w, e
<1>7. OwnSteps(b)' = {k \in 1..Len(log'[Workflow(b)]) : log'[Workflow(b)][k].agent = b}
  BY <1>1 DEF OwnSteps, Workflow, Revision
<1>8. OwnSteps(b) = {k \in 1..Len(log[Workflow(b)]) : log[Workflow(b)][k].agent = b}
  BY DEF OwnSteps, Revision
<1>9. CASE Workflow(b) # w
  BY <1>1, <1>3, <1>4, <1>5, <1>7, <1>8, <1>9 DEF w, Revision
<1>10. CASE Workflow(b) = w
  <2>1. /\ log'[w] = Append(log[w], e) /\ Len(log'[w]) = Len(log[w]) + 1 /\ Len(log[w]) \in Nat
        /\ \A k \in 1..Len(log[w]) : log'[w][k] = log[w][k]
        /\ log'[w][Len(log[w]) + 1] = e
    BY <1>1
  <2>2. 1..(Len(log[w]) + 1) = (1..Len(log[w])) \cup {Len(log[w]) + 1}
    BY <2>1
  <2>3. Revision(Workflow(a)) = Len(log[w])
    BY DEF Revision, w
  <2>4. OwnSteps(b)' = OwnSteps(b) \cup (IF b = a THEN {Len(log[w]) + 1} ELSE {})
    BY <1>6, <1>7, <1>8, <1>10, <2>1, <2>2
  <2> QED BY <1>1, <1>3, <1>4, <1>5, <1>8, <1>10, <2>1, <2>3, <2>4 DEF w, Revision
<1> QED BY <1>9, <1>10

(* The other actions, as far as steps and rows are concerned. *)
LEMMA CommitFact ==
    ASSUME TypeOK, CallsOfRunning, NEW a \in Agents,
           CommitStep(a) \/ \E kept \in BOOLEAN : CommitStepFails(a, kept)
    PROVE  /\ UNCHANGED <<log, pinned, up, count>> /\ a \in up
           /\ call[a].at = "commit" /\ call[a] \in Calls /\ call[a].revision \in Nat
           /\ call' = [call EXCEPT ![a] = call'[a]] /\ call'[a].at # "commit"
           /\ view' = [view EXCEPT ![a] = view'[a]] /\ view'[a].revision = call[a].revision
           /\ \/ /\ rows' = [rows EXCEPT ![a] = Append(rows[a], TransitionRow(call[a]))]
                 /\ history'.lost = history.lost
                 /\ \/ call'[a].at = "credit" /\ history'.uncounted = history.uncounted
                    \/ /\ call'[a].at = "idle"
                       /\ history'.uncounted = [history.uncounted EXCEPT ![a] = @ + 1]
              \/ /\ rows' = rows /\ call'[a].at = "idle"
                 /\ history'.lost = [history.lost EXCEPT ![a] = @ \cup {call[a].revision}]
                 /\ history'.uncounted = history.uncounted
<1>1. call[a].at = "commit" /\ call[a] \in Calls /\ a \in up
  BY TypeFacts DEF CommitStep, CommitStepFails, CallsOfRunning, NoCall
<1>2. call[a].revision \in Nat
  BY <1>1, WorkflowAssumption DEF Calls, Revisions
<1>3. UNCHANGED <<log, pinned, up, count>> /\ DOMAIN call = Agents /\ DOMAIN view = Agents
  BY DEF CommitStep, CommitStepFails, Goto, TypeOK
<1>4. view' = [view EXCEPT ![a] = Seen(call[a])]
  BY DEF CommitStep, CommitStepFails
<1>5. view' = [view EXCEPT ![a] = view'[a]] /\ view'[a].revision = call[a].revision
  BY <1>3, <1>4 DEF Seen
<1>6. history \in Histories
  BY DEF TypeOK, Histories
<1>7. CASE CommitStep(a)
  <2>1. call' = [call EXCEPT ![a] = [call[a] EXCEPT !.at = "credit"]]
    BY <1>7 DEF CommitStep, Goto
  <2>2. call' = [call EXCEPT ![a] = call'[a]] /\ call'[a].at = "credit"
    BY <1>1, <1>3, <2>1 DEF Calls
  <2>3. rows' = [rows EXCEPT ![a] = Append(rows[a], TransitionRow(call[a]))] /\ history' = history
    BY <1>7 DEF CommitStep
  <2> QED BY <1>1, <1>2, <1>3, <1>5, <2>2, <2>3
<1>8. ASSUME NEW kept \in BOOLEAN, CommitStepFails(a, kept)
      PROVE  /\ call' = [call EXCEPT ![a] = call'[a]] /\ call'[a].at = "idle"
             /\ \/ /\ rows' = [rows EXCEPT ![a] = Append(rows[a], TransitionRow(call[a]))]
                   /\ history'.lost = history.lost
                   /\ history'.uncounted = [history.uncounted EXCEPT ![a] = @ + 1]
                \/ /\ rows' = rows
                   /\ history'.lost = [history.lost EXCEPT ![a] = @ \cup {call[a].revision}]
                   /\ history'.uncounted = history.uncounted
  <2>1. call' = [call EXCEPT ![a] = NoCall]
    BY <1>8 DEF CommitStepFails, Goto
  <2>2. call' = [call EXCEPT ![a] = call'[a]] /\ call'[a].at = "idle"
    BY <1>3, <2>1 DEF NoCall
  <2>3. CASE kept
    BY <1>6, <1>8, <2>2, <2>3 DEF CommitStepFails, Histories
  <2>4. CASE ~kept
    BY <1>6, <1>8, <2>2, <2>4 DEF CommitStepFails, Histories
  <2> QED BY <2>3, <2>4
<1> QED BY <1>1, <1>2, <1>3, <1>5, <1>7, <1>8

(* Crediting a step: the counter first, then the row, which may fail. *)
LEMMA CreditFact ==
    ASSUME TypeOK, CallsOfRunning, NEW a \in Agents, CreditStep(a) \/ CreditStepFails(a)
    PROVE  /\ UNCHANGED <<log, issued, revoked, expired, profile, pinned, up, view, history>>
           /\ a \in up /\ call[a].at = "credit"
           /\ call' = [call EXCEPT ![a] = call'[a]] /\ call'[a].at = "idle"
           /\ count' = [count EXCEPT ![a] = count[a] + 1]
           /\ \/ rows' = [rows EXCEPT ![a] = Append(rows[a], CountRow(count[a] + 1))]
              \/ rows' = rows
<1>1. call[a].at = "credit" /\ a \in up
  BY DEF CreditStep, CreditStepFails, CallsOfRunning, NoCall
<1>2. call' = [call EXCEPT ![a] = NoCall] /\ DOMAIN call = Agents
  BY DEF CreditStep, CreditStepFails, Goto, TypeOK
<1>3. call' = [call EXCEPT ![a] = call'[a]] /\ call'[a].at = "idle"
  BY <1>2 DEF NoCall
<1> QED BY <1>1, <1>3 DEF CreditStep, CreditStepFails, Goto

(* A session starts with an empty journal or resumes from what it replays. *)
LEMMA BeginFact ==
    ASSUME TypeOK, CallsOfRunning, NEW a \in Agents, StartTask(a) \/ ResumeTask(a)
    PROVE  /\ UNCHANGED <<log, issued, revoked, expired, profile, pinned, call>>
           /\ a \notin up /\ up' = up \cup {a} /\ call[a] = NoCall
           /\ view' = [view EXCEPT ![a] = view'[a]] /\ count' = [count EXCEPT ![a] = count'[a]]
           /\ history'.lost = history.lost /\ history'.uncounted = history.uncounted
           /\ history'.lateSteps = [history.lateSteps EXCEPT ![a] = 0]
           /\ history'.lateActions = [history.lateActions EXCEPT ![a] = 0]
           /\ \/ /\ rows[a] = <<>> /\ rows' = [rows EXCEPT ![a] = <<Row("started", 0, 0)>>]
                 /\ count'[a] = 0
              \/ rows' = rows /\ view'[a] = ReplayedView(a) /\ count'[a] = ReplayedCount(a)
<1>1. DOMAIN view = Agents /\ DOMAIN count = Agents /\ history \in Histories
  BY DEF TypeOK, Histories
<1>2. history' = [history EXCEPT !.lateSteps[a] = 0, !.lateActions[a] = 0]
  BY DEF StartTask, ResumeTask, Begin
<1>3. /\ history'.lost = history.lost /\ history'.uncounted = history.uncounted
      /\ history'.lateSteps = [history.lateSteps EXCEPT ![a] = 0]
      /\ history'.lateActions = [history.lateActions EXCEPT ![a] = 0]
  BY <1>1, <1>2 DEF Histories
<1>4. CASE StartTask(a)
  BY <1>1, <1>3, <1>4 DEF StartTask, Begin, authorities, CallsOfRunning
<1>5. CASE ResumeTask(a)
  BY <1>1, <1>3, <1>5 DEF ResumeTask, Begin, authorities, CallsOfRunning
<1> QED BY <1>4, <1>5

(* A gate call starts by taking over the state the engine is in. *)
LEMMA ReadyFact ==
    ASSUME TypeOK, NEW a \in Agents, AuthoritativeStateReady(a)
    PROVE  /\ UNCHANGED <<log, issued, revoked, expired, profile, pinned, up, count, rows, history>>
           /\ a \in up /\ call[a] = NoCall
           /\ view' = [view EXCEPT ![a] = Current(a)]
           /\ call' = [call EXCEPT ![a] = call'[a]] /\ call'[a].at = "revocation"
<1>1. DOMAIN call = Agents
  BY DEF TypeOK
<1> QED BY <1>1 DEF AuthoritativeStateReady, Goto

(* A gate call ends; a late one is counted. *)
LEMMA GateFact ==
    ASSUME TypeOK, CallsOfRunning, NEW a \in Agents, GateMembership(a)
    PROVE  /\ UNCHANGED <<log, issued, revoked, expired, profile, pinned, up, view, count, rows>>
           /\ a \in up /\ call[a].at = "membership"
           /\ call' = [call EXCEPT ![a] = call'[a]] /\ call'[a].at = "idle"
           /\ history'.lost = history.lost /\ history'.uncounted = history.uncounted
           /\ history'.lateSteps = history.lateSteps
           /\ \/ history'.lateActions = history.lateActions
              \/ /\ a \in Adopters /\ profile = "immediate"
                 /\ history'.lateActions = [history.lateActions EXCEPT ![a] = history.lateActions[a] + 1]
<1>1. DOMAIN call = Agents /\ history \in Histories
  BY DEF TypeOK, Histories
<1>2. call' = [call EXCEPT ![a] = NoCall] /\ call[a].at = "membership" /\ a \in up
  BY DEF GateMembership, Goto, CallsOfRunning, NoCall
<1>3. call' = [call EXCEPT ![a] = call'[a]] /\ call'[a].at = "idle"
  BY <1>1, <1>2 DEF NoCall
<1>4. \/ history' = history
      \/ /\ a \in Adopters /\ profile = "immediate"
         /\ history' = [history EXCEPT !.lateActions[a] = history.lateActions[a] + 1]
  BY DEF GateMembership
<1>5. /\ history'.lost = history.lost /\ history'.uncounted = history.uncounted
      /\ history'.lateSteps = history.lateSteps
      /\ \/ history'.lateActions = history.lateActions
         \/ /\ a \in Adopters /\ profile = "immediate"
            /\ history'.lateActions = [history.lateActions EXCEPT ![a] = history.lateActions[a] + 1]
  BY <1>1, <1>4 DEF Histories
<1> QED BY <1>2, <1>3, <1>5 DEF GateMembership, Goto

(* A crash loses the steps that are being committed, and no other. *)
LEMMA CrashFact ==
    ASSUME TypeOK, HostCrash
    PROVE  /\ UNCHANGED <<log, expired, profile, pinned, rows>>
           /\ up' = {} /\ call' = [b \in Agents |-> NoCall]
           /\ history'.lost = [b \in Agents |-> history.lost[b] \cup InCommit(b)]
           /\ history'.uncounted = history.uncounted
           /\ history'.lateSteps = [b \in Agents |-> 0]
           /\ history'.lateActions = [b \in Agents |-> 0]
<1>1. history \in Histories
  BY DEF TypeOK, Histories
<1>2. \A b \in Agents : (IF call[b].at = "commit" THEN history.lost[b] \cup {call[b].revision}
                         ELSE history.lost[b]) = history.lost[b] \cup InCommit(b)
  BY DEF InCommit
<1> QED BY <1>1, <1>2 DEF HostCrash, Histories
(* A row other than a transition leaves the transition rows as they were. *)
LEMMA OtherRow ==
    ASSUME TypeOK, NEW a \in Agents, NEW r \in Rows, r.kind # "transition",
           rows' = [rows EXCEPT ![a] = Append(rows[a], r)], NEW b \in Agents
    PROVE  /\ Transitions(rows'[b]) = Transitions(rows[b])
           /\ \A k \in Transitions(rows[b]) : rows'[b][k] = rows[b][k]
<1>1. rows[a] \in Seq(Rows) /\ DOMAIN rows = Agents
  BY DEF TypeOK
<1>2. CASE b = a
  <2>1. rows'[b] = Append(rows[a], r)
    BY <1>1, <1>2
  <2>2. /\ Transitions(Append(rows[a], r)) = Transitions(rows[a])
        /\ \A k \in 1..Len(rows[a]) : Append(rows[a], r)[k] = rows[a][k]
        /\ Transitions(rows[a]) \subseteq 1..Len(rows[a])
    <3>1. Transitions(Append(rows[a], r)) =
             Transitions(rows[a]) \cup (IF r.kind = "transition" THEN {Len(rows[a]) + 1} ELSE {})
      BY <1>1, AppendRow
    <3> QED BY <1>1, <3>1, AppendRow
  <2> QED BY <1>2, <2>1, <2>2
<1>3. CASE b # a
  BY <1>1, <1>3
<1> QED BY <1>2, <1>3

(* The transition row of a committed step is the last and names the latest step. *)
LEMMA CommittedRow ==
    ASSUME TypeOK, RowsInv, NEW a \in Agents, call[a].at = "commit", call[a] \in Calls,
           rows' = [rows EXCEPT ![a] = Append(rows[a], TransitionRow(call[a]))]
    PROVE  /\ RowSteps(a)' = RowSteps(a) \cup {call[a].revision}
           /\ call[a].revision \notin RowSteps(a)
           /\ \A j, k \in Transitions(rows'[a]) :
                 j < k => rows'[a][j].revision < rows'[a][k].revision
<1> DEFINE r == call[a].revision
           n == Len(rows[a]) + 1
           T == Transitions(rows[a])
<1>1. TransitionRow(call[a]) \in Rows /\ TransitionRow(call[a]).kind = "transition"
      /\ TransitionRow(call[a]).revision = r
  BY WorkflowAssumption DEF TransitionRow, Row, Rows, Calls, Revisions
<1>2. /\ rows[a] \in Seq(Rows) /\ Len(rows[a]) \in Nat
      /\ rows'[a] = Append(rows[a], TransitionRow(call[a]))
  BY DEF TypeOK
<1>3. /\ Transitions(rows'[a]) = T \cup {n} /\ T \subseteq 1..Len(rows[a])
      /\ \A k \in T : rows'[a][k] = rows[a][k]
      /\ rows'[a][n] = TransitionRow(call[a])
  BY <1>1, <1>2, AppendRow
<1>4. /\ \A k \in T : rows[a][k].revision \in OwnSteps(a) /\ rows[a][k].revision # r
      /\ r \notin RowSteps(a)
  BY DEF RowsInv, RowsAreOwnSteps, RowSteps, InCommit
<1>5. ASSUME NEW k \in T PROVE rows[a][k].revision < r
  <2>1. rows[a][k].revision <= r /\ rows[a][k].revision # r
    BY <1>4 DEF RowsInv
  <2>2. rows[a][k] \in Rows
    BY <1>2, <1>3
  <2>3. rows[a][k].revision \in Nat /\ r \in Nat
    BY <2>2, WorkflowAssumption DEF Rows, Calls, Revisions
  <2> QED BY <2>1, <2>3
<1>6. RowSteps(a)' = RowSteps(a) \cup {r}
  BY <1>1, <1>3 DEF RowSteps
<1>7. ASSUME NEW j \in Transitions(rows'[a]), NEW k \in Transitions(rows'[a]), j < k
      PROVE  rows'[a][j].revision < rows'[a][k].revision
  <2>1. CASE k \in T
    <3>1. j \in T
      BY <1>2, <1>3, <1>7, <2>1
    <3> QED BY <1>3, <1>7, <2>1, <3>1 DEF RowsInv, RowsAreOwnSteps
  <2>2. CASE k = n
    <3>1. j \in T
      BY <1>2, <1>3, <1>7, <2>2
    <3> QED BY <1>1, <1>3, <1>5, <2>2, <3>1
  <2> QED BY <1>3, <2>1, <2>2
<1> QED BY <1>4, <1>6, <1>7

(* Every action keeps the journal in agreement with the engine. *)
LEMMA RowsStep ==
    ASSUME TypeOK, CallsOfRunning, RowsInv, [Next]_vars
    PROVE  RowsInv'
<1>1. CASE UNCHANGED vars
  BY <1>1, RowsUntouched DEF vars
<1>2. CASE HostStep
  BY <1>2, HostStepFact, RowsUntouched DEF session
<1>3. ASSUME NEW a \in Agents, CallStep(a) PROVE RowsInv'
  <2>1. \A b \in Agents : /\ call'[b].at = "commit" <=> call[b].at = "commit"
                          /\ call[b].at = "commit" => call'[b] = call[b]
    BY <1>3, CallStepFact DEF TypeOK
  <2> QED BY <1>3, <2>1, CallStepFact, RowsUntouched
<1>4. ASSUME NEW a \in Agents, StartTask(a) \/ ResumeTask(a) PROVE RowsInv'
  <2>1. ASSUME NEW b \in Agents
        PROVE  /\ Transitions(rows'[b]) = Transitions(rows[b])
               /\ \A k \in Transitions(rows[b]) : rows'[b][k] = rows[b][k]
    <3>1. CASE rows[a] = <<>> /\ rows' = [rows EXCEPT ![a] = <<Row("started", 0, 0)>>]
      <4>1. Row("started", 0, 0) \in Rows /\ Row("started", 0, 0).kind = "started"
        BY WorkflowAssumption DEF Row, Rows, Revisions
      <4>2. rows' = [rows EXCEPT ![a] = Append(rows[a], Row("started", 0, 0))]
        BY <3>1
      <4> QED BY <4>1, <4>2, OtherRow
    <3>2. CASE rows' = rows
      BY <3>2
    <3> QED BY <1>4, <3>1, <3>2, BeginFact
  <2> QED BY <1>4, <2>1, BeginFact, RowsUntouched
<1>5. ASSUME NEW a \in Agents, ApplyStep(a) PROVE RowsInv'
  <2> DEFINE n == Revision(Workflow(a)) + 1
  <2>1. ASSUME NEW b \in Agents
        PROVE  /\ OwnSteps(b)' = OwnSteps(b) \cup (IF b = a THEN {n} ELSE {})
               /\ InCommit(b)' = IF b = a THEN {n} ELSE InCommit(b)
               /\ RowSteps(b)' = RowSteps(b) /\ history.lost[b]' = history.lost[b]
               /\ \A k \in OwnSteps(b) : k \in Nat /\ k <= Revision(Workflow(b))
               /\ Revision(Workflow(b)) \in Nat
    <3>1. /\ OwnSteps(b)' = OwnSteps(b) \cup (IF b = a THEN {n} ELSE {})
          /\ \A k \in OwnSteps(b) : k \in Nat /\ k <= Revision(Workflow(b))
          /\ Revision(Workflow(b)) \in Nat
          /\ call' = [call EXCEPT ![a] = call'[a]]
          /\ call'[a].at = "commit" /\ call'[a].revision = n
          /\ rows' = rows /\ history'.lost = history.lost
      BY <1>5, AppliedOwnStep
    <3>2. InCommit(b)' = IF b = a THEN {n} ELSE InCommit(b)
      <4> HIDE DEF n
      <4> QED BY <3>1 DEF InCommit, TypeOK
    <3>3. RowSteps(b)' = RowSteps(b) /\ history.lost[b]' = history.lost[b]
      BY <3>1 DEF RowSteps
    <3> QED BY <3>1, <3>2, <3>3
  <2>2. InCommit(a) = {}
    BY <1>5 DEF InCommit, ApplyStep
  <2>3. ASSUME NEW b \in Agents
        PROVE  RowSteps(b)' = OwnSteps(b)' \ (history.lost[b]' \cup InCommit(b)')
    <3>1. CASE b = a
      <4>1. n \notin OwnSteps(a)
        BY <2>1
      <4>2. RowSteps(a) = OwnSteps(a) \ history.lost[a]
        BY <2>2 DEF RowsInv, RowsAreOwnSteps
      <4> HIDE DEF n
      <4> QED BY <2>1, <3>1, <4>1, <4>2
    <3>2. CASE b # a
      BY <2>1, <3>2 DEF RowsInv, RowsAreOwnSteps
    <3> QED BY <3>1, <3>2
  <2>4. RowsAreOwnSteps'
    <3>1. rows' = rows
      BY <1>5, AppliedOwnStep
    <3> QED BY <2>3, <3>1 DEF RowsInv, RowsAreOwnSteps
  <2>5. ASSUME NEW b \in Agents
        PROVE  /\ history.lost[b]' \subseteq OwnSteps(b)'
               /\ call[b].at' = "commit" =>
                     /\ call[b].revision' \in OwnSteps(b)' \ history.lost[b]'
                     /\ \A k \in OwnSteps(b)' : k <= call[b].revision'
    <3>1. CASE b = a
      <4>1. call[a].revision' = n
        BY <1>5, AppliedOwnStep
      <4>2. n \notin OwnSteps(a) /\ history.lost[a] \subseteq OwnSteps(a)
        BY <2>1 DEF RowsInv
      <4>3. \A k \in OwnSteps(a) : k <= n
        BY <2>1
      <4>4. n <= n
        BY <2>1
      <4> HIDE DEF n
      <4> QED BY <2>1, <3>1, <4>1, <4>2, <4>3, <4>4
    <3>2. CASE b # a
      <4>1. call'[b] = call[b]
        BY <1>5, <3>2, AppliedOwnStep DEF TypeOK
      <4> QED BY <2>1, <3>2, <4>1 DEF RowsInv
    <3> QED BY <3>1, <3>2
  <2> QED BY <2>4, <2>5 DEF RowsInv
<1>6. ASSUME NEW a \in Agents,
             CommitStep(a) \/ \E kept \in BOOLEAN : CommitStepFails(a, kept)
      PROVE  RowsInv'
  <2> DEFINE r == call[a].revision
  <2>1. /\ UNCHANGED <<log, pinned>> /\ call[a].at = "commit" /\ call[a] \in Calls
        /\ call' = [call EXCEPT ![a] = call'[a]] /\ call'[a].at # "commit"
        /\ DOMAIN rows = Agents /\ DOMAIN call = Agents
    BY <1>6, CommitFact DEF TypeOK
  <2>2. ASSUME NEW b \in Agents PROVE OwnSteps(b)' = OwnSteps(b)
    BY <2>1 DEF OwnSteps, Workflow, Revision
  <2>3. InCommit(a) = {r} /\ InCommit(a)' = {}
    BY <2>1 DEF InCommit
  <2>4. ASSUME NEW b \in Agents, b # a
        PROVE  InCommit(b)' = InCommit(b) /\ call'[b] = call[b]
    BY <2>1, <2>4 DEF InCommit
  <2>5. /\ r \in OwnSteps(a) \ history.lost[a] /\ history.lost[a] \subseteq OwnSteps(a)
        /\ RowSteps(a) = OwnSteps(a) \ (history.lost[a] \cup {r})
    BY <2>1, <2>3 DEF RowsInv, RowsAreOwnSteps
  <2>6. CASE /\ rows' = [rows EXCEPT ![a] = Append(rows[a], TransitionRow(call[a]))]
             /\ history'.lost = history.lost
    <3>1. /\ RowSteps(a)' = RowSteps(a) \cup {r}
          /\ \A j, k \in Transitions(rows'[a]) :
                 j < k => rows'[a][j].revision < rows'[a][k].revision
      BY <2>1, <2>6, CommittedRow
    <3>2. \A b \in Agents : b # a => rows'[b] = rows[b]
      BY <2>1, <2>6
    <3>3. RowsAreOwnSteps'
      <4>1. ASSUME NEW b \in Agents
            PROVE  /\ RowSteps(b)' = OwnSteps(b)' \ (history.lost[b]' \cup InCommit(b)')
                   /\ \A j, k \in Transitions(rows'[b]) :
                         j < k => rows'[b][j].revision < rows'[b][k].revision
        <5>1. CASE b = a
          BY <2>2, <2>3, <2>5, <2>6, <3>1, <5>1
        <5>2. CASE b # a
          BY <2>2, <2>4, <2>6, <3>2, <5>2 DEF RowsInv, RowsAreOwnSteps, RowSteps
        <5> QED BY <5>1, <5>2
      <4> QED BY <4>1 DEF RowsAreOwnSteps
    <3> QED BY <2>1, <2>2, <2>4, <2>6, <3>3 DEF RowsInv
  <2>7. CASE rows' = rows /\ history'.lost = [history.lost EXCEPT ![a] = @ \cup {r}]
    <3>1. \A b \in Agents : history'.lost[b] = IF b = a THEN history.lost[a] \cup {r} ELSE history.lost[b]
      BY <2>7 DEF TypeOK
    <3>2. RowsAreOwnSteps'
      <4>1. ASSUME NEW b \in Agents
            PROVE  RowSteps(b)' = OwnSteps(b)' \ (history.lost[b]' \cup InCommit(b)')
        <5>1. CASE b = a
          BY <2>2, <2>3, <2>5, <2>7, <3>1, <5>1 DEF RowSteps
        <5>2. CASE b # a
          BY <2>2, <2>4, <2>7, <3>1, <5>2 DEF RowsInv, RowsAreOwnSteps, RowSteps
        <5> QED BY <5>1, <5>2
      <4> QED BY <2>7, <4>1 DEF RowsInv, RowsAreOwnSteps
    <3>3. ASSUME NEW b \in Agents
          PROVE  /\ history.lost[b]' \subseteq OwnSteps(b)'
                 /\ call[b].at' = "commit" =>
                     /\ call[b].revision' \in OwnSteps(b)' \ history.lost[b]'
                     /\ \A k \in OwnSteps(b)' : k <= call[b].revision'
      <4>1. CASE b = a
        BY <2>1, <2>2, <2>5, <3>1, <4>1
      <4>2. CASE b # a
        BY <2>2, <2>4, <3>1, <4>2 DEF RowsInv
      <4> QED BY <4>1, <4>2
    <3> QED BY <3>2, <3>3 DEF RowsInv
  <2> QED BY <1>6, <2>6, <2>7, CommitFact
<1>7. ASSUME NEW a \in Agents, CreditStep(a) \/ CreditStepFails(a) PROVE RowsInv'
  <2>1. CountRow(count[a] + 1) \in Rows /\ CountRow(count[a] + 1).kind = "convergence"
    BY WorkflowAssumption DEF TypeOK, CountRow, Row, Rows, Revisions
  <2>2. ASSUME NEW b \in Agents
        PROVE  /\ Transitions(rows'[b]) = Transitions(rows[b])
               /\ \A k \in Transitions(rows[b]) : rows'[b][k] = rows[b][k]
    BY <1>7, <2>1, CreditFact, OtherRow
  <2>3. \A b \in Agents : /\ call'[b].at = "commit" <=> call[b].at = "commit"
                          /\ call[b].at = "commit" => call'[b] = call[b]
    BY <1>7, CreditFact DEF TypeOK
  <2> QED BY <1>7, <2>2, <2>3, CreditFact, RowsUntouched
<1>8. ASSUME NEW a \in Agents, AuthoritativeStateReady(a) \/ GateMembership(a) PROVE RowsInv'
  <2>1. \A b \in Agents : /\ call'[b].at = "commit" <=> call[b].at = "commit"
                          /\ call[b].at = "commit" => call'[b] = call[b]
    <3>1. /\ call' = [call EXCEPT ![a] = call'[a]] /\ DOMAIN call = Agents
          /\ call[a].at # "commit" /\ call'[a].at # "commit"
      <4>1. CASE AuthoritativeStateReady(a)
        BY <4>1, ReadyFact DEF TypeOK, NoCall
      <4>2. CASE GateMembership(a)
        BY <4>2, GateFact DEF TypeOK
      <4> QED BY <1>8, <4>1, <4>2
    <3> QED BY <3>1
  <2> QED BY <1>8, <2>1, ReadyFact, GateFact, RowsUntouched
<1>9. CASE HostCrash
  <2>1. ASSUME NEW b \in Agents
        PROVE  /\ OwnSteps(b)' = OwnSteps(b) /\ RowSteps(b)' = RowSteps(b) /\ InCommit(b)' = {}
               /\ history.lost[b]' = history.lost[b] \cup InCommit(b) /\ call[b].at' = "idle"
               /\ rows'[b] = rows[b]
    BY <1>9, CrashFact DEF OwnSteps, RowSteps, InCommit, Workflow, Revision, NoCall
  <2>2. \A b \in Agents : InCommit(b) \subseteq OwnSteps(b)
    BY DEF RowsInv, InCommit
  <2>3. RowsAreOwnSteps'
    BY <2>1 DEF RowsInv, RowsAreOwnSteps
  <2> QED BY <2>1, <2>2, <2>3 DEF RowsInv
<1> QED
  BY <1>1, <1>2, <1>3, <1>4, <1>5, <1>6, <1>7, <1>8, <1>9 DEF Next, HostStep, CallStep
-----------------------------------------------------------------------------
(* The engine's state is the one at its last revision. *)
LEMMA StateIsLatest ==
    ASSUME TypeOK, NEW w \in Workflows
    PROVE  State(w) = StateAt(w, Revision(w)) /\ Revision(w) \in 0..Revision(w)
<1>1. log[w] \in Seq(Applied) /\ Revision(w) = Len(log[w])
  BY DEF TypeOK, Revision
<1>2. log[w] = <<>> <=> Len(log[w]) = 0
  BY <1>1
<1>3. Revision(w) \in Nat
  BY <1>1
<1> QED BY <1>1, <1>2, <1>3 DEF State, StateAt

(* The engine only appends, so an earlier state stays what it was. *)
LEMMA LogKept ==
    ASSUME TypeOK, NEW a \in Agents, ApplyStep(a), NEW w \in Workflows
    PROVE  /\ Revision(w) \in Nat /\ Revision(w)' \in Nat /\ Revision(w) <= Revision(w)'
           /\ \A k \in 1..Revision(w) : log'[w][k] = log[w][k]
           /\ \A k \in 1..Revision(w)' : k \notin 1..Revision(w) =>
                 /\ w = Workflow(a)
                 /\ log'[w][k] = [agent |-> a, asked |-> call[a].asked,
                                  from |-> call[a].from, to |-> call[a].to]
           /\ \A r \in 0..Revision(w) : StateAt(w, r)' = StateAt(w, r)
<1> DEFINE e == [agent |-> a, asked |-> call[a].asked, from |-> call[a].from, to |-> call[a].to]
<1>1. /\ log' = [log EXCEPT ![Workflow(a)] = Append(log[Workflow(a)], e)]
      /\ log \in [Workflows -> Seq(Applied)] /\ log[w] \in Seq(Applied)
  BY DEF ApplyStep, TypeOK
<1> HIDE DEF e
<1>2. CASE w # Workflow(a)
  <2>1. log'[w] = log[w]
    BY <1>1, <1>2
  <2> QED BY <1>1, <2>1 DEF Revision, StateAt
<1>3. CASE w = Workflow(a)
  <2>1. log'[w] = Append(log[w], e)
    BY <1>1, <1>3
  <2>2. /\ Len(log[w]) \in Nat /\ Len(log'[w]) = Len(log[w]) + 1
        /\ \A k \in 1..Len(log[w]) : log'[w][k] = log[w][k]
        /\ log'[w][Len(log[w]) + 1] = e
    BY <1>1, <2>1
  <2>3. Revision(w) = Len(log[w]) /\ Revision(w)' = Len(log'[w])
    BY DEF Revision
  <2>4. \A r \in 0..Revision(w) : StateAt(w, r)' = StateAt(w, r)
    BY <2>2, <2>3 DEF StateAt
  <2> QED BY <1>3, <2>2, <2>3, <2>4 DEF e
<1> QED BY <1>2, <1>3

(* A call asserts the state it inspected, at the revision it hands on. *)
LEMMA AssertedCallStep ==
    ASSUME TypeOK, CallsOfRunning, NEW a \in Agents, CallStep(a), Asserted(a)
    PROVE  Asserted(a)'
<1> USE DEF Goto
<1>1. /\ Workflow(a) \in Workflows
      /\ call[a].at # "idle" => call[a] \in Calls
      /\ DOMAIN call = Agents
      /\ State(Workflow(a)) = StateAt(Workflow(a), Revision(Workflow(a)))
      /\ Revision(Workflow(a)) \in 0..Revision(Workflow(a))
  BY TypeFacts, StateIsLatest DEF TypeOK
<1>2. UNCHANGED <<log, pinned>>
  BY CallStepFact
<1>3. /\ Revision(Workflow(a))' = Revision(Workflow(a))
      /\ \A r : StateAt(Workflow(a), r)' = StateAt(Workflow(a), r)
  BY <1>2 DEF Workflow, Revision, StateAt
<1>4. ASSUME
        /\ call'[a].at \in {"resolve", "check", "inspect", "apply"} /\ call'[a].asked # None =>
              \E r \in 0..Revision(Workflow(a)) :
                  call'[a].expected = {r} /\ call'[a].asked = StateAt(Workflow(a), r)
        /\ call'[a].at = "apply" => call'[a].expected \subseteq {call'[a].revision}
      PROVE  Asserted(a)'
  BY <1>3, <1>4 DEF Asserted
<1>5. CASE \E asserted \in BOOLEAN, to \in States : RequestTransition(a, asserted, to)
  <2>1. PICK asserted \in BOOLEAN, to \in States : RequestTransition(a, asserted, to)
    BY <1>5
  <2>2. /\ call'[a].at = "resolve" /\ call'[a].expected = {Revision(Workflow(a))}
        /\ call'[a].asked \in {None, State(Workflow(a))}
    BY <1>1, <2>1 DEF RequestTransition, Expected
  <2> QED BY <1>1, <1>4, <2>2
<1>6. ASSUME call'[a].asked = call[a].asked, call'[a].expected = call[a].expected,
             call[a].at \in {"resolve", "check", "inspect", "apply"},
             call'[a].at = "apply" => call'[a].expected \subseteq {call'[a].revision}
      PROVE  Asserted(a)'
  BY <1>4, <1>6 DEF Asserted
<1>7. CASE ResolveLegacyStep(a)
  <2>1. /\ call[a] \in Calls /\ call[a].at = "resolve"
        /\ call'[a] = [call[a] EXCEPT !.at = "check", !.from = State(Workflow(a))]
    BY <1>1, <1>7 DEF ResolveLegacyStep
  <2>2. call'[a].asked = call[a].asked /\ call'[a].expected = call[a].expected /\ call'[a].at = "check"
    BY <2>1 DEF Calls
  <2> QED BY <1>6, <2>1, <2>2
<1>8. CASE \E s \in Steps, e \in SUBSET {view[a].revision} : RequestStep(a, s, e)
  <2>1. call'[a].asked = None /\ call'[a].at = "check"
    BY <1>1, <1>8 DEF RequestStep
  <2> QED BY <2>1, <1>4
<1>9. CASE CheckMembership(a)
  <2>1. CASE call'[a] = NoCall
    BY <1>4, <2>1 DEF NoCall
  <2>2. CASE call'[a] = [call[a] EXCEPT !.at = "inspect"]
    <3>1. call[a] \in Calls /\ call[a].at = "check"
      BY <1>1, <1>9 DEF CheckMembership
    <3>2. call'[a].asked = call[a].asked /\ call'[a].expected = call[a].expected /\ call'[a].at = "inspect"
      BY <2>2, <3>1 DEF Calls
    <3> QED BY <1>6, <3>1, <3>2
  <2> QED BY <1>1, <1>9, <2>1, <2>2 DEF CheckMembership
<1>10. CASE InspectWorkflow(a)
  <2> DEFINE n == Revision(Workflow(a))
  <2>1. CASE call'[a] = NoCall
    BY <1>4, <2>1 DEF NoCall
  <2>2. CASE /\ call[a].expected \subseteq {n}
             /\ call'[a] = [call[a] EXCEPT !.at = "apply", !.revision = n]
    <3>1. call[a] \in Calls /\ call[a].at = "inspect"
      BY <1>1, <1>10 DEF InspectWorkflow
    <3> HIDE DEF n
    <3>2. call'[a].asked = call[a].asked /\ call'[a].expected = call[a].expected /\ call'[a].revision = n
      BY <2>2, <3>1 DEF Calls
    <3> QED BY <1>6, <2>2, <3>1, <3>2
  <2>3. \/ call'[a] = NoCall
        \/ /\ call[a].expected \subseteq {n}
           /\ call'[a] = [call[a] EXCEPT !.at = "apply", !.revision = n]
    BY <1>1, <1>10 DEF InspectWorkflow
  <2> QED BY <2>1, <2>2, <2>3
<1>11. CASE Refused(a)
  BY <1>1, <1>4, <1>11 DEF Refused, NoCall
<1>12. CASE CheckRevocation(a)
  <2>1. CASE call'[a] = NoCall
    BY <1>4, <2>1 DEF NoCall
  <2>2. CASE call'[a] = [call[a] EXCEPT !.at = "membership"]
    <3>1. call[a] \in Calls
      BY <1>1, <1>12 DEF CheckRevocation
    <3>2. call'[a].at = "membership"
      BY <2>2, <3>1 DEF Calls
    <3> QED BY <1>4, <3>2
  <2> QED BY <1>1, <1>12, <2>1, <2>2 DEF CheckRevocation
<1> QED BY <1>5, <1>7, <1>8, <1>9, <1>10, <1>11, <1>12 DEF CallStep

(* Calls that are left alone or assert nothing keep their origin. *)
LEMMA AssertedUntouched ==
    ASSUME AssertedInv, UNCHANGED <<log, pinned>>,
           \A b \in Agents : call'[b] = call[b] \/ Asserted(b)'
    PROVE  AssertedInv'
<1>1. ASSUME NEW b \in Agents PROVE Asserted(b)'
  BY DEF AssertedInv, Asserted, Workflow, Revision, StateAt
<1>2. AppliedFromAssertedOrigin'
  BY DEF AssertedInv, AppliedFromAssertedOrigin, Revision
<1> QED BY <1>1, <1>2 DEF AssertedInv

(* Every action keeps the asserted origins. *)
LEMMA AssertedStep ==
    ASSUME TypeOK, CallsOfRunning, AssertedInv, [Next]_vars
    PROVE  AssertedInv'
<1>0. DOMAIN call = Agents
  BY DEF TypeOK
<1>1. CASE UNCHANGED vars
  BY <1>1, AssertedUntouched DEF vars
<1>2. CASE HostStep
  BY <1>2, HostStepFact, AssertedUntouched DEF session
<1>3. ASSUME NEW a \in Agents, CallStep(a) PROVE AssertedInv'
  <2>1. UNCHANGED <<log, pinned>> /\ \A b \in Agents : b # a => call'[b] = call[b]
    BY <1>0, <1>3, CallStepFact
  <2>2. Asserted(a)'
    BY <1>3, AssertedCallStep DEF AssertedInv
  <2> QED BY <2>1, <2>2, AssertedUntouched
<1>4. ASSUME NEW a \in Agents, StartTask(a) \/ ResumeTask(a) PROVE AssertedInv'
  BY <1>4, BeginFact, AssertedUntouched
<1>5. ASSUME NEW a \in Agents, ApplyStep(a) PROVE AssertedInv'
  <2>1. /\ call[a].at = "apply" /\ call[a].revision = Revision(Workflow(a))
        /\ call[a].from = State(Workflow(a)) /\ pinned' = pinned
        /\ Workflow(a) \in Workflows
        /\ State(Workflow(a)) = StateAt(Workflow(a), Revision(Workflow(a)))
    BY <1>5, TypeFacts, StateIsLatest DEF ApplyStep, Goto
  <2>2. call[a].asked \in {None, call[a].from}
    <3>1. CASE call[a].asked # None
      <4>1. PICK r \in 0..Revision(Workflow(a)) :
               call[a].expected = {r} /\ call[a].asked = StateAt(Workflow(a), r)
        BY <2>1, <3>1 DEF AssertedInv, Asserted
      <4>2. r = Revision(Workflow(a))
        BY <2>1, <4>1 DEF AssertedInv, Asserted
      <4> QED BY <2>1, <4>1, <4>2
    <3> QED BY <3>1
  <2>3. AppliedFromAssertedOrigin'
    <3>1. ASSUME NEW w \in Workflows, NEW k \in 1..Revision(w)'
          PROVE  log'[w][k].asked \in {None, log'[w][k].from}
      <4>1. CASE k \in 1..Revision(w)
        <5>1. log'[w][k] = log[w][k]
          BY <1>5, <4>1, LogKept
        <5> QED BY <4>1, <5>1 DEF AssertedInv, AppliedFromAssertedOrigin
      <4>2. CASE k \notin 1..Revision(w)
        <5>1. log'[w][k] = [agent |-> a, asked |-> call[a].asked,
                            from |-> call[a].from, to |-> call[a].to]
          BY <1>5, <4>2, LogKept
        <5> QED BY <2>2, <5>1
      <4> QED BY <4>1, <4>2
    <3> QED BY <3>1 DEF AppliedFromAssertedOrigin
  <2>4. ASSUME NEW b \in Agents PROVE Asserted(b)'
    <3>1. CASE b = a
      <4>1. call'[a].at = "commit"
        BY <1>5, AppliedOwnStep
      <4> QED BY <3>1, <4>1 DEF Asserted
    <3>2. CASE b # a
      <4>1. call'[b] = call[b] /\ Workflow(b)' = Workflow(b) /\ Workflow(b) \in Workflows
        BY <1>0, <1>5, <2>1, <3>2, AppliedOwnStep, TypeFacts DEF Workflow
      <4>2. /\ Revision(Workflow(b)) \in Nat /\ Revision(Workflow(b))' \in Nat
            /\ Revision(Workflow(b)) <= Revision(Workflow(b))'
            /\ \A r \in 0..Revision(Workflow(b)) : StateAt(Workflow(b), r)' = StateAt(Workflow(b), r)
        <5> DEFINE w == Workflow(b)
        <5>1. /\ Revision(w) \in Nat /\ Len(log'[w]) \in Nat /\ Revision(w) <= Len(log'[w])
              /\ \A r \in 0..Revision(w) :
                    (IF r = 0 THEN Start0 ELSE log'[w][r].to) = StateAt(w, r)
          <6> HIDE DEF w
          <6> QED BY <1>5, <4>1, LogKept DEF Revision, StateAt, w
        <5> QED BY <4>1, <5>1 DEF Revision, StateAt
      <4> QED BY <4>1, <4>2 DEF AssertedInv, Asserted
    <3> QED BY <3>1, <3>2
  <2> QED BY <2>3, <2>4 DEF AssertedInv
<1>6. ASSUME NEW a \in Agents, UNCHANGED <<log, pinned>>, call' = [call EXCEPT ![a] = call'[a]],
             call'[a].at \notin {"resolve", "check", "inspect", "apply"}
      PROVE  AssertedInv'
  BY <1>0, <1>6, AssertedUntouched DEF Asserted
<1>7. ASSUME NEW a \in Agents,
             CommitStep(a) \/ \E kept \in BOOLEAN : CommitStepFails(a, kept)
      PROVE  AssertedInv'
  BY <1>6, <1>7, CommitFact
<1>8. ASSUME NEW a \in Agents, CreditStep(a) \/ CreditStepFails(a) PROVE AssertedInv'
  BY <1>6, <1>8, CreditFact
<1>9. ASSUME NEW a \in Agents, AuthoritativeStateReady(a) PROVE AssertedInv'
  BY <1>6, <1>9, ReadyFact
<1>10. ASSUME NEW a \in Agents, GateMembership(a) PROVE AssertedInv'
  BY <1>6, <1>10, GateFact
<1>11. CASE HostCrash
  BY <1>11, CrashFact, AssertedUntouched DEF Asserted, NoCall
<1> QED
  BY <1>1, <1>2, <1>3, <1>4, <1>5, <1>7, <1>8, <1>9, <1>10, <1>11 DEF Next, HostStep, CallStep
-----------------------------------------------------------------------------
(* The view is at least as recent as the session's transition rows. *)
LEMMA ViewByRows ==
    ASSUME RowsAreOwnSteps, up \in SUBSET Agents
    PROVE  ViewIncludesOwnSteps <=> \A a \in up : \A k \in RowSteps(a) : view[a].revision >= k
BY DEF RowsAreOwnSteps, ViewIncludesOwnSteps

(* The steps on record are steps of the workflow, so they are finitely many. *)
LEMMA RowStepsFact ==
    ASSUME TypeOK, RowsInv, NEW a \in Agents
    PROVE  /\ RowSteps(a) \subseteq 1..Revision(Workflow(a))
           /\ IsFiniteSet(RowSteps(a)) /\ Cardinality(RowSteps(a)) \in Nat
           /\ \A k \in RowSteps(a) : k \in Nat /\ k <= Revision(Workflow(a))
<1>1. RowSteps(a) \subseteq 1..Revision(Workflow(a)) /\ Revision(Workflow(a)) \in Nat
  BY TypeFacts DEF RowsInv, RowsAreOwnSteps, OwnSteps
<1>2. IsFiniteSet(1..Revision(Workflow(a)))
  BY <1>1, FS_Interval
<1>3. IsFiniteSet(RowSteps(a))
  BY <1>1, <1>2, FS_Subset
<1> QED BY <1>1, <1>3, FS_CardinalityType

(* What an action does to the steps on record: nothing, or one more. *)
LEMMA SameRowSteps ==
    ASSUME NEW b \in Agents, Transitions(rows'[b]) = Transitions(rows[b]),
           \A k \in Transitions(rows[b]) : rows'[b][k] = rows[b][k]
    PROVE  RowSteps(b)' = RowSteps(b)
BY DEF RowSteps

(* A start or a resume puts no step on record. *)
LEMMA BeginRows ==
    ASSUME TypeOK, CallsOfRunning, NEW a \in Agents, StartTask(a) \/ ResumeTask(a),
           NEW b \in Agents
    PROVE  /\ RowSteps(b)' = RowSteps(b)
           /\ b # a => rows'[b] = rows[b]
<1>1. CASE rows[a] = <<>> /\ rows' = [rows EXCEPT ![a] = <<Row("started", 0, 0)>>]
  <2>1. Row("started", 0, 0) \in Rows /\ Row("started", 0, 0).kind = "started"
    BY WorkflowAssumption DEF Row, Rows, Revisions
  <2>2. rows' = [rows EXCEPT ![a] = Append(rows[a], Row("started", 0, 0))]
    BY <1>1
  <2>3. /\ Transitions(rows'[b]) = Transitions(rows[b])
        /\ \A k \in Transitions(rows[b]) : rows'[b][k] = rows[b][k]
    BY <2>1, <2>2, OtherRow
  <2> QED BY <1>1, <2>3, SameRowSteps DEF TypeOK
<1>2. CASE rows' = rows
  BY <1>2 DEF RowSteps
<1> QED BY <1>1, <1>2, BeginFact

(* Crediting a step puts no step on record. *)
LEMMA CreditRows ==
    ASSUME TypeOK, CallsOfRunning, NEW a \in Agents, CreditStep(a) \/ CreditStepFails(a),
           NEW b \in Agents
    PROVE  /\ RowSteps(b)' = RowSteps(b)
           /\ b # a => rows'[b] = rows[b]
<1>1. CountRow(count[a] + 1) \in Rows /\ CountRow(count[a] + 1).kind = "convergence"
  BY WorkflowAssumption DEF TypeOK, CountRow, Row, Rows, Revisions
<1>2. CASE rows' = [rows EXCEPT ![a] = Append(rows[a], CountRow(count[a] + 1))]
  <2>1. /\ Transitions(rows'[b]) = Transitions(rows[b])
        /\ \A k \in Transitions(rows[b]) : rows'[b][k] = rows[b][k]
    BY <1>1, <1>2, OtherRow
  <2> QED BY <1>2, <2>1, SameRowSteps DEF TypeOK
<1>3. CASE rows' = rows
  BY <1>3 DEF RowSteps
<1> QED BY <1>2, <1>3, CreditFact

(* Every action keeps the view of a session at its own steps or past them. *)
LEMMA ViewStep ==
    ASSUME TypeOK, CallsOfRunning, RowsInv, ViewIncludesOwnSteps, [Next]_vars, TypeOK', RowsInv'
    PROVE  ViewIncludesOwnSteps'
<1>0. /\ \A a \in up : \A k \in RowSteps(a) : view[a].revision >= k
      /\ DOMAIN view = Agents /\ DOMAIN rows = Agents /\ up \in SUBSET Agents
  BY ViewByRows DEF RowsInv, TypeOK
<1>1. SUFFICES \A a \in up' : \A k \in RowSteps(a)' : view'[a].revision >= k
  <2>1. RowsAreOwnSteps' /\ up' \in SUBSET Agents
    BY DEF RowsInv, TypeOK
  <2> QED BY <2>1 DEF RowsAreOwnSteps, ViewIncludesOwnSteps
<1>2. ASSUME UNCHANGED <<up, view>>, rows' = rows
      PROVE  \A a \in up' : \A k \in RowSteps(a)' : view'[a].revision >= k
  BY <1>0, <1>2 DEF RowSteps
<1>3. CASE UNCHANGED vars
  BY <1>2, <1>3 DEF vars
<1>4. CASE HostStep
  BY <1>2, <1>4, HostStepFact DEF session
<1>5. ASSUME NEW a \in Agents, CallStep(a)
      PROVE  \A b \in up' : \A k \in RowSteps(b)' : view'[b].revision >= k
  BY <1>2, <1>5, CallStepFact
<1>6. ASSUME NEW a \in Agents, StartTask(a) \/ ResumeTask(a)
      PROVE  \A b \in up' : \A k \in RowSteps(b)' : view'[b].revision >= k
  <2>1. ASSUME NEW k \in RowSteps(a)' PROVE view'[a].revision >= k
    <3>1. k \in RowSteps(a)
      BY <1>6, BeginRows
    <3>2. rows[a] # <<>>
      BY <3>1 DEF RowSteps, Transitions
    <3>3. view'[a] = ReplayedView(a)
      BY <1>6, <3>2, BeginFact
    <3> QED BY <3>1, <3>3, ReplayedViewFact
  <2>2. ASSUME NEW b \in up', b # a, NEW k \in RowSteps(b)' PROVE view'[b].revision >= k
    <3>1. b \in up /\ b \in Agents /\ view'[b] = view[b]
      BY <1>0, <1>6, <2>2, BeginFact
    <3>2. k \in RowSteps(b)
      BY <1>6, <2>2, <3>1, BeginRows
    <3> QED BY <1>0, <3>1, <3>2
  <2> QED BY <2>1, <2>2
<1>7. ASSUME NEW a \in Agents, ApplyStep(a)
      PROVE  \A b \in up' : \A k \in RowSteps(b)' : view'[b].revision >= k
  BY <1>2, <1>7, AppliedOwnStep
<1>8. ASSUME NEW a \in Agents,
             CommitStep(a) \/ \E kept \in BOOLEAN : CommitStepFails(a, kept)
      PROVE  \A b \in up' : \A k \in RowSteps(b)' : view'[b].revision >= k
  <2>1. /\ UNCHANGED <<log, pinned, up>> /\ call[a].at = "commit" /\ call[a].revision \in Nat
        /\ view' = [view EXCEPT ![a] = view'[a]] /\ view'[a].revision = call[a].revision
        /\ \/ rows' = [rows EXCEPT ![a] = Append(rows[a], TransitionRow(call[a]))]
           \/ rows' = rows
    BY <1>8, CommitFact
  <2>2. ASSUME NEW k \in RowSteps(a)' PROVE view'[a].revision >= k
    <3>1. k \in OwnSteps(a)
      <4>1. k \in OwnSteps(a)'
        BY <2>2 DEF RowsInv, RowsAreOwnSteps
      <4> QED BY <2>1, <4>1 DEF OwnSteps, Workflow, Revision
    <3>2. k \in Nat /\ k <= call[a].revision
      BY <2>1, <3>1, TypeFacts DEF RowsInv, OwnSteps
    <3> QED BY <2>1, <3>2
  <2>3. ASSUME NEW b \in up', b # a, NEW k \in RowSteps(b)' PROVE view'[b].revision >= k
    <3>1. b \in up /\ view'[b] = view[b] /\ rows'[b] = rows[b]
      BY <1>0, <2>1, <2>3
    <3> QED BY <1>0, <2>3, <3>1 DEF RowSteps
  <2> QED BY <2>2, <2>3
<1>9. ASSUME NEW a \in Agents, CreditStep(a) \/ CreditStepFails(a)
      PROVE  \A b \in up' : \A k \in RowSteps(b)' : view'[b].revision >= k
  <2>1. up' = up /\ view' = view
    BY <1>9, CreditFact
  <2>2. \A b \in Agents : RowSteps(b)' = RowSteps(b)
    BY <1>9, CreditRows
  <2> QED BY <1>0, <2>1, <2>2
<1>10. ASSUME NEW a \in Agents, AuthoritativeStateReady(a)
      PROVE  \A b \in up' : \A k \in RowSteps(b)' : view'[b].revision >= k
  <2>1. /\ up' = up /\ rows' = rows /\ view' = [view EXCEPT ![a] = Current(a)]
    BY <1>10, ReadyFact
  <2>2. \A k \in RowSteps(a) : Current(a).revision >= k
    BY RowStepsFact, TypeFacts DEF Current
  <2> QED BY <1>0, <2>1, <2>2 DEF RowSteps
<1>11. ASSUME NEW a \in Agents, GateMembership(a)
      PROVE  \A b \in up' : \A k \in RowSteps(b)' : view'[b].revision >= k
  BY <1>2, <1>11, GateFact
<1>12. CASE HostCrash
  BY <1>12, CrashFact
<1> QED
  BY <1>3, <1>4, <1>5, <1>6, <1>7, <1>8, <1>9, <1>10, <1>11, <1>12 DEF Next, HostStep, CallStep
-----------------------------------------------------------------------------
(* ReplayedCount as an operator of the journal. *)
BaseOf(rs) == IF Counts(rs) = {} THEN 0 ELSE Last(Counts(rs))
KnownOf(rs) == IF BaseOf(rs) = 0 THEN 0 ELSE rs[BaseOf(rs)].number
TailOf(rs) == {k \in Transitions(rs) : k > BaseOf(rs)}
CountOf(rs) == KnownOf(rs) + Cardinality(TailOf(rs))

(* The replayed count is an operator of the journal alone. *)
LEMMA CountOfRows == \A a \in Agents : ReplayedCount(a) = CountOf(rows[a])
BY DEF ReplayedCount, CountOf, KnownOf, BaseOf, TailOf

(* The last convergence row, the count it carries and the transitions after it. *)
LEMMA BaseFact ==
    ASSUME NEW rs \in Seq(Rows)
    PROVE  /\ BaseOf(rs) \in 0..Len(rs) /\ BaseOf(rs) \in Nat /\ Len(rs) \in Nat
           /\ KnownOf(rs) \in Nat
           /\ IsFiniteSet(TailOf(rs)) /\ Cardinality(TailOf(rs)) \in Nat
           /\ TailOf(rs) \subseteq 1..Len(rs)
<1>1. Len(rs) \in Nat /\ Counts(rs) \in SUBSET (1..Len(rs)) /\ TailOf(rs) \in SUBSET (1..Len(rs))
  BY DEF Counts, Transitions, TailOf
<1>2. Counts(rs) # {} => Last(Counts(rs)) \in Counts(rs)
  BY <1>1, LastFact
<1>3. BaseOf(rs) \in 0..Len(rs) /\ BaseOf(rs) \in Nat
  BY <1>1, <1>2 DEF BaseOf
<1>4. BaseOf(rs) # 0 => rs[BaseOf(rs)] \in Rows
  BY <1>1, <1>3
<1>5. KnownOf(rs) \in Nat
  BY <1>4 DEF KnownOf, Rows
<1>6. IsFiniteSet(1..Len(rs))
  BY <1>1, FS_Interval
<1>7. IsFiniteSet(TailOf(rs))
  BY <1>1, <1>6, FS_Subset
<1> QED BY <1>1, <1>3, <1>5, <1>7, FS_CardinalityType

(* A transition row adds one to the replayed count; a convergence row replaces it. *)
LEMMA CountOfAppend ==
    ASSUME NEW rs \in Seq(Rows), NEW r \in Rows
    PROVE  /\ r.kind = "transition" => CountOf(Append(rs, r)) = CountOf(rs) + 1
           /\ r.kind = "convergence" => CountOf(Append(rs, r)) = r.number
           /\ r.kind = "started" => CountOf(Append(rs, r)) = CountOf(rs)
<1> DEFINE qs == Append(rs, r)
           n == Len(rs) + 1
<1>0. /\ qs \in Seq(Rows) /\ Len(qs) = n /\ n \in Nat /\ Len(rs) \in Nat /\ n > Len(rs)
      /\ BaseOf(rs) \in 0..Len(rs) /\ KnownOf(rs) \in Nat
      /\ IsFiniteSet(TailOf(rs)) /\ Cardinality(TailOf(rs)) \in Nat
      /\ TailOf(rs) \subseteq 1..Len(rs) /\ n # 0
  BY BaseFact
<1>1. /\ Transitions(qs) = Transitions(rs) \cup (IF r.kind = "transition" THEN {n} ELSE {})
      /\ Counts(qs) = Counts(rs) \cup (IF r.kind = "convergence" THEN {n} ELSE {})
      /\ \A k \in 1..Len(rs) : qs[k] = rs[k]
      /\ qs[n] = r
      /\ Transitions(rs) \subseteq 1..Len(rs) /\ Counts(rs) \subseteq 1..Len(rs)
  BY AppendRow
<1>2. ASSUME r.kind # "convergence"
      PROVE  BaseOf(qs) = BaseOf(rs) /\ KnownOf(qs) = KnownOf(rs)
  <2>1. Counts(qs) = Counts(rs)
    BY <1>1, <1>2
  <2>2. BaseOf(qs) = BaseOf(rs)
    BY <2>1 DEF BaseOf
  <2>3. BaseOf(rs) # 0 => qs[BaseOf(rs)] = rs[BaseOf(rs)]
    BY <1>0, <1>1
  <2> QED BY <2>2, <2>3 DEF KnownOf
<1>3. ASSUME r.kind = "transition" PROVE CountOf(qs) = CountOf(rs) + 1
  <2>1. TailOf(qs) = TailOf(rs) \cup {n}
    BY <1>0, <1>1, <1>2, <1>3 DEF TailOf
  <2>2. n \notin TailOf(rs)
    BY <1>0
  <2> HIDE DEF qs, n
  <2>3. Cardinality(TailOf(qs)) = Cardinality(TailOf(rs)) + 1
    BY <1>0, <2>1, <2>2, FS_AddElement
  <2>4. KnownOf(qs) = KnownOf(rs)
    BY <1>2, <1>3
  <2> QED BY <1>0, <2>3, <2>4 DEF CountOf
<1>4. ASSUME r.kind = "convergence" PROVE CountOf(qs) = r.number
  <2>1. n \in Counts(qs) /\ Counts(qs) \in SUBSET (1..n) /\ Transitions(qs) \subseteq 1..Len(rs)
    BY <1>0, <1>1, <1>4
  <2> HIDE DEF qs
  <2>2. Last(Counts(qs)) \in Counts(qs) /\ \A j \in Counts(qs) : j <= Last(Counts(qs))
    BY <1>0, <2>1, LastFact
  <2>3. Last(Counts(qs)) = n
    BY <1>0, <2>1, <2>2
  <2>4. BaseOf(qs) = n
    BY <2>1, <2>3 DEF BaseOf
  <2>5. KnownOf(qs) = r.number /\ r.number \in Nat
    BY <1>0, <1>1, <2>4 DEF KnownOf, Rows
  <2>6. TailOf(qs) = {}
    BY <1>0, <2>1, <2>4 DEF TailOf
  <2>7. Cardinality(TailOf(qs)) = 0
    BY <2>6, FS_EmptySet
  <2> QED BY <2>5, <2>7 DEF CountOf
<1>5. ASSUME r.kind = "started" PROVE CountOf(qs) = CountOf(rs)
  <2>1. TailOf(qs) = TailOf(rs)
    BY <1>1, <1>2, <1>5 DEF TailOf
  <2> QED BY <1>2, <1>5, <2>1 DEF CountOf
<1> QED BY <1>3, <1>4, <1>5

(* A session whose journal and counter are left alone keeps its bounds. *)
LEMMA CountKept ==
    ASSUME CountInv, NEW b \in Agents, rows'[b] = rows[b],
           history'.uncounted[b] = history.uncounted[b]
    PROVE  /\ Within(ReplayedCount(b), b)'
           /\ /\ b \in up /\ count'[b] = count[b]
              /\ call'[b].at = "credit" <=> call[b].at = "credit"
              => Within(count[b] + Pending(b), b)'
<1>1. RowSteps(b)' = RowSteps(b) /\ ReplayedCount(b)' = ReplayedCount(b)
  BY DEF RowSteps, ReplayedCount
<1>2. Within(ReplayedCount(b), b)
  BY DEF CountInv
<1>3. Within(ReplayedCount(b), b)'
  BY <1>1, <1>2 DEF Within
<1>4. ASSUME b \in up, count'[b] = count[b], call'[b].at = "credit" <=> call[b].at = "credit"
      PROVE  Within(count[b] + Pending(b), b)'
  <2>1. Within(count[b] + Pending(b), b) /\ Pending(b)' = Pending(b)
    BY <1>4 DEF CountInv, Pending
  <2> QED BY <1>1, <1>4, <2>1 DEF Within
<1> QED BY <1>3, <1>4

(* Journals and counters that are left alone keep their bounds. *)
LEMMA CountUntouched ==
    ASSUME CountInv, rows' = rows, history'.uncounted = history.uncounted, up' \subseteq up,
           up \in SUBSET Agents,
           \A b \in up' : count'[b] = count[b] /\ (call'[b].at = "credit" <=> call[b].at = "credit")
    PROVE  CountInv'
<1>1. ASSUME NEW b \in Agents PROVE Within(ReplayedCount(b), b)'
  BY CountKept
<1>2. ASSUME NEW b \in up' PROVE Within(count[b] + Pending(b), b)'
  BY CountKept
<1> QED BY <1>1, <1>2 DEF CountInv

(* Every action keeps the counters at the steps on record. *)
LEMMA CountStep ==
    ASSUME TypeOK, CallsOfRunning, RowsInv, CountInv, [Next]_vars, TypeOK', RowsInv'
    PROVE  CountInv'
<1>0. /\ DOMAIN rows = Agents /\ DOMAIN call = Agents /\ DOMAIN count = Agents
      /\ up \in SUBSET Agents /\ up' \in SUBSET Agents
      /\ \A b \in Agents : /\ count[b] \in Nat /\ history.uncounted[b] \in Nat
                           /\ history'.uncounted[b] \in Nat
                           /\ rows[b] \in Seq(Rows) /\ CountOf(rows[b]) \in Nat
                           /\ Cardinality(RowSteps(b)) \in Nat
  <2>1. ASSUME NEW b \in Agents PROVE CountOf(rows[b]) \in Nat
    BY ReplayedCountType, CountOfRows
  <2> QED BY <2>1, RowStepsFact DEF TypeOK
<1>1. CASE UNCHANGED vars
  BY <1>0, <1>1, CountUntouched DEF vars
<1>2. CASE HostStep
  BY <1>0, <1>2, HostStepFact, CountUntouched DEF session
<1>3. ASSUME NEW a \in Agents, CallStep(a) PROVE CountInv'
  <2>1. \A b \in Agents : call'[b].at = "credit" <=> call[b].at = "credit"
    BY <1>0, <1>3, CallStepFact
  <2> QED BY <1>0, <1>3, <2>1, CallStepFact, CountUntouched
<1>4. ASSUME NEW a \in Agents,
             \A b \in Agents : b # a => /\ rows'[b] = rows[b] /\ call'[b] = call[b]
                                        /\ history'.uncounted[b] = history.uncounted[b]
                                        /\ count'[b] = count[b],
             up' \subseteq up \cup {a},
             Within(ReplayedCount(a), a)', Within(count[a] + Pending(a), a)'
      PROVE  CountInv'
  <2>1. ASSUME NEW b \in Agents PROVE Within(ReplayedCount(b), b)'
    <3>1. CASE b = a
      BY <1>4, <3>1
    <3>2. CASE b # a
      BY <1>4, <3>2, CountKept
    <3> QED BY <3>1, <3>2
  <2>2. ASSUME NEW b \in up' PROVE Within(count[b] + Pending(b), b)'
    <3>1. CASE b = a
      BY <1>4, <3>1
    <3>2. CASE b # a
      BY <1>0, <1>4, <3>2, CountKept
    <3> QED BY <3>1, <3>2
  <2> QED BY <2>1, <2>2 DEF CountInv
<1>5. ASSUME NEW a \in Agents, StartTask(a) \/ ResumeTask(a) PROVE CountInv'
  <2>1. /\ call' = call /\ call[a] = NoCall /\ up' = up \cup {a}
        /\ history'.uncounted = history.uncounted
        /\ count' = [count EXCEPT ![a] = count'[a]]
        /\ RowSteps(a)' = RowSteps(a)
        /\ \A b \in Agents : b # a => rows'[b] = rows[b]
    BY <1>5, BeginFact, BeginRows
  <2>2. Pending(a)' = 0
    BY <2>1 DEF Pending, NoCall
  <2>3. ReplayedCount(a)' = ReplayedCount(a) /\ count'[a] = ReplayedCount(a)
    <3>1. CASE rows' = rows /\ count'[a] = ReplayedCount(a)
      BY <3>1 DEF ReplayedCount
    <3>2. CASE /\ rows[a] = <<>> /\ rows' = [rows EXCEPT ![a] = <<Row("started", 0, 0)>>]
               /\ count'[a] = 0
      <4>1. Row("started", 0, 0) \in Rows /\ Row("started", 0, 0).kind = "started"
        BY WorkflowAssumption DEF Row, Rows, Revisions
      <4>2. rows'[a] = Append(rows[a], Row("started", 0, 0))
        BY <1>0, <3>2
      <4>3. CountOf(rows'[a]) = CountOf(rows[a])
        BY <1>0, <4>1, <4>2, CountOfAppend
      <4>4. TailOf(rows[a]) = {} /\ Counts(rows[a]) = {}
        BY <3>2 DEF TailOf, Transitions, Counts
      <4>5. CountOf(rows[a]) = 0
        BY <4>4, FS_EmptySet DEF CountOf, KnownOf, BaseOf
      <4>6. ReplayedCount(a)' = CountOf(rows'[a])
        BY DEF ReplayedCount, CountOf, KnownOf, BaseOf, TailOf
      <4> QED BY <3>2, <4>3, <4>5, <4>6, CountOfRows
    <3> QED BY <1>5, <3>1, <3>2, BeginFact
  <2>4. Within(ReplayedCount(a), a)
    BY DEF CountInv
  <2>5. ReplayedCount(a) \in Nat
    BY <1>0, CountOfRows
  <2>6. Within(ReplayedCount(a), a)'
    BY <2>1, <2>3, <2>4 DEF Within
  <2>7. Within(count[a] + Pending(a), a)'
    BY <2>1, <2>2, <2>3, <2>4, <2>5 DEF Within
  <2> QED BY <1>0, <1>4, <2>1, <2>6, <2>7
<1>6. ASSUME NEW a \in Agents, ApplyStep(a) PROVE CountInv'
  <2>1. \A b \in Agents : call'[b].at = "credit" <=> call[b].at = "credit"
    BY <1>0, <1>6, AppliedOwnStep DEF ApplyStep
  <2> QED BY <1>0, <1>6, <2>1, AppliedOwnStep, CountUntouched
<1>7. ASSUME NEW a \in Agents,
             CommitStep(a) \/ \E kept \in BOOLEAN : CommitStepFails(a, kept)
      PROVE  CountInv'
  <2>1. /\ UNCHANGED <<up, count>> /\ call[a].at = "commit" /\ call[a] \in Calls /\ a \in up
        /\ call' = [call EXCEPT ![a] = call'[a]]
    BY <1>7, CommitFact
  <2>2. Pending(a) = 0 /\ Within(count[a] + Pending(a), a) /\ Within(CountOf(rows[a]), a)
    <3>1. ReplayedCount(a) = CountOf(rows[a])
      BY CountOfRows
    <3> QED BY <2>1, <3>1 DEF CountInv, Pending
  <2>3. CASE /\ rows' = [rows EXCEPT ![a] = Append(rows[a], TransitionRow(call[a]))]
             /\ \/ call'[a].at = "credit" /\ history'.uncounted = history.uncounted
                \/ /\ call'[a].at = "idle"
                   /\ history'.uncounted = [history.uncounted EXCEPT ![a] = @ + 1]
    <3>1. TransitionRow(call[a]) \in Rows /\ TransitionRow(call[a]).kind = "transition"
      BY <2>1 DEF TransitionRow, Row, Rows, Calls
    <3>2. rows'[a] = Append(rows[a], TransitionRow(call[a]))
      BY <1>0, <2>3
    <3>3. CountOf(rows'[a]) = CountOf(rows[a]) + 1
      BY <1>0, <3>1, <3>2, CountOfAppend
    <3>4. ReplayedCount(a)' = CountOf(rows[a]) + 1
      BY <3>3 DEF ReplayedCount, CountOf, KnownOf, BaseOf, TailOf
    <3>5. Cardinality(RowSteps(a)') = Cardinality(RowSteps(a)) + 1
      <4>1. RowSteps(a)' = RowSteps(a) \cup {call[a].revision} /\ call[a].revision \notin RowSteps(a)
        BY <2>1, <2>3, CommittedRow
      <4> QED BY <4>1, RowStepsFact, FS_AddElement
    <3>6. \/ Pending(a)' = 1 /\ history'.uncounted[a] = history.uncounted[a]
          \/ Pending(a)' = 0 /\ history'.uncounted[a] = history.uncounted[a] + 1
      BY <2>3 DEF Pending, TypeOK
    <3>7. count'[a] = count[a]
      BY <2>1
    <3>8. Within(ReplayedCount(a), a)'
      BY <1>0, <2>2, <3>4, <3>5, <3>6 DEF Within
    <3>9. Within(count[a] + Pending(a), a)'
      BY <1>0, <2>2, <3>5, <3>6, <3>7 DEF Within
    <3>10. \A b \in Agents : b # a => /\ rows'[b] = rows[b] /\ call'[b] = call[b]
                                      /\ history'.uncounted[b] = history.uncounted[b]
                                      /\ count'[b] = count[b]
      BY <1>0, <2>1, <2>3 DEF TypeOK
    <3> QED BY <1>0, <1>4, <2>1, <3>8, <3>9, <3>10
  <2>4. CASE rows' = rows /\ call'[a].at = "idle" /\ history'.uncounted = history.uncounted
    BY <1>0, <2>1, <2>4, CountUntouched
  <2> QED BY <1>7, <2>3, <2>4, CommitFact
<1>8. ASSUME NEW a \in Agents, CreditStep(a) \/ CreditStepFails(a) PROVE CountInv'
  <2>1. /\ up' = up /\ history' = history /\ a \in up /\ call[a].at = "credit"
        /\ call' = [call EXCEPT ![a] = call'[a]] /\ call'[a].at = "idle"
        /\ count' = [count EXCEPT ![a] = count[a] + 1]
        /\ RowSteps(a)' = RowSteps(a)
        /\ \A b \in Agents : b # a => rows'[b] = rows[b]
    BY <1>8, CreditFact, CreditRows
  <2>2. Within(count[a] + 1, a) /\ Pending(a)' = 0 /\ count'[a] = count[a] + 1
    BY <1>0, <2>1 DEF CountInv, Pending
  <2>3. Within(count[a] + Pending(a), a)'
    BY <1>0, <2>1, <2>2 DEF Within
  <2>4. Within(ReplayedCount(a), a)'
    <3>1. CASE rows' = rows
      <4>1. ReplayedCount(a)' = ReplayedCount(a)
        BY <3>1 DEF ReplayedCount
      <4> QED BY <2>1, <4>1 DEF CountInv, Within
    <3>2. CASE rows' = [rows EXCEPT ![a] = Append(rows[a], CountRow(count[a] + 1))]
      <4>1. /\ CountRow(count[a] + 1) \in Rows /\ CountRow(count[a] + 1).kind = "convergence"
            /\ CountRow(count[a] + 1).number = count[a] + 1
        BY <1>0, WorkflowAssumption DEF CountRow, Row, Rows, Revisions
      <4>2. rows'[a] = Append(rows[a], CountRow(count[a] + 1))
        BY <1>0, <3>2
      <4>3. CountOf(rows'[a]) = count[a] + 1
        BY <1>0, <4>1, <4>2, CountOfAppend
      <4>4. ReplayedCount(a)' = count[a] + 1
        BY <4>3 DEF ReplayedCount, CountOf, KnownOf, BaseOf, TailOf
      <4> QED BY <2>1, <2>2, <4>4 DEF Within
    <3> QED BY <1>8, <3>1, <3>2, CreditFact
  <2>5. \A b \in Agents : b # a => call'[b] = call[b] /\ count'[b] = count[b]
    BY <1>0, <2>1
  <2> QED BY <1>0, <1>4, <2>1, <2>3, <2>4, <2>5
<1>9. ASSUME NEW a \in Agents, AuthoritativeStateReady(a) PROVE CountInv'
  <2>1. call[a].at # "credit" /\ call'[a].at # "credit"
    BY <1>9, ReadyFact DEF NoCall
  <2> QED BY <1>0, <1>9, <2>1, ReadyFact, CountUntouched
<1>10. ASSUME NEW a \in Agents, GateMembership(a) PROVE CountInv'
  BY <1>0, <1>10, GateFact, CountUntouched
<1>11. CASE HostCrash
  BY <1>0, <1>11, CrashFact, CountUntouched
<1> QED
  BY <1>1, <1>2, <1>3, <1>5, <1>6, <1>7, <1>8, <1>9, <1>10, <1>11 DEF Next, HostStep, CallStep
-----------------------------------------------------------------------------
(* A call goes past a check only if the authority agrees at that moment. *)
LEMMA CheckedCallStep ==
    ASSUME TypeOK, NEW a \in Agents, CallStep(a)
    PROVE  /\ call'[a].at \in {"inspect", "apply"} =>
                 call[a].at = "inspect" \/ MembershipCurrent(a)
           /\ call'[a].at = "membership" => RevocationCurrent(a)
<1> USE DEF Goto
<1>1. DOMAIN call = Agents /\ (call[a].at # "idle" => call[a] \in Calls)
  BY TypeFacts DEF TypeOK
<1>2. CASE \E asserted \in BOOLEAN, to \in States : RequestTransition(a, asserted, to)
  <2>1. call'[a].at = "resolve"
    BY <1>1, <1>2 DEF RequestTransition
  <2> QED BY <2>1
<1>3. CASE ResolveLegacyStep(a)
  <2>1. call'[a].at = "check"
    BY <1>1, <1>3 DEF ResolveLegacyStep, Calls
  <2> QED BY <2>1
<1>4. CASE \E s \in Steps, e \in SUBSET {view[a].revision} : RequestStep(a, s, e)
  <2>1. call'[a].at = "check"
    BY <1>1, <1>4 DEF RequestStep
  <2> QED BY <2>1
<1>5. CASE CheckMembership(a)
  <2>1. CASE MembershipCurrent(a)
    <3>1. call'[a].at = "inspect"
      BY <1>1, <1>5, <2>1 DEF CheckMembership, Calls
    <3> QED BY <2>1, <3>1
  <2>2. CASE ~MembershipCurrent(a)
    <3>1. call'[a].at = "idle"
      BY <1>1, <1>5, <2>2 DEF CheckMembership, NoCall
    <3> QED BY <3>1
  <2> QED BY <2>1, <2>2
<1>6. CASE InspectWorkflow(a)
  <2>1. call[a].at = "inspect" /\ call'[a].at \in {"idle", "apply"}
    BY <1>1, <1>6 DEF InspectWorkflow, Calls, NoCall
  <2> QED BY <2>1
<1>7. CASE Refused(a)
  <2>1. call'[a].at = "idle"
    BY <1>1, <1>7 DEF Refused, NoCall
  <2> QED BY <2>1
<1>8. CASE CheckRevocation(a)
  <2>1. CASE RevocationCurrent(a)
    <3>1. call'[a].at = "membership"
      BY <1>1, <1>8, <2>1 DEF CheckRevocation, Calls
    <3> QED BY <2>1, <3>1
  <2>2. CASE ~RevocationCurrent(a)
    <3>1. call'[a].at = "idle"
      BY <1>1, <1>8, <2>2 DEF CheckRevocation, NoCall
    <3> QED BY <3>1
  <2> QED BY <2>1, <2>2
<1> QED BY <1>2, <1>3, <1>4, <1>5, <1>6, <1>7, <1>8 DEF CallStep

(* Withdrawn authority is not given back to a running session. *)
LEMMA LateKept ==
    ASSUME LateInv, pinned' = pinned, revoked \subseteq revoked', expired \subseteq expired',
           profile = "immediate" => profile' = "immediate",
           NEW b \in Agents, history'.lateSteps[b] = history.lateSteps[b],
           history'.lateActions[b] = history.lateActions[b],
           call'[b].at \in {"inspect", "apply"} =>
               call[b].at \in {"inspect", "apply"} \/ history.lateSteps[b] # 1,
           call'[b].at = "membership" =>
               call[b].at = "membership" \/ history.lateActions[b] # 1
    PROVE  LateOnce(b)'
BY DEF LateInv, LateOnce

(* Every action keeps late steps and late actions at one. *)
LEMMA LateStep ==
    ASSUME TypeOK, CallsOfRunning, LateInv, [Next]_vars
    PROVE  LateInv'
<1>0. /\ DOMAIN call = Agents /\ history \in Histories /\ revoked \cup expired \subseteq Grants
      /\ pinned \in [Agents -> Grants \cup {None}]
  BY WorkflowAssumption DEF TypeOK, Histories
<1>1. CASE UNCHANGED vars
  BY <1>1, LateKept DEF vars, LateInv
<1>2. CASE HostStep
  BY <1>2, HostStepFact, LateKept DEF session, LateInv
<1>3. ASSUME NEW a \in Agents, UNCHANGED <<pinned, revoked, expired, profile, history>>,
             call' = [call EXCEPT ![a] = call'[a]],
             call'[a].at \in {"inspect", "apply"} => call[a].at = "inspect" \/ MembershipCurrent(a),
             call'[a].at = "membership" => RevocationCurrent(a)
      PROVE  LateInv'
  <2>1. MembershipCurrent(a) => pinned[a] \notin revoked \cup expired
    BY <1>0, WorkflowAssumption DEF MembershipCurrent, Valid
  <2>2. MembershipCurrent(a) => history.lateSteps[a] # 1
    BY <2>1 DEF LateInv, LateOnce
  <2>3. RevocationCurrent(a) => history.lateActions[a] # 1
    BY DEF RevocationCurrent, LateInv, LateOnce
  <2>4. ASSUME NEW b \in Agents PROVE LateOnce(b)'
    <3>1. CASE b = a
      BY <1>3, <2>2, <2>3, <3>1, LateKept
    <3>2. CASE b # a
      <4>1. call'[b] = call[b]
        BY <1>0, <1>3, <3>2
      <4> QED BY <1>3, <4>1, LateKept
    <3> QED BY <3>1, <3>2
  <2> QED BY <2>4 DEF LateInv
<1>4. ASSUME NEW a \in Agents, CallStep(a) PROVE LateInv'
  <2>1. UNCHANGED <<pinned, revoked, expired, profile, history>> /\ call' = [call EXCEPT ![a] = call'[a]]
    BY <1>4, CallStepFact
  <2> QED BY <1>3, <1>4, <2>1, CheckedCallStep
<1>5. ASSUME NEW a \in Agents, StartTask(a) \/ ResumeTask(a) PROVE LateInv'
  <2>1. /\ UNCHANGED <<revoked, expired, profile, pinned, call>>
        /\ history'.lateSteps = [history.lateSteps EXCEPT ![a] = 0]
        /\ history'.lateActions = [history.lateActions EXCEPT ![a] = 0]
    BY <1>5, BeginFact
  <2>2. ASSUME NEW b \in Agents PROVE LateOnce(b)'
    <3>1. CASE b = a
      <4>1. history'.lateSteps[b] = 0 /\ history'.lateActions[b] = 0
        BY <1>0, <2>1, <3>1 DEF Histories
      <4> QED BY <4>1 DEF LateOnce
    <3>2. CASE b # a
      <4>1. /\ history'.lateSteps[b] = history.lateSteps[b]
            /\ history'.lateActions[b] = history.lateActions[b]
        BY <1>0, <2>1, <3>2 DEF Histories
      <4> QED BY <2>1, <4>1, LateKept
    <3> QED BY <3>1, <3>2
  <2> QED BY <2>2 DEF LateInv
<1>6. ASSUME NEW a \in Agents, ApplyStep(a) PROVE LateInv'
  <2>1. /\ UNCHANGED <<revoked, expired, profile, pinned>> /\ call[a].at = "apply"
        /\ call' = [call EXCEPT ![a] = call'[a]] /\ call'[a].at = "commit"
    BY <1>6, AppliedOwnStep DEF ApplyStep, Goto
  <2>2. \/ history' = history
        \/ /\ pinned[a] \in revoked \cup expired
           /\ history' = [history EXCEPT !.lateSteps[a] = history.lateSteps[a] + 1]
    BY <1>6 DEF ApplyStep
  <2>3. history'.lateActions = history.lateActions
    BY <1>0, <2>2 DEF Histories
  <2>4. \/ history'.lateSteps = history.lateSteps
        \/ /\ pinned[a] \in revoked \cup expired
           /\ history'.lateSteps = [history.lateSteps EXCEPT ![a] = history.lateSteps[a] + 1]
    BY <1>0, <2>2 DEF Histories
  <2>5. ASSUME NEW b \in Agents, b # a PROVE LateOnce(b)'
    <3>1. /\ history'.lateSteps[b] = history.lateSteps[b] /\ call'[b] = call[b]
          /\ history'.lateActions[b] = history.lateActions[b]
      BY <1>0, <2>1, <2>3, <2>4, <2>5 DEF Histories
    <3> QED BY <2>1, <3>1, LateKept
  <2>6. LateOnce(a)'
    <3>1. CASE history'.lateSteps = history.lateSteps
      BY <2>1, <2>3, <3>1, LateKept
    <3>2. CASE /\ pinned[a] \in revoked \cup expired
               /\ history'.lateSteps = [history.lateSteps EXCEPT ![a] = history.lateSteps[a] + 1]
      <4>1. history.lateSteps[a] \in Nat /\ history.lateSteps[a] <= 1 /\ history.lateSteps[a] # 1
        BY <1>0, <2>1 DEF Histories, LateInv, LateOnce
      <4>2. history'.lateSteps[a] = 1
        BY <1>0, <3>2, <4>1 DEF Histories
      <4> QED BY <2>1, <2>3, <3>2, <4>2 DEF LateInv, LateOnce
    <3> QED BY <2>4, <3>1, <3>2
  <2> QED BY <2>5, <2>6 DEF LateInv
<1>7. ASSUME NEW a \in Agents,
             CommitStep(a) \/ \E kept \in BOOLEAN : CommitStepFails(a, kept)
      PROVE  LateInv'
  <2>1. /\ UNCHANGED <<revoked, expired, profile, pinned>>
        /\ call' = [call EXCEPT ![a] = call'[a]] /\ call'[a].at \in {"credit", "idle"}
    BY <1>7, CommitFact DEF CommitStep, CommitStepFails, Goto
  <2>2. history'.lateSteps = history.lateSteps /\ history'.lateActions = history.lateActions
    BY <1>0, <1>7 DEF CommitStep, CommitStepFails, Histories
  <2>3. \A b \in Agents : call'[b] = call[b] \/ call'[b].at \in {"credit", "idle"}
    BY <1>0, <2>1
  <2>4. \A b \in Agents : LateOnce(b)'
    BY <2>1, <2>2, <2>3, LateKept
  <2> QED BY <2>4 DEF LateInv
<1>8. ASSUME NEW a \in Agents, CreditStep(a) \/ CreditStepFails(a) PROVE LateInv'
  <2>1. /\ UNCHANGED <<revoked, expired, profile, pinned, history>>
        /\ call' = [call EXCEPT ![a] = call'[a]] /\ call'[a].at = "idle"
    BY <1>8, CreditFact
  <2> QED BY <1>3, <2>1
<1>9. ASSUME NEW a \in Agents, AuthoritativeStateReady(a) PROVE LateInv'
  <2>1. /\ UNCHANGED <<revoked, expired, profile, pinned, history>>
        /\ call' = [call EXCEPT ![a] = call'[a]] /\ call'[a].at = "revocation"
    BY <1>9, ReadyFact
  <2> QED BY <1>3, <2>1
<1>10. ASSUME NEW a \in Agents, GateMembership(a) PROVE LateInv'
  <2>1. /\ UNCHANGED <<revoked, expired, profile, pinned>> /\ call[a].at = "membership"
        /\ call' = [call EXCEPT ![a] = call'[a]] /\ call'[a].at = "idle"
        /\ history'.lateSteps = history.lateSteps
        /\ \/ history'.lateActions = history.lateActions
           \/ /\ a \in Adopters /\ profile = "immediate"
              /\ history'.lateActions = [history.lateActions EXCEPT ![a] = history.lateActions[a] + 1]
    BY <1>10, GateFact
  <2>2. ASSUME NEW b \in Agents, b # a PROVE LateOnce(b)'
    <3>1. history'.lateActions[b] = history.lateActions[b] /\ call'[b] = call[b]
      BY <1>0, <2>1, <2>2 DEF Histories
    <3> QED BY <2>1, <3>1, LateKept
  <2>3. LateOnce(a)'
    <3>1. CASE history'.lateActions = history.lateActions
      BY <2>1, <3>1, LateKept
    <3>2. CASE /\ a \in Adopters /\ profile = "immediate"
               /\ history'.lateActions = [history.lateActions EXCEPT ![a] = history.lateActions[a] + 1]
      <4>1. history.lateActions[a] \in Nat /\ history.lateActions[a] <= 1 /\ history.lateActions[a] # 1
        BY <1>0, <2>1 DEF Histories, LateInv, LateOnce
      <4>2. history'.lateActions[a] = 1
        BY <1>0, <3>2, <4>1 DEF Histories
      <4> QED BY <2>1, <3>2, <4>2 DEF LateInv, LateOnce
    <3> QED BY <2>1, <3>1, <3>2
  <2> QED BY <2>2, <2>3 DEF LateInv
<1>11. CASE HostCrash
  <2>1. \A b \in Agents : history'.lateSteps[b] = 0 /\ history'.lateActions[b] = 0
    BY <1>11, CrashFact
  <2> QED BY <2>1 DEF LateInv, LateOnce
<1> QED
  BY <1>1, <1>2, <1>4, <1>5, <1>6, <1>7, <1>8, <1>9, <1>10, <1>11 DEF Next, HostStep, CallStep
-----------------------------------------------------------------------------
(* The invariant holds initially. *)
LEMMA WorkflowStart ==
    ASSUME Init PROVE WorkflowInv
<1>1. TypeOK
  BY TypeInit
<1>2. /\ log = [w \in Workflows |-> <<>>] /\ up = {} /\ call = [a \in Agents |-> NoCall]
      /\ rows = [a \in Agents |-> <<>>]
      /\ \A a \in Agents : /\ history.lost[a] = {} /\ history.uncounted[a] = 0
                           /\ history.lateSteps[a] = 0 /\ history.lateActions[a] = 0
  BY DEF Init
<1>3. \A w \in Workflows : Revision(w) = 0
  BY <1>2 DEF Revision
<1>4. ASSUME NEW a \in Agents
      PROVE  OwnSteps(a) = {} /\ RowSteps(a) = {} /\ InCommit(a) = {} /\ call[a].at = "idle"
             /\ Transitions(rows[a]) = {} /\ Counts(rows[a]) = {}
  <2>1. Revision(Workflow(a)) = 0
    BY <1>1, <1>3, TypeFacts
  <2>2. OwnSteps(a) = {}
    BY <2>1 DEF OwnSteps
  <2>3. Transitions(rows[a]) = {} /\ Counts(rows[a]) = {}
    BY <1>2 DEF Transitions, Counts
  <2> QED BY <1>2, <2>2, <2>3 DEF RowSteps, InCommit, NoCall
<1>5. CallsOfRunning
  BY <1>2 DEF CallsOfRunning
<1>6. RowsInv
  BY <1>2, <1>4 DEF RowsInv, RowsAreOwnSteps
<1>7. AssertedInv
  <2>1. AppliedFromAssertedOrigin
    BY <1>3 DEF AppliedFromAssertedOrigin
  <2> QED BY <1>4, <2>1 DEF AssertedInv, Asserted
<1>8. ViewIncludesOwnSteps
  BY <1>2 DEF ViewIncludesOwnSteps
<1>9. CountInv
  <2>1. ASSUME NEW a \in Agents PROVE Within(ReplayedCount(a), a)
    <3>1. TailOf(rows[a]) = {} /\ BaseOf(rows[a]) = 0
      BY <1>4 DEF TailOf, BaseOf
    <3>2. CountOf(rows[a]) = 0
      BY <3>1, FS_EmptySet DEF CountOf, KnownOf
    <3>3. Cardinality(RowSteps(a)) = 0
      BY <1>4, FS_EmptySet
    <3> QED BY <1>2, <3>2, <3>3, CountOfRows DEF Within
  <2> QED BY <1>2, <2>1 DEF CountInv
<1>10. LateInv
  BY <1>2 DEF LateInv, LateOnce
<1> QED BY <1>1, <1>5, <1>6, <1>7, <1>8, <1>9, <1>10 DEF WorkflowInv

(* Every action keeps the invariant. *)
LEMMA WorkflowStep ==
    ASSUME WorkflowInv, [Next]_vars PROVE WorkflowInv'
<1>1. /\ TypeOK /\ CallsOfRunning /\ RowsInv /\ AssertedInv /\ ViewIncludesOwnSteps
      /\ CountInv /\ LateInv
  BY DEF WorkflowInv
<1>2. TypeOK' /\ CallsOfRunning'
  BY <1>1, TypeStep
<1>3. RowsInv'
  BY <1>1, RowsStep
<1>4. AssertedInv'
  BY <1>1, AssertedStep
<1>5. ViewIncludesOwnSteps'
  BY <1>1, <1>2, <1>3, ViewStep
<1>6. CountInv'
  BY <1>1, <1>2, <1>3, CountStep
<1>7. LateInv'
  BY <1>1, LateStep
<1> QED BY <1>2, <1>3, <1>4, <1>5, <1>6, <1>7 DEF WorkflowInv

(* The inductive invariant of the shared workflow. *)
LEMMA WorkflowInvariant == Spec => []WorkflowInv
<1>1. Init => WorkflowInv
  BY WorkflowStart
<1>2. WorkflowInv /\ [Next]_vars => WorkflowInv'
  BY WorkflowStep
<1> QED BY <1>1, <1>2, PTL DEF Spec

(* For any number of sessions, grants and steps: a session's transition rows are
   its own applied steps in their order, a step without a row is being committed
   or was lost to a crash or a failed write, and the retry counter counts each
   step on record once, also after a replay (record_workflow_step). *)
THEOREM StepsAreOnRecord == Spec => []StepsOnRecord
<1>1. WorkflowInv => StepsOnRecord
  <2> SUFFICES ASSUME WorkflowInv PROVE StepsOnRecord
    OBVIOUS
  <2>1. TypeOK /\ RowsInv /\ CountInv
    BY DEF WorkflowInv
  <2>2. ASSUME NEW a \in up, call[a].at # "credit"
        PROVE  LET n == Cardinality(RowSteps(a))
               IN n - history.uncounted[a] <= count[a] /\ count[a] <= n
    <3>1. Within(count[a] + 0, a) /\ a \in Agents
      BY <2>1, <2>2 DEF CountInv, Pending, TypeOK
    <3>2. count[a] \in Nat /\ history.uncounted[a] \in Nat /\ Cardinality(RowSteps(a)) \in Nat
      BY <2>1, <3>1, RowStepsFact DEF TypeOK
    <3> QED BY <3>1, <3>2 DEF Within
  <2> QED BY <2>1, <2>2 DEF StepsOnRecord, StepsCountedOnce, RowsInv
<1> QED BY <1>1, WorkflowInvariant, PTL

(* A transition whose caller asserted an origin is applied to the workflow in
   that state, whatever other sessions do between the inspection, the resolution
   and the application of the step (record_state_transition). *)
THEOREM OriginIsAsserted == Spec => []AppliedFromAssertedOrigin
<1>1. WorkflowInv => AppliedFromAssertedOrigin
  BY DEF WorkflowInv, AssertedInv
<1> QED BY <1>1, WorkflowInvariant, PTL

(* The state a running session believes in is never from before its own last
   durable step, also when a resume writes the replayed state over the inspected
   one (_restore_session). *)
THEOREM ViewIsNotBehind == Spec => []ViewIncludesOwnSteps
<1>1. WorkflowInv => ViewIncludesOwnSteps
  BY DEF WorkflowInv
<1> QED BY <1>1, WorkflowInvariant, PTL

(* After a grant is revoked or expires, or the profile is revoked immediately, at
   most the one call that is past its check goes through in each session
   (_membership_current, _revocation_current). *)
THEOREM RevocationIsHeeded == Spec => []RevocationBites
<1>1. WorkflowInv => RevocationBites
  BY DEF WorkflowInv, LateInv, LateOnce, RevocationBites
<1> QED BY <1>1, WorkflowInvariant, PTL
-----------------------------------------------------------------------------
(* Route decisions. *)
DecisionSet == [id : Nat, route : Routes, reason : {"frozen", "host_selected"}, executed : BOOLEAN]

(* Attestations. *)
EvidenceSet == [id : Nat, kind : {"tool_result", "validation_result", "observation"},
                invocation : Invocations \cup {"none"}]

(* What an outcome cites. *)
Citations == [1..1 -> EvidenceSet] \cup [1..2 -> EvidenceSet]

(* Evaluated outcomes. *)
OutcomeSet == [decision : DecisionSet, refs : Citations,
               outcome : {"PASS", "FAIL", "NOT_APPLICABLE"}]

(* What a session holds, and what its rows replay to. *)
Views == [decisions : Seq(DecisionSet), outcomes : SUBSET OutcomeSet,
          evidence : SUBSET EvidenceSet, invalidated : SUBSET EvidenceSet,
          result : [Invocations -> {"pass", "fail", "empty", "none"}], blockers : SUBSET Blockers]

(* Every variable of the routes has its type. *)
RouteTyped ==
    /\ status \in {"starting", "up", "down"}
    /\ memory \in Views /\ recorded \in Views
    /\ initials \in Nat /\ attested \in Nat
    /\ told \in [decisions : SUBSET DecisionSet,
                  blockers : [Blockers -> {"active", "cleared", "unsure"}]]

(* The outcome is what one of the reports R says of a validation it cites. *)
GroundedIn(o, R) ==
    /\ o.outcome = "PASS" => \E k \in DOMAIN o.refs :
          o.refs[k].kind = "validation_result" /\ <<o.refs[k].invocation, "pass">> \in R
    /\ o.outcome = "FAIL" => \E k \in DOMAIN o.refs :
          o.refs[k].kind = "validation_result" /\ <<o.refs[k].invocation, "fail">> \in R
    /\ o.decision.executed => o.decision.route = Candidate

(* What a view holds rests on the reports R: its decisive results were reported, a
   validation is of an invocation, and outcomes are grounded. *)
ViewInv(v, R) ==
    /\ \A k \in DOMAIN v.decisions : v.decisions[k].executed => v.decisions[k].route = Candidate
    /\ \A e \in v.evidence : e.kind = "validation_result" => e.invocation \in Invocations
    /\ \A i \in Invocations : v.result[i] \in {"pass", "fail"} => <<i, v.result[i]>> \in R
    /\ \A o \in v.outcomes : GroundedIn(o, R)

(* The frozen decisions are the first n of the journal; while the session starts they
   are all of it. *)
FrozenFirst(n) ==
    /\ n <= Len(recorded.decisions)
    /\ \A k \in DOMAIN recorded.decisions :
          IF k <= n
          THEN recorded.decisions[k].reason = "frozen" /\ recorded.decisions[k].route = Initial[k]
          ELSE recorded.decisions[k].reason # "frozen"
    /\ status = "starting" => n = Len(recorded.decisions) /\ n = initials /\ n < Len(Initial)

(* What the host was told of a blocker is so in memory and in the journal. *)
BlockersKnown ==
    \A b \in Blockers :
       /\ told.blockers[b] = "active" => b \in memory.blockers /\ b \in recorded.blockers
       /\ told.blockers[b] = "cleared" => b \notin memory.blockers /\ b \notin recorded.blockers

(* The inductive invariant of the routes. *)
RouteInv ==
    /\ RouteTyped
    /\ ViewInv(memory, reports) /\ ViewInv(recorded, reports)
    /\ \E n \in 0..Len(Initial) : FrozenFirst(n)
    /\ told.decisions \subseteq Route!Range(recorded.decisions)
    /\ BlockersKnown

(* The constants of the routes. *)
LEMMA RouteFacts == Initial \in Seq(Routes) /\ Candidate \in Routes /\ Len(Initial) \in Nat
BY RouteAssumption DEF Route!RouteConstants

(* The length of two sequences. *)
LEMMA BothLengths ==
    ASSUME NEW S, NEW s \in Seq(S), NEW t \in Seq(S)
    PROVE  Len(s) + Len(t) \in Nat
<1>1. Len(s) \in Nat /\ Len(t) \in Nat
  OBVIOUS
<1> QED BY <1>1

(* Recording a decision keeps what a view rests on. *)
LEMMA DecidedKeeps ==
    ASSUME RouteTyped, NEW v \in Views, NEW R, ViewInv(v, R), NEW route \in Routes,
           NEW reason \in {"frozen", "host_selected"}
    PROVE  LET d == Route!Decision(route, reason)
               w == Route!Decided(v, d)
           IN  /\ d \in DecisionSet /\ d.reason = reason /\ d.route = route
               /\ w \in Views /\ ViewInv(w, R) /\ w.blockers = v.blockers
               /\ w.decisions = Append(v.decisions, d)
<1> DEFINE d == Route!Decision(route, reason)
           w == Route!Decided(v, d)
<1>1. d \in DecisionSet /\ (d.executed => route = Candidate) /\ d.route = route /\ d.reason = reason
  <2>1. Len(memory.decisions) + Len(recorded.decisions) \in Nat
    <3>1. memory.decisions \in Seq(DecisionSet) /\ recorded.decisions \in Seq(DecisionSet)
      BY DEF RouteTyped, Views
    <3> QED BY <3>1, BothLengths
  <2> DEFINE x == Cohort = "treatment" /\ route = Candidate
             n == Len(memory.decisions) + Len(recorded.decisions)
  <2>2. n \in Nat
    BY <2>1
  <2>4. x \in BOOLEAN /\ (x => route = Candidate)
    BY Zenon
  <2>3. d = [id |-> n, route |-> route, reason |-> reason, executed |-> x]
    BY Zenon DEF Route!Decision
  <2> HIDE DEF x, n, d
  <2> QED BY <2>2, <2>3, <2>4 DEF DecisionSet
<1> HIDE DEF d
<1>2. w \in Views /\ w.decisions = Append(v.decisions, d) /\ w.evidence = v.evidence
      /\ w.result = v.result /\ w.outcomes = v.outcomes /\ w.blockers = v.blockers
  <2>1. v.decisions \in Seq(DecisionSet)
    BY DEF Views
  <2>2. Append(v.decisions, d) \in Seq(DecisionSet)
    BY <1>1, <2>1
  <2>3. w = [v EXCEPT !.decisions = Append(v.decisions, d)]
    BY DEF Route!Decided
  <2> HIDE DEF w
  <2> QED BY <2>2, <2>3 DEF Views
<1>3. ASSUME NEW k \in DOMAIN w.decisions
      PROVE  w.decisions[k].executed => w.decisions[k].route = Candidate
  <2>1. v.decisions \in Seq(DecisionSet)
    BY DEF Views
  <2>2. CASE k = Len(v.decisions) + 1
    BY <1>1, <1>2, <2>1, <2>2
  <2>3. CASE k # Len(v.decisions) + 1
    <3>1. k \in DOMAIN v.decisions /\ w.decisions[k] = v.decisions[k]
      BY <1>1, <1>2, <2>1, <2>3
    <3> QED BY <3>1 DEF ViewInv
  <2> QED BY <2>2, <2>3
<1> HIDE DEF w
<1>4. ViewInv(w, R)
  BY <1>2, <1>3 DEF ViewInv
<1> QED BY <1>1, <1>2, <1>4 DEF d, w

(* Attesting evidence keeps what a view rests on. *)
LEMMA AttestedKeeps ==
    ASSUME RouteTyped, NEW v \in Views, NEW R, ViewInv(v, R),
           NEW kind \in {"tool_result", "validation_result", "observation"},
           NEW i \in Invocations \cup {"none"}, kind # "observation" => i \in Invocations
    PROVE  LET w == Route!Attested(v, kind, i)
           IN  /\ w \in Views /\ ViewInv(w, R) /\ w.blockers = v.blockers
               /\ w.decisions = v.decisions
<1> DEFINE w == Route!Attested(v, kind, i)
           e == Route!Attestation(kind, i)
<1>1. e \in EvidenceSet /\ e.kind = kind /\ e.invocation = i
  BY DEF Route!Attestation, EvidenceSet, RouteTyped
<1> HIDE DEF e
<1>2. w \in Views /\ w.decisions = v.decisions /\ w.evidence = v.evidence \cup {e}
      /\ w.result = v.result /\ w.outcomes = v.outcomes /\ w.blockers = v.blockers
  BY <1>1 DEF Route!Attested, Views, e
<1> HIDE DEF w
<1>3. ViewInv(w, R)
  BY <1>1, <1>2 DEF ViewInv
<1> QED BY <1>2, <1>3 DEF w

(* More reports ground no less. *)
LEMMA MoreReports ==
    ASSUME NEW v, NEW R, NEW S, R \subseteq S, ViewInv(v, R)
    PROVE  ViewInv(v, S)
BY DEF ViewInv, GroundedIn

(* The first decisive validation among the references decides. *)
LEMMA OutcomeFacts ==
    ASSUME RouteInv, NEW refs \in Route!References
    PROVE  /\ refs \in Citations
           /\ Route!Outcome(refs) \in {"PASS", "FAIL", "NOT_APPLICABLE"}
           /\ Route!Outcome(refs) = "PASS" => \E k \in DOMAIN refs : Route!Verdict(refs[k]) = "pass"
           /\ Route!Outcome(refs) = "FAIL" => \E k \in DOMAIN refs : Route!Verdict(refs[k]) = "fail"
           /\ \A k \in DOMAIN refs : refs[k] \in memory.evidence
<1>1. memory.evidence \subseteq EvidenceSet
  BY DEF RouteInv, RouteTyped, Views
<1>2. refs \in Citations /\ \A k \in DOMAIN refs : k \in Nat /\ refs[k] \in memory.evidence
  <2>1. CASE \E e \in memory.evidence : refs = <<e>>
    BY <1>1, <2>1 DEF Citations
  <2>2. CASE \E q \in memory.evidence \X memory.evidence : refs = <<q[1], q[2]>>
    BY <1>1, <2>2 DEF Citations
  <2> QED BY <2>1, <2>2 DEF Route!References
<1> DEFINE D == {k \in DOMAIN refs : Route!Verdict(refs[k]) \in {"pass", "fail"}}
<1>3. ASSUME D # {}
      PROVE  Route!Min(D) \in D
  <2>1. D \subseteq Nat
    BY <1>2
  <2>2. \E m \in D : \A k \in D : m <= k
    <3>1. PICK m \in D : \A k \in D : <<k, m>> \notin OpToRel(<, Nat)
      BY <1>3, <2>1, NatLessThanWellFounded, WFMin
    <3>2. \A k \in D : ~(k < m)
      BY <2>1, <3>1 DEF OpToRel
    <3> QED BY <2>1, <3>2
  <2> QED BY <2>2 DEF Route!Min
<1>4. CASE D = {}
  BY <1>2, <1>4 DEF Route!Outcome
<1>5. CASE D # {}
  BY <1>2, <1>3, <1>5 DEF Route!Outcome
<1> QED BY <1>2, <1>4, <1>5

(* Evaluating an outcome keeps what a view rests on. *)
LEMMA EvaluatedKeeps ==
    ASSUME RouteInv, NEW v \in Views, ViewInv(v, reports),
           NEW d \in Route!Range(memory.decisions), NEW refs \in Route!References
    PROVE  LET w == Route!Evaluated(v, d, refs)
           IN  /\ w \in Views /\ ViewInv(w, reports) /\ w.blockers = v.blockers
               /\ w.decisions = v.decisions
<1> DEFINE w == Route!Evaluated(v, d, refs)
           o == [decision |-> d, refs |-> refs, outcome |-> Route!Outcome(refs)]
<1>1. d \in DecisionSet /\ (d.executed => d.route = Candidate)
  <2>1. memory.decisions \in Seq(DecisionSet)
    BY DEF RouteInv, RouteTyped, Views
  <2>2. PICK k \in DOMAIN memory.decisions : d = memory.decisions[k]
    BY DEF Route!Range
  <2>3. d \in DecisionSet
    BY <2>1, <2>2
  <2> QED BY <2>2, <2>3 DEF RouteInv, ViewInv
<1>2. o \in OutcomeSet /\ o.decision = d /\ o.refs = refs /\ o.outcome = Route!Outcome(refs)
  BY <1>1, OutcomeFacts DEF OutcomeSet
<1>3. ASSUME NEW k \in DOMAIN refs, Route!Verdict(refs[k]) \in {"pass", "fail"}
      PROVE  /\ refs[k].kind = "validation_result"
             /\ <<refs[k].invocation, Route!Verdict(refs[k])>> \in reports
  <2>1. refs[k].kind = "validation_result" /\ Route!Verdict(refs[k]) = memory.result[refs[k].invocation]
    BY <1>3 DEF Route!Verdict
  <2>2. refs[k].invocation \in Invocations
    BY <2>1, OutcomeFacts DEF RouteInv, ViewInv
  <2> QED BY <1>3, <2>1, <2>2 DEF RouteInv, ViewInv
<1> HIDE DEF o
<1>4. GroundedIn(o, reports)
  BY <1>1, <1>2, <1>3, OutcomeFacts DEF GroundedIn
<1>5. w \in Views /\ w.decisions = v.decisions /\ w.evidence = v.evidence
      /\ w.result = v.result /\ w.outcomes = v.outcomes \cup {o} /\ w.blockers = v.blockers
  BY <1>2 DEF Route!Evaluated, Views, o
<1> HIDE DEF w
<1>6. ViewInv(w, reports)
  BY <1>4, <1>5 DEF ViewInv
<1> QED BY <1>5, <1>6 DEF w

(* Operations that leave decisions, blockers and what the host was told as they are. *)
LEMMA QuietRouteStep ==
    ASSUME RouteInv, memory' \in Views, recorded' \in Views, attested' \in Nat,
           ViewInv(memory', reports'), ViewInv(recorded', reports'),
           memory'.blockers = memory.blockers,
           recorded'.blockers \in {recorded.blockers, memory.blockers},
           recorded'.decisions = recorded.decisions,
           status' \in {"up", "down"} \/ status' = status, UNCHANGED <<initials, told>>
    PROVE  RouteInv'
<1>1. RouteTyped'
  BY DEF RouteInv, RouteTyped
<1>2. \E n \in 0..Len(Initial) : FrozenFirst(n)'
  BY DEF RouteInv, FrozenFirst
<1>3. BlockersKnown'
  BY DEF RouteInv, BlockersKnown
<1> QED BY <1>1, <1>2, <1>3 DEF RouteInv, Route!Range

(* Operations that record a row of evidence or of an outcome. *)
LEMMA RecordStep ==
    ASSUME RouteInv, NEW kept \in Views, NEW row \in Views, NEW upto,
           Route!Record(kept, row, upto), attested' \in Nat,
           ViewInv(kept, reports), ViewInv(row, reports),
           kept.blockers = memory.blockers, row.blockers = recorded.blockers,
           row.decisions = recorded.decisions,
           UNCHANGED <<status, initials, told, reports>>
    PROVE  RouteInv'
<1>1. memory' = kept /\ recorded' \in {recorded, row}
  BY DEF Route!Record
<1>2. recorded \in Views /\ ViewInv(recorded, reports)
  BY DEF RouteInv, RouteTyped
<1> QED BY <1>1, <1>2, QuietRouteStep

(* Recording a decision: a frozen one while the session starts, another one later. *)
LEMMA DecisionStep ==
    ASSUME RouteInv, NEW route \in Routes, NEW reason \in {"frozen", "host_selected"}, NEW upto,
           Route!RecordRouteDecision(route, reason, upto),
           reason = "frozen" =>
              /\ status = "starting" /\ route = Initial[initials + 1] /\ initials' = initials + 1
              /\ upto # "done" => status' = "down"
              /\ upto = "done" =>
                    status' = IF initials' = Len(Initial) THEN "up" ELSE "starting",
           reason # "frozen" => status = "up" /\ status' = status /\ initials' = initials,
           UNCHANGED <<attested, reports>>
    PROVE  RouteInv'
<1>d. PICK d : d = Route!Decision(route, reason)
  OBVIOUS
<1>0. memory \in Views /\ recorded \in Views /\ RouteTyped
      /\ recorded.decisions \in Seq(DecisionSet)
  BY DEF RouteInv, RouteTyped, Views
<1>1. /\ d \in DecisionSet /\ d.reason = reason /\ d.route = route
      /\ memory' \in Views /\ ViewInv(memory', reports) /\ memory'.blockers = memory.blockers
  <2>1. memory' = Route!Decided(memory, d)
    BY <1>d DEF Route!RecordRouteDecision, Route!Record
  <2> QED BY <1>d, <1>0, <2>1, DecidedKeeps DEF RouteInv
<1>2. /\ recorded' \in Views /\ ViewInv(recorded', reports)
      /\ recorded'.blockers = recorded.blockers
      /\ recorded'.decisions = IF upto = "memory" THEN recorded.decisions
                               ELSE Append(recorded.decisions, d)
  <2>1. CASE upto = "memory"
    BY <1>0, <2>1 DEF Route!RecordRouteDecision, Route!Record, RouteInv
  <2>2. CASE upto # "memory"
    <3>1. recorded' = Route!Decided(recorded, d)
      BY <1>d, <2>2 DEF Route!RecordRouteDecision, Route!Record
    <3> QED BY <1>d, <1>0, <2>2, <3>1, DecidedKeeps DEF RouteInv
  <2> QED BY <2>1, <2>2
<1>3. /\ told'.blockers = told.blockers
      /\ told'.decisions = IF upto = "done" THEN told.decisions \cup {d} ELSE told.decisions
      /\ told' \in [decisions : SUBSET DecisionSet,
                    blockers : [Blockers -> {"active", "cleared", "unsure"}]]
  BY <1>d, <1>0, <1>1 DEF Route!RecordRouteDecision, RouteTyped
<1>4. RouteTyped'
  BY <1>0, <1>1, <1>2, <1>3 DEF RouteTyped
<1>5. BlockersKnown'
  BY <1>1, <1>2, <1>3 DEF RouteInv, BlockersKnown
<1>6. told'.decisions \subseteq Route!Range(recorded'.decisions)
  <2>1. Route!Range(recorded.decisions) \subseteq Route!Range(recorded'.decisions)
    BY <1>0, <1>1, <1>2 DEF Route!Range
  <2>2. upto = "done" => d \in Route!Range(recorded'.decisions)
    <3> SUFFICES ASSUME upto = "done" PROVE d \in Route!Range(recorded'.decisions)
      OBVIOUS
    <3>1. recorded'.decisions = Append(recorded.decisions, d)
      BY <1>2
    <3>2. Len(recorded.decisions) + 1 \in DOMAIN recorded'.decisions
          /\ recorded'.decisions[Len(recorded.decisions) + 1] = d
      BY <1>0, <1>1, <3>1
    <3> QED BY <3>2 DEF Route!Range
  <2> QED BY <1>3, <2>1, <2>2 DEF RouteInv
<1>7. PICK n \in 0..Len(Initial) : FrozenFirst(n)
  BY DEF RouteInv
<1>8. \E m \in 0..Len(Initial) : FrozenFirst(m)'
  <2>0. Len(Initial) \in Nat /\ n \in Nat /\ Len(recorded.decisions) \in Nat /\ initials \in Nat
        /\ n <= Len(recorded.decisions)
    BY <1>0, <1>7, RouteFacts DEF RouteTyped, FrozenFirst
  <2>1. CASE upto = "memory"
    <3>1. FrozenFirst(n)'
      BY <1>2, <1>7, <2>0, <2>1 DEF FrozenFirst
    <3> QED BY <3>1
  <2>2. CASE upto # "memory"
    <3>1. /\ DOMAIN recorded'.decisions = 1..(Len(recorded.decisions) + 1)
          /\ Len(recorded'.decisions) = Len(recorded.decisions) + 1
          /\ recorded'.decisions[Len(recorded.decisions) + 1] = d
          /\ DOMAIN recorded.decisions = 1..Len(recorded.decisions)
          /\ \A k \in 1..Len(recorded.decisions) : recorded'.decisions[k] = recorded.decisions[k]
      BY <1>0, <1>1, <1>2, <2>2
    <3>2. CASE reason = "frozen"
      <4>1. n = Len(recorded.decisions) /\ n = initials /\ n < Len(Initial)
        BY <1>7, <3>2 DEF FrozenFirst
      <4>2. n + 1 \in 0..Len(Initial)
        BY <2>0, <4>1
      <4>3. ASSUME NEW k \in DOMAIN recorded'.decisions
            PROVE  k <= n + 1 /\ recorded'.decisions[k].reason = "frozen"
                   /\ recorded'.decisions[k].route = Initial[k]
        <5>1. CASE k = n + 1
          BY <1>1, <2>0, <3>1, <3>2, <4>1, <5>1
        <5>2. CASE k # n + 1
          BY <1>7, <2>0, <3>1, <4>1, <4>3, <5>2 DEF FrozenFirst
        <5> QED BY <5>1, <5>2
      <4>4. status' = "starting" => n + 1 < Len(Initial) /\ initials' = n + 1
        BY <2>0, <3>2, <4>1
      <4>5. FrozenFirst(n + 1)'
        BY <2>0, <3>1, <4>1, <4>3, <4>4 DEF FrozenFirst
      <4> QED BY <4>2, <4>5
    <3>3. CASE reason # "frozen"
      <4>1. ASSUME NEW k \in DOMAIN recorded'.decisions
            PROVE  IF k <= n
                   THEN recorded'.decisions[k].reason = "frozen"
                        /\ recorded'.decisions[k].route = Initial[k]
                   ELSE recorded'.decisions[k].reason # "frozen"
        <5>1. CASE k = Len(recorded.decisions) + 1
          BY <1>1, <2>0, <3>1, <3>3, <5>1
        <5>2. CASE k # Len(recorded.decisions) + 1
          BY <1>7, <2>0, <3>1, <4>1, <5>2 DEF FrozenFirst
        <5> QED BY <5>1, <5>2
      <4>2. FrozenFirst(n)'
        BY <2>0, <3>1, <3>3, <4>1 DEF FrozenFirst
      <4> QED BY <4>2
    <3> QED BY <3>2, <3>3
  <2> QED BY <2>1, <2>2
<1> QED BY <1>1, <1>2, <1>4, <1>5, <1>6, <1>8 DEF RouteInv

(* Changing a blocker: the snapshot agrees with memory, and for the one that changed
   the host knows only what was returned to it. *)
LEMMA BlockerStep ==
    ASSUME RouteInv, NEW b \in Blockers, NEW blockers, NEW answer, NEW upto,
           Route!ChangeBlockers(b, blockers, answer, upto),
           \/ blockers = memory.blockers \cup {b} /\ answer = "active"
           \/ blockers = memory.blockers \ {b} /\ answer = "cleared"
    PROVE  RouteInv'
<1>0. memory \in Views /\ recorded \in Views /\ blockers \in SUBSET Blockers
      /\ told \in [decisions : SUBSET DecisionSet,
                   blockers : [Blockers -> {"active", "cleared", "unsure"}]]
  BY DEF RouteInv, RouteTyped, Views
<1>1. /\ memory' \in Views /\ memory'.blockers = blockers
      /\ memory'.decisions = memory.decisions /\ memory'.evidence = memory.evidence
      /\ memory'.result = memory.result /\ memory'.outcomes = memory.outcomes
  BY <1>0 DEF Route!ChangeBlockers, Views
<1>2. /\ recorded' \in Views
      /\ recorded'.blockers = IF upto = "memory" THEN recorded.blockers ELSE blockers
      /\ recorded'.decisions = recorded.decisions /\ recorded'.evidence = recorded.evidence
      /\ recorded'.result = recorded.result /\ recorded'.outcomes = recorded.outcomes
  BY <1>0 DEF Route!ChangeBlockers, Route!Snapshot, Views
<1>3. /\ told'.decisions = told.decisions
      /\ told'.blockers = [told.blockers EXCEPT ![b] = IF upto = "done" THEN answer ELSE "unsure"]
      /\ told' \in [decisions : SUBSET DecisionSet,
                    blockers : [Blockers -> {"active", "cleared", "unsure"}]]
  BY <1>0 DEF Route!ChangeBlockers
<1>4. status' = status /\ initials' = initials /\ attested' = attested /\ reports' = reports
  BY DEF Route!ChangeBlockers
<1>5. ViewInv(memory', reports') /\ ViewInv(recorded', reports')
  BY <1>1, <1>2, <1>4 DEF RouteInv, ViewInv
<1>6. RouteTyped'
  BY <1>1, <1>2, <1>3, <1>4 DEF RouteInv, RouteTyped
<1>7. BlockersKnown'
  <2> SUFFICES ASSUME NEW c \in Blockers
               PROVE  /\ told'.blockers[c] = "active"
                            => c \in memory'.blockers /\ c \in recorded'.blockers
                      /\ told'.blockers[c] = "cleared"
                            => c \notin memory'.blockers /\ c \notin recorded'.blockers
    BY DEF BlockersKnown
  <2>1. CASE c = b
    BY <1>0, <1>1, <1>2, <1>3, <2>1
  <2>2. CASE c # b
    <3>1. told'.blockers[c] = told.blockers[c]
      BY <1>0, <1>3, <2>2
    <3> QED BY <1>1, <1>2, <2>2, <3>1 DEF RouteInv, BlockersKnown
  <2> QED BY <2>1, <2>2
<1>8. \E n \in 0..Len(Initial) : FrozenFirst(n)'
  BY <1>2, <1>4 DEF RouteInv, FrozenFirst
<1> QED BY <1>2, <1>3, <1>5, <1>6, <1>7, <1>8 DEF RouteInv

(* A tool result is reported, kept for evaluators and attested, as far as it came. *)
LEMMA ToolResultStep ==
    ASSUME RouteInv, NEW i \in Invocations, NEW result \in Route!Captured, NEW done \in 0..3,
           Route!RecordToolResult(i, result, done)
    PROVE  RouteInv'
<1>0. /\ memory \in Views /\ recorded \in Views /\ RouteTyped
      /\ reports' = reports \cup {<<i, result>>} /\ attested' \in Nat
      /\ result \in {"pass", "fail", "empty"}
  BY DEF RouteInv, RouteTyped, Route!RecordToolResult, Route!MayAttest, Route!Captured
<1>1. ViewInv(memory, reports') /\ ViewInv(recorded, reports')
  BY <1>0, MoreReports DEF RouteInv
<1>k. PICK kept : kept = Route!Attested(memory, "tool_result", i)
  OBVIOUS
<1>w. PICK row : row = Route!Attested(recorded, "tool_result", i)
  OBVIOUS
<1>2. /\ kept \in Views /\ ViewInv(kept, reports') /\ kept.blockers = memory.blockers
      /\ row \in Views /\ ViewInv(row, reports') /\ row.blockers = recorded.blockers
      /\ row.decisions = recorded.decisions
  BY <1>k, <1>w, <1>0, <1>1, AttestedKeeps
<1>3. ASSUME NEW v \in Views, ViewInv(v, reports'), NEW r \in {"pass", "fail", "empty"},
             NEW B \in SUBSET Blockers, r = "empty" \/ r = result
      PROVE  /\ [v EXCEPT !.result[i] = r] \in Views /\ ViewInv([v EXCEPT !.result[i] = r], reports')
             /\ [v EXCEPT !.result[i] = r].blockers = v.blockers
             /\ [v EXCEPT !.result[i] = r].decisions = v.decisions
             /\ [v EXCEPT !.result[i] = r, !.blockers = B] \in Views
             /\ ViewInv([v EXCEPT !.result[i] = r, !.blockers = B], reports')
             /\ [v EXCEPT !.result[i] = r, !.blockers = B].blockers = B
             /\ [v EXCEPT !.result[i] = r, !.blockers = B].decisions = v.decisions
  <2>1. ASSUME NEW w \in Views, w.decisions = v.decisions, w.evidence = v.evidence,
               w.outcomes = v.outcomes, w.result = [v.result EXCEPT ![i] = r]
        PROVE  ViewInv(w, reports')
    <3>1. v.result \in [Invocations -> {"pass", "fail", "empty", "none"}]
      BY DEF Views
    <3>2. \A j \in Invocations : w.result[j] \in {"pass", "fail"} => <<j, w.result[j]>> \in reports'
      BY <1>0, <1>3, <2>1, <3>1 DEF ViewInv
    <3> QED BY <1>3, <2>1, <3>2 DEF ViewInv
  <2>2. /\ [v EXCEPT !.result[i] = r] \in Views
        /\ [v EXCEPT !.result[i] = r, !.blockers = B] \in Views
    BY DEF Views
  <2>3. /\ [v EXCEPT !.result[i] = r].decisions = v.decisions
        /\ [v EXCEPT !.result[i] = r].evidence = v.evidence
        /\ [v EXCEPT !.result[i] = r].outcomes = v.outcomes
        /\ [v EXCEPT !.result[i] = r].blockers = v.blockers
        /\ [v EXCEPT !.result[i] = r].result = [v.result EXCEPT ![i] = r]
    BY DEF Views
  <2>4. /\ [v EXCEPT !.result[i] = r, !.blockers = B].decisions = v.decisions
        /\ [v EXCEPT !.result[i] = r, !.blockers = B].evidence = v.evidence
        /\ [v EXCEPT !.result[i] = r, !.blockers = B].outcomes = v.outcomes
        /\ [v EXCEPT !.result[i] = r, !.blockers = B].blockers = B
        /\ [v EXCEPT !.result[i] = r, !.blockers = B].result = [v.result EXCEPT ![i] = r]
    BY DEF Views
  <2> QED BY <2>1, <2>2, <2>3, <2>4
<1>4. memory' \in Views /\ ViewInv(memory', reports') /\ memory'.blockers = memory.blockers
  <2>1. memory' = IF done = 0 THEN kept ELSE [kept EXCEPT !.result[i] = result]
    BY <1>k DEF Route!RecordToolResult
  <2> QED BY <1>0, <1>2, <1>3, <2>1
<1>5. /\ recorded' \in Views /\ ViewInv(recorded', reports')
      /\ recorded'.blockers \in {recorded.blockers, memory.blockers}
      /\ recorded'.decisions = recorded.decisions
  <2>1. memory.blockers \in SUBSET Blockers
    BY <1>0 DEF Views
  <2>2. CASE done = 0
    BY <1>0, <1>1, <2>2 DEF Route!RecordToolResult
  <2>3. CASE done = 1
    BY <1>w, <1>2, <2>3 DEF Route!RecordToolResult
  <2>4. CASE done = 2
    <3>1. recorded' = [row EXCEPT !.result[i] = "empty"]
      BY <1>w, <2>4 DEF Route!RecordToolResult
    <3> QED BY <1>2, <1>3, <2>1, <3>1
  <2>5. CASE done = 3
    <3>1. recorded' = [row EXCEPT !.result[i] = "empty", !.blockers = memory.blockers]
      BY <1>w, <2>5 DEF Route!RecordToolResult
    <3> QED BY <1>2, <1>3, <2>1, <3>1
  <2> QED BY <2>2, <2>3, <2>4, <2>5
<1> QED BY <1>0, <1>4, <1>5, QuietRouteStep DEF Route!RecordToolResult, RouteInv

(* Every step of the session's evidence keeps the invariant. *)
LEMMA RouteStep ==
    ASSUME RouteInv, [Route!RouteNext]_(Route!routeVars)
    PROVE  RouteInv'
<1>0. /\ memory \in Views /\ recorded \in Views /\ RouteTyped
      /\ ViewInv(memory, reports) /\ ViewInv(recorded, reports)
  BY DEF RouteInv, RouteTyped
<1>1. CASE Route!Crash
  BY <1>0, <1>1, QuietRouteStep DEF Route!Crash, RouteTyped
<1>2. CASE Route!Resume
  <2>1. BlockersKnown'
    BY <1>2 DEF Route!Resume, RouteInv, BlockersKnown
  <2>2. \E n \in 0..Len(Initial) : FrozenFirst(n)'
    BY <1>2 DEF Route!Resume, RouteInv, FrozenFirst
  <2> QED BY <1>0, <1>2, <2>1, <2>2 DEF Route!Resume, RouteInv, RouteTyped
<1>3. ASSUME NEW e \in memory.evidence, Route!Invalidate(e)
      PROVE  RouteInv'
  <2>1. ASSUME NEW v \in Views, ViewInv(v, reports)
        PROVE  /\ Route!Without(v, e) \in Views /\ ViewInv(Route!Without(v, e), reports)
               /\ Route!Without(v, e).blockers = v.blockers
               /\ Route!Without(v, e).decisions = v.decisions
    <3>1. e \in EvidenceSet
      BY <1>0 DEF Views
    <3>2. /\ Route!Without(v, e) \in Views /\ Route!Without(v, e).decisions = v.decisions
          /\ Route!Without(v, e).evidence = v.evidence /\ Route!Without(v, e).result = v.result
          /\ Route!Without(v, e).outcomes = v.outcomes /\ Route!Without(v, e).blockers = v.blockers
      BY <3>1 DEF Route!Without, Views
    <3> QED BY <2>1, <3>2 DEF ViewInv
  <2>2. attested' \in Nat
    BY <1>0, <1>3 DEF Route!Invalidate, RouteTyped
  <2> QED BY <1>0, <1>3, <2>1, <2>2, RecordStep DEF Route!Invalidate
<1>4. ASSUME NEW upto, Route!RecordInitial(upto)
      PROVE  RouteInv'
  <2>1. PICK n \in 0..Len(Initial) : FrozenFirst(n)
    BY DEF RouteInv
  <2>2. Initial[initials + 1] \in Routes
    BY <1>4, <2>1, RouteFacts DEF FrozenFirst, Route!RecordInitial
  <2> QED BY <1>4, <2>2, DecisionStep DEF Route!RecordInitial
<1>5. ASSUME NEW upto, NEW route \in Routes, Route!SelectRoute(route, upto)
      PROVE  RouteInv'
  BY <1>5, DecisionStep DEF Route!SelectRoute
<1>6. ASSUME NEW upto, NEW b \in Blockers, NEW e \in memory.evidence,
             Route!RecordBlocker(b, e, upto) \/ Route!ClearBlocker(b, e, upto)
      PROVE  RouteInv'
  BY <1>6, BlockerStep DEF Route!RecordBlocker, Route!ClearBlocker
<1>7. ASSUME NEW upto, Route!RecordObservation(upto)
      PROVE  RouteInv'
  <2>1. attested' \in Nat
    BY <1>0, <1>7 DEF Route!RecordObservation, Route!MayAttest, RouteTyped
  <2> QED BY <1>0, <1>7, <2>1, AttestedKeeps, RecordStep DEF Route!RecordObservation
<1>8. ASSUME NEW upto, NEW i \in Invocations, Route!RecordValidatorResult(i, upto)
      PROVE  RouteInv'
  <2>1. attested' \in Nat
    BY <1>0, <1>8 DEF Route!RecordValidatorResult, Route!MayAttest, RouteTyped
  <2> QED BY <1>0, <1>8, <2>1, AttestedKeeps, RecordStep DEF Route!RecordValidatorResult
<1>9. ASSUME NEW upto, NEW d \in Route!Range(memory.decisions), NEW refs \in Route!References,
             Route!EvaluateRouteOutcome(d, refs, upto)
      PROVE  RouteInv'
  <2>1. attested' \in Nat
    BY <1>0, <1>9 DEF Route!EvaluateRouteOutcome, RouteTyped
  <2> QED BY <1>0, <1>9, <2>1, EvaluatedKeeps, RecordStep DEF Route!EvaluateRouteOutcome
<1>10. CASE UNCHANGED Route!routeVars
  BY <1>0, <1>10, QuietRouteStep DEF Route!routeVars, RouteTyped
<1> QED
  BY <1>1, <1>2, <1>3, <1>4, <1>5, <1>6, <1>7, <1>8, <1>9, <1>10, ToolResultStep
     DEF Route!RouteNext

(* A session starts with nothing on record. *)
LEMMA RouteStart == Route!RouteInit => RouteInv
<1> SUFFICES ASSUME Route!RouteInit PROVE RouteInv
  OBVIOUS
<1>1. /\ memory = Route!Blank /\ recorded = Route!Blank /\ reports = {} /\ initials = 0
      /\ attested = 0 /\ told = [decisions |-> {}, blockers |-> [b \in Blockers |-> "cleared"]]
      /\ status \in {"starting", "up"} /\ (status = "starting" => Initial # <<>>)
  BY DEF Route!RouteInit
<1>2. /\ Route!Blank \in Views /\ Route!Blank.decisions = <<>> /\ Route!Blank.outcomes = {}
      /\ Route!Blank.evidence = {} /\ Route!Blank.blockers = {}
      /\ Route!Blank.result = [i \in Invocations |-> "none"]
  BY DEF Route!Blank, Views
<1>3. RouteTyped
  BY <1>1, <1>2 DEF RouteTyped
<1>4. ViewInv(memory, reports) /\ ViewInv(recorded, reports)
  BY <1>1, <1>2 DEF ViewInv
<1>5. FrozenFirst(0) /\ 0 \in 0..Len(Initial)
  BY <1>1, <1>2, RouteFacts DEF FrozenFirst
<1>6. BlockersKnown
  BY <1>1, <1>2 DEF BlockersKnown
<1> QED BY <1>1, <1>3, <1>4, <1>5, <1>6 DEF RouteInv

(* Wherever operations raise and the process dies: the resolver's frozen choices are
   first on record, no decision the host knows of is missing, and an outcome is what
   the host reported of a validation it cites (_record_initial_route_decisions,
   _record_route_decision, _evaluate_route_outcome). *)
THEOREM OutcomesAreGrounded == Route!RouteSpec => []RouteOutcomesGrounded
<1>1. RouteInv /\ [Route!RouteNext]_(Route!routeVars) => RouteInv'
  BY RouteStep
<1>2. RouteInv => RouteOutcomesGrounded
  <2> SUFFICES ASSUME RouteInv PROVE RouteOutcomesGrounded
    OBVIOUS
  <2>1. Route!DecisionsOnRecord
    BY DEF RouteInv, FrozenFirst, Route!DecisionsOnRecord
  <2>2. Route!OutcomesGrounded
    BY DEF RouteInv, ViewInv, GroundedIn, Route!OutcomesGrounded
  <2> QED BY <2>1, <2>2 DEF RouteOutcomesGrounded
<1> QED BY <1>1, <1>2, RouteStart, PTL DEF Route!RouteSpec

(* What the host was last told of a blocker holds, also when a later row carried a
   snapshot of them all, a write failed or the process died (record_blocker,
   clear_blocker, _restore_session). *)
THEOREM BlockersAreAsTold == Route!RouteSpec => []RouteBlockersAsTold
<1>1. RouteInv /\ [Route!RouteNext]_(Route!routeVars) => RouteInv'
  BY RouteStep
<1>2. RouteInv => RouteBlockersAsTold
  BY DEF RouteInv, BlockersKnown, RouteBlockersAsTold, Route!BlockersAsTold
<1> QED BY <1>1, <1>2, RouteStart, PTL DEF Route!RouteSpec
=========================================================================
