---------------------------- MODULE ActionGate_proofs ----------------------------
(***************************************************************************)
(* Grants, bindings, criteria and limits of the action gate, proved for    *)
(* any actions, grants, criteria and bounds.  The three parts of GateInv   *)
(* do not depend on one another; each is preserved by every action given   *)
(* that the state is well typed.  The limits need the size of finite sets. *)
(***************************************************************************)
EXTENDS ActionGate, FiniteSetTheorems, WellFoundedInduction, TLAPS

(* What keeps a grant from being shown twice: one that was shown is consumed in
   the journal or past its time, and the running session has every grant of the
   journal among its own. *)
GrantInv ==
    /\ \A q \in charged : q.grant \in journal.consumed \cup expired
    /\ up => journal.consumed \subseteq session.consumed
    /\ GrantsNotReused

(* What keeps a binding from being used twice: it has left the session. *)
BindingInv ==
    /\ \A q \in used : q.issue <= issued
    /\ \A b \in session.bindings : b.issue <= issued
    /\ \A b, c \in session.bindings :
          b.issue = c.issue \/ SameDigest(b, c) => b = c
    /\ \A q \in used, b \in session.bindings : q.issue # b.issue
    /\ BindingsNotReused

(* The inductive invariant. *)
GateInv == WellTyped /\ GrantInv /\ BindingInv /\ SatisfiedIsVerified
-----------------------------------------------------------------------------
(* The ledger's operations keep it well typed and leave no criterion satisfied
   while its verification is pending. *)
Sound(task) ==
    \A c \in Criteria :
        task.status[c] = "satisfied" => task.obligation[c] # "PENDING"

(* The ledger of a new session. *)
LEMMA NewTaskSound == NewTask \in Task /\ Sound(NewTask)
BY GateAssumption DEF NewTask, Task, Sound

(* commit_candidate with a change of the artifact. *)
LEMMA ChangedSound ==
    ASSUME NEW task \in Task, NEW scope, task.revision < MaxRevision
    PROVE  /\ Changed(task, scope) \in Task
           /\ Sound(task) => Sound(Changed(task, scope))
<1>1. MaxRevision \in Nat
  BY GateAssumption
<1>2. NewTask.counts \in [Scopes -> Nat] /\ NewTask.repeats \in [Actions \X Scopes -> Nat]
  BY NewTaskSound DEF Task
<1> DEFINE status == [c \in Criteria |->
                        IF c \in Named(scope) THEN "active" ELSE task.status[c]]
           obligation == [c \in Criteria |->
                        IF c \in Named(scope) THEN "PENDING" ELSE task.obligation[c]]
<1>3. /\ status \in [Criteria -> {"active", "partially_observed", "satisfied"}]
      /\ obligation \in [Criteria -> {"none", "PENDING", "SATISFIED"}]
  BY DEF Task
<1>4. Changed(task, scope) =
        [task EXCEPT !.revision = task.revision + 1, !.counts = NewTask.counts,
                     !.repeats = NewTask.repeats, !.obligation = obligation,
                     !.status = status]
  BY DEF Changed
<1>5. task.revision + 1 \in 0..MaxRevision
  BY <1>1 DEF Task
<1>6. ASSUME Sound(task), NEW c \in Criteria, status[c] = "satisfied"
      PROVE  obligation[c] # "PENDING"
  BY <1>6 DEF Sound
<1> HIDE DEF status, obligation
<1>7. Changed(task, scope) \in Task
  BY <1>2, <1>3, <1>4, <1>5 DEF Task
<1> QED
  BY <1>4, <1>6, <1>7 DEF Sound, Task

(* commit_candidate of any result of a pending request. *)
LEMMA CommittedSound ==
    ASSUME NEW task \in Task, NEW r \in Requests, NEW changed \in BOOLEAN,
           changed => task.revision < MaxRevision
    PROVE  /\ Committed(task, r, changed) \in Task
           /\ Sound(task) => Sound(Committed(task, r, changed))
<1>1. CASE changed
  BY <1>1, ChangedSound DEF Committed
<1>2. CASE ~changed /\ r.relation = "required_verification"
  <2>1. Committed(task, r, changed) =
          [task EXCEPT !.counts = [task.counts EXCEPT ![r.criteria] = @ + 1],
                       !.repeats = [task.repeats EXCEPT
                                      ![<<r.action, r.criteria>>] = @ + 1]]
    BY <1>2 DEF Committed, Task
  <2>2. r.criteria \in Scopes /\ <<r.action, r.criteria>> \in Actions \X Scopes
    BY DEF Requests
  <2>3. [task.counts EXCEPT ![r.criteria] = @ + 1] \in [Scopes -> Nat]
    BY <2>2 DEF Task
  <2>4. [task.repeats EXCEPT ![<<r.action, r.criteria>>] = @ + 1] \in [Actions \X Scopes -> Nat]
    BY <2>2 DEF Task
  <2> QED
    BY <2>1, <2>3, <2>4 DEF Task, Sound
<1>3. CASE ~changed /\ r.relation # "required_verification"
  BY <1>3 DEF Committed
<1> QED
  BY <1>1, <1>2, <1>3

(* record_goal_progress and mark_criterion_satisfied. *)
LEMMA JudgedSound ==
    ASSUME NEW task \in Task, NEW c \in Criteria
    PROVE  /\ Progress(task, c) \in Task /\ Satisfy(task, c) \in Task
           /\ Sound(task) => Sound(Progress(task, c)) /\ Sound(Satisfy(task, c))
BY DEF Progress, Satisfy, Task, Sound
-----------------------------------------------------------------------------
(* confirmation_for finds at most one grant, neither consumed nor expired. *)
LEMMA ConfirmationFact ==
    ASSUME NEW a, NEW gone, NEW g \in Confirmation(a, gone)
    PROVE  /\ g \in Grants
           /\ g \notin session.consumed \cup gone
           /\ \A h \in Confirmation(a, gone) : h = g
<1>1. Len(GrantFor) \in Nat
  BY GateAssumption
<1> QED
  BY <1>1 DEF Confirmation, Grants

(* A grant the gate was shown is the one it consumes, unless it expires first. *)
LEMMA ConfirmationKept ==
    ASSUME NEW a, NEW late, NEW g \in Confirmation(a, expired), g \notin late
    PROVE  g \in Confirmation(a, expired \cup late)
BY DEF Confirmation

(* What an action is prepared with has an action, a relation and a scope. *)
LEMMA OfferedFact ==
    ASSUME WellTyped, NEW b \in Offered
    PROVE  /\ b.action \in Actions
           /\ b.relation \in Relations
           /\ b.criteria \in Scopes
           /\ drawn < MaxRequests => Request(b) \in Requests
<1>1. b.action \in Actions /\ b.relation \in Relations /\ b.criteria \in Scopes
  <2>1. CASE b \in session.bindings
    BY <2>1 DEF WellTyped, Session, Bindings
  <2>2. CASE \E a \in Actions : b = Declared(a)
    BY <2>2, GateAssumption DEF Declared, Relations
  <2> QED
    BY <2>1, <2>2 DEF Offered
<1>2. drawn < MaxRequests => drawn + 1 \in 1..MaxRequests
  BY GateAssumption DEF WellTyped
<1> QED
  BY <1>1, <1>2 DEF Request, Requests

(* add_objective_binding: besides bindings that were there with another digest
   it holds at most one, the new one. *)
LEMMA AddedFact ==
    ASSUME NEW bindings \in SUBSET Bindings, NEW b \in Bindings,
           \A c, d \in bindings : SameDigest(c, d) => c = d
    PROVE  /\ Added(bindings, b) \in SUBSET Bindings
           /\ \A c \in Added(bindings, b) :
                 \/ c \in bindings /\ ~SameDigest(c, b)
                 \/ c.issue = b.issue /\ SameDigest(c, b)
           /\ \A c, d \in Added(bindings, b) :
                 SameDigest(c, b) /\ SameDigest(d, b) => c = d
<1> DEFINE same == {c \in bindings : SameDigest(c, b)}
           renewed == {[b EXCEPT !.place = c.place] :
                          c \in IF same = {} THEN {b} ELSE same}
<1>1. Added(bindings, b) \subseteq (bindings \ same) \cup renewed
  BY DEF Added
<1>2. ASSUME NEW c \in renewed
      PROVE  c \in Bindings /\ c.issue = b.issue /\ SameDigest(c, b)
  BY DEF Bindings, SameDigest
<1>3. ASSUME NEW c \in renewed, NEW d \in renewed
      PROVE  c = d
  <2>1. \A e, f \in same : e = f
    BY DEF SameDigest, Bindings
  <2> QED
    BY <2>1
<1> HIDE DEF renewed
<1>4. ASSUME NEW c \in Added(bindings, b)
      PROVE  \/ c \in bindings /\ ~SameDigest(c, b)
             \/ c \in renewed
  BY <1>1
<1> QED
  BY <1>2, <1>3, <1>4

(* bind_action_objective issues a well formed binding. *)
LEMMA BindingFact ==
    ASSUME WellTyped, issued < MaxIssues, NEW a \in Actions,
           NEW relation \in Relations, NEW scope \in Scopes, NEW pin \in HostPins
    PROVE  /\ Binding(a, relation, scope, pin) \in Bindings
           /\ Binding(a, relation, scope, pin).issue = issued + 1
<1>1. issued + 1 \in 1..MaxIssues
  BY GateAssumption DEF WellTyped
<1>2. session.task.revision \in 0..MaxRevision
  BY DEF WellTyped, Session, Task
<1> QED
  BY <1>1, <1>2 DEF Binding, Bindings
-----------------------------------------------------------------------------
(* Every action leaves the state well typed. *)
LEMMA TypeStep ==
    ASSUME WellTyped, [Next]_vars
    PROVE  WellTyped'
<1> USE DEF WellTyped
<1>1. Blank \in Session
  BY NewTaskSound DEF Blank, Session
<1>2. ASSUME NEW a \in Actions, NEW relation \in Relations, NEW scope \in Scopes,
             NEW pin \in HostPins, BindObjective(a, relation, scope, pin)
      PROVE  WellTyped'
  <2> DEFINE b == Binding(a, relation, scope, pin)
  <2>1. b \in Bindings
    BY <1>2, BindingFact DEF BindObjective
  <2>2. Added(session.bindings, b) \in SUBSET Bindings
    <3>1. session.bindings \in SUBSET Bindings
      BY DEF Session
    <3>2. ASSUME NEW c \in session.bindings
          PROVE  [b EXCEPT !.place = c.place] \in Bindings
      BY <2>1, <3>1 DEF Bindings
    <3>3. [b EXCEPT !.place = b.place] \in Bindings
      BY <2>1 DEF Bindings
    <3> HIDE DEF b
    <3> QED
      BY <3>1, <3>2, <3>3 DEF Added
  <2>3. issued + 1 \in 0..MaxIssues
    BY <1>2, GateAssumption DEF BindObjective
  <2> QED
    BY <1>2, <2>2, <2>3 DEF BindObjective, Session
<1>3. ASSUME NEW b \in Offered, NEW late \in SUBSET (Grants \ expired),
             PrepareAction(b, late)
      PROVE  WellTyped'
  <2>1. Request(b) \in Requests /\ drawn + 1 \in 1..MaxRequests
    BY <1>3, OfferedFact, GateAssumption DEF PrepareAction
  <2>2. Confirmation(b.action, expired) \subseteq Grants
    BY ConfirmationFact
  <2>3. Confirmation(b.action, expired \cup late) \subseteq Grants
    BY ConfirmationFact
  <2>4. session' \in Session /\ journal' \in [consumed : SUBSET Grants, task : Task]
    BY <1>3, <2>1, <2>3 DEF PrepareAction, Session, Taken
  <2>5. charged' \in SUBSET [request : 1..MaxRequests, grant : Grants]
    BY <1>3, <2>1, <2>2 DEF PrepareAction
  <2>6. used' \in SUBSET [request : 1..MaxRequests, issue : 1..MaxIssues]
    BY <1>3, <2>1 DEF PrepareAction, Session, Bindings
  <2>7. drawn' \in 0..MaxRequests /\ expired' \in SUBSET Grants
    BY <1>3, <2>1 DEF PrepareAction
  <2> QED
    BY <1>3, <2>4, <2>5, <2>6, <2>7 DEF PrepareAction
<1>4. ASSUME Fails
      PROVE  faults' \in 0..MaxFaults
  BY <1>4, GateAssumption DEF Fails
<1>5. ASSUME NEW b \in Offered, PrepareActionInterrupted(b)
      PROVE  WellTyped'
  BY <1>1, <1>4, <1>5, ConfirmationFact DEF PrepareActionInterrupted, Die, history
<1>6. ASSUME NEW b \in Offered, NEW committed \in BOOLEAN,
             PrepareActionFails(b, committed)
      PROVE  WellTyped'
  <2>1. session' \in Session
    BY <1>6, ConfirmationFact DEF PrepareActionFails, Session, Taken
  <2> QED
    BY <1>4, <1>6, <2>1 DEF PrepareActionFails, Session, history
<1>7. ASSUME NEW b \in session.bindings, PrepareRefused(b)
      PROVE  WellTyped'
  BY <1>7 DEF PrepareRefused, Session, Taken, history
<1>8. ASSUME NEW g \in Grants, GrantExpires(g)
      PROVE  WellTyped'
  BY <1>8 DEF GrantExpires, history
<1>9. ASSUME NEW r \in session.pending, NEW changed \in BOOLEAN
      PROVE  /\ r \in Requests
             /\ Executed(r, changed) \in SUBSET Requests
             /\ (changed => session.task.revision < MaxRevision) =>
                   Committed(session.task, r, changed) \in Task
  <2>1. r \in Requests /\ session.task \in Task
    BY DEF Session
  <2> QED
    BY <2>1, CommittedSound DEF Executed
<1>10. ASSUME NEW r \in session.pending, NEW changed \in BOOLEAN,
              RecordToolResult(r, changed)
       PROVE  WellTyped'
  BY <1>9, <1>10 DEF RecordToolResult, Session
<1>11. ASSUME NEW r \in session.pending, NEW changed \in BOOLEAN,
              RecordToolResultInterrupted(r, changed)
       PROVE  WellTyped'
  BY <1>1, <1>4, <1>9, <1>11 DEF RecordToolResultInterrupted, Die
<1>12. ASSUME NEW r \in session.pending, NEW changed \in BOOLEAN,
              NEW committed \in BOOLEAN, RecordToolResultFails(r, changed, committed)
       PROVE  WellTyped'
  <2>1. session' \in Session
    BY <1>9, <1>12 DEF RecordToolResultFails, Session
  <2> QED
    BY <1>4, <1>9, <1>12, <2>1 DEF RecordToolResultFails, Session
<1>13. ASSUME RecordUncorrelatedChange
       PROVE  WellTyped'
  <2>1. Changed(session.task, <<>>) \in Task
    BY <1>13, ChangedSound DEF RecordUncorrelatedChange, Session
  <2> QED
    BY <1>13, <2>1 DEF RecordUncorrelatedChange, Session
<1>14. ASSUME NEW task \in Task, JudgeCriterion(task) \/ JudgeCriterionFails(task)
       PROVE  WellTyped'
  BY <1>4, <1>14 DEF JudgeCriterion, JudgeCriterionFails, Session, history
<1>15. ASSUME NEW c \in Criteria
       PROVE  Progress(session.task, c) \in Task /\ Satisfy(session.task, c) \in Task
  BY JudgedSound DEF Session
<1>16. ASSUME Crash
       PROVE  WellTyped'
  BY <1>1, <1>4, <1>16 DEF Crash, Die, history
<1>17. ASSUME Resume
       PROVE  WellTyped'
  BY <1>1, <1>17 DEF Resume, Restored, Session, history
<1>18. ASSUME UNCHANGED vars
       PROVE  WellTyped'
  BY <1>18 DEF vars, history
<1> QED
  BY <1>2, <1>3, <1>5, <1>6, <1>7, <1>8, <1>10, <1>11, <1>12, <1>13, <1>14, <1>15,
     <1>16, <1>17, <1>18
     DEF Next, RecordGoalProgress, RecordCriterionVerified

(* Every action keeps what makes a shown grant unusable. *)
LEMMA GrantStep ==
    ASSUME WellTyped, GrantInv, [Next]_vars
    PROVE  GrantInv'
<1> USE DEF GrantInv, GrantsNotReused
<1>1. ASSUME UNCHANGED <<up, expired, charged>>,
             session'.consumed = session.consumed,
             journal'.consumed = journal.consumed
      PROVE  GrantInv'
  BY <1>1
<1>2. ASSUME Die, UNCHANGED <<journal, expired, charged>>
      PROVE  GrantInv'
  BY <1>2 DEF Die
<1>3. ASSUME NEW a \in Actions, NEW relation \in Relations, NEW scope \in Scopes,
             NEW pin \in HostPins, BindObjective(a, relation, scope, pin)
      PROVE  GrantInv'
  BY <1>1, <1>3 DEF BindObjective, WellTyped, Session
<1>4. ASSUME NEW b \in Offered, NEW late \in SUBSET (Grants \ expired),
             PrepareAction(b, late)
      PROVE  GrantInv'
  <2> DEFINE shown == Confirmation(b.action, expired)
             spent == Confirmation(b.action, expired \cup late)
  <2>1. /\ journal'.consumed = journal.consumed \cup spent
        /\ session'.consumed = session.consumed \cup spent
        /\ expired' = expired \cup late
        /\ UNCHANGED up
    BY <1>4 DEF PrepareAction, WellTyped, Session
  <2>2. \A q \in charged' : \/ q \in charged
                            \/ q.request = drawn + 1 /\ q.grant \in shown
    BY <1>4 DEF PrepareAction
  <2>3. shown \subseteq spent \cup late
    BY ConfirmationKept
  <2>4. \A g \in shown : /\ g \notin session.consumed \cup expired
                         /\ \A h \in shown : h = g
    BY ConfirmationFact
  <2>5. \A q \in charged : q.grant \notin shown
    BY <1>4, <2>4 DEF PrepareAction
  <2>6. charged' \subseteq [request : 1..MaxRequests, grant : Grants]
    BY TypeStep, <1>4 DEF WellTyped, Next
  <2>7. ASSUME NEW r \in charged', NEW q \in charged', r.grant = q.grant
        PROVE  r = q
    <3>1. CASE r \in charged /\ q \in charged
      BY <2>7, <3>1
    <3>2. CASE r \notin charged /\ q \notin charged
      BY <2>2, <2>6, <2>7, <3>2
    <3> QED
      BY <2>2, <2>5, <2>7, <3>1, <3>2
  <2> HIDE DEF shown, spent
  <2>8. \A q \in charged' : q.grant \in journal'.consumed \cup expired'
    BY <2>1, <2>2, <2>3
  <2>9. up' => journal'.consumed \subseteq session'.consumed
    BY <2>1
  <2> QED
    BY <2>7, <2>8, <2>9
<1>5. ASSUME NEW b \in Offered, PrepareActionInterrupted(b)
      PROVE  GrantInv'
  BY <1>5 DEF PrepareActionInterrupted, Die, history, WellTyped
<1>6. ASSUME NEW b \in Offered, NEW committed \in BOOLEAN,
             PrepareActionFails(b, committed)
      PROVE  GrantInv'
  <2>1. session.consumed \subseteq session'.consumed
    BY <1>6 DEF PrepareActionFails, WellTyped, Session
  <2>2. /\ journal.consumed \subseteq journal'.consumed
        /\ journal'.consumed \subseteq session'.consumed
    BY <1>6, <2>1 DEF PrepareActionFails, WellTyped
  <2> QED
    BY <1>6, <2>2 DEF PrepareActionFails, history
<1>7. ASSUME NEW b \in session.bindings, PrepareRefused(b)
      PROVE  GrantInv'
  BY <1>1, <1>7 DEF PrepareRefused, history, WellTyped, Session
<1>8. ASSUME NEW g \in Grants, GrantExpires(g)
      PROVE  GrantInv'
  BY <1>8 DEF GrantExpires, history
<1>9. ASSUME NEW r \in session.pending, NEW changed \in BOOLEAN,
             \/ RecordToolResult(r, changed)
             \/ RecordToolResultInterrupted(r, changed)
             \/ \E committed \in BOOLEAN : RecordToolResultFails(r, changed, committed)
      PROVE  GrantInv'
  BY <1>1, <1>2, <1>9 DEF RecordToolResult, RecordToolResultInterrupted,
     RecordToolResultFails, WellTyped, Session
<1>10. ASSUME RecordUncorrelatedChange
       PROVE  GrantInv'
  BY <1>1, <1>10 DEF RecordUncorrelatedChange, WellTyped, Session
<1>11. ASSUME NEW task, JudgeCriterion(task) \/ JudgeCriterionFails(task)
       PROVE  GrantInv'
  BY <1>1, <1>11 DEF JudgeCriterion, JudgeCriterionFails, history, WellTyped, Session
<1>12. ASSUME Crash
       PROVE  GrantInv'
  BY <1>2, <1>12 DEF Crash, history
<1>13. ASSUME Resume
       PROVE  GrantInv'
  BY <1>13 DEF Resume, Restored, Blank, history, WellTyped
<1>14. ASSUME UNCHANGED vars
       PROVE  GrantInv'
  BY <1>14 DEF vars, history
<1> QED
  BY <1>3, <1>4, <1>5, <1>6, <1>7, <1>8, <1>9, <1>10, <1>11, <1>12, <1>13, <1>14
     DEF Next, RecordGoalProgress, RecordCriterionVerified

(* Every action keeps what makes a used binding unusable. *)
LEMMA BindingStep ==
    ASSUME WellTyped, BindingInv, [Next]_vars
    PROVE  BindingInv'
<1> USE DEF BindingInv, BindingsNotReused
<1>1. ASSUME UNCHANGED <<issued, used>>, session'.bindings \subseteq session.bindings
      PROVE  BindingInv'
  BY <1>1 DEF SameDigest
<1>2. Blank.bindings = {}
  BY DEF Blank
<1>3. ASSUME NEW a \in Actions, NEW relation \in Relations, NEW scope \in Scopes,
             NEW pin \in HostPins, BindObjective(a, relation, scope, pin)
      PROVE  BindingInv'
  <2> DEFINE b == Binding(a, relation, scope, pin)
  <2>1. b \in Bindings /\ b.issue = issued + 1
    BY <1>3, BindingFact DEF BindObjective
  <2>2. session'.bindings = Added(session.bindings, b)
    BY <1>3 DEF BindObjective, WellTyped, Session
  <2>3. session.bindings \in SUBSET Bindings
    BY DEF WellTyped, Session
  <2>4. issued' = issued + 1 /\ used' = used /\ issued \in Nat
    BY <1>3, GateAssumption DEF BindObjective, WellTyped
  <2> HIDE DEF b
  <2>5. /\ \A c \in session'.bindings :
              \/ c \in session.bindings /\ ~SameDigest(c, b)
              \/ c.issue = b.issue /\ SameDigest(c, b)
        /\ \A c, d \in session'.bindings :
              SameDigest(c, b) /\ SameDigest(d, b) => c = d
    BY <2>1, <2>2, <2>3, AddedFact
  <2>6. /\ \A q \in used : q.issue \in Nat
        /\ \A c \in session.bindings : c.issue \in Nat
    BY <2>3, GateAssumption DEF WellTyped, Bindings
  <2>7. /\ \A q \in used' : q.issue <= issued'
        /\ \A c \in session'.bindings : c.issue <= issued'
        /\ \A q \in used', c \in session'.bindings : q.issue # c.issue
    BY <2>1, <2>4, <2>5, <2>6
  <2>8. ASSUME NEW c \in session'.bindings, NEW d \in session'.bindings,
               c.issue = d.issue \/ SameDigest(c, d)
        PROVE  c = d
    <3>1. CASE c \in session.bindings /\ d \in session.bindings
      BY <2>8, <3>1
    <3>2. CASE c.issue = b.issue /\ d.issue = b.issue
      BY <2>1, <2>4, <2>5, <2>6, <3>2
    <3>3. CASE c.issue # d.issue
      BY <2>5, <2>8, <3>1, <3>3 DEF SameDigest
    <3> QED
      BY <2>1, <2>4, <2>5, <2>6, <3>1, <3>2, <3>3
  <2> QED
    BY <2>4, <2>7, <2>8 DEF SameDigest
<1>4. ASSUME NEW b \in Offered, NEW late \in SUBSET (Grants \ expired),
             PrepareAction(b, late)
      PROVE  BindingInv'
  <2>1. /\ session'.bindings = session.bindings \ {b}
        /\ issued' = issued
    BY <1>4 DEF PrepareAction, Taken, WellTyped, Session
  <2>2. \A q \in used' : \/ q \in used
                         \/ /\ b \in session.bindings
                            /\ q = [request |-> drawn + 1, issue |-> b.issue]
    BY <1>4 DEF PrepareAction
  <2>3. /\ \A q \in used' : q.issue <= issued'
        /\ \A q \in used', c \in session'.bindings : q.issue # c.issue
    BY <2>1, <2>2
  <2>4. \A r, q \in used' : r.issue = q.issue => r = q
    BY <2>2
  <2> QED
    BY <2>1, <2>3, <2>4 DEF SameDigest
<1>5. ASSUME NEW b \in Offered,
             \/ PrepareActionInterrupted(b)
             \/ \E committed \in BOOLEAN : PrepareActionFails(b, committed)
      PROVE  BindingInv'
  BY <1>1, <1>2, <1>5 DEF PrepareActionInterrupted, PrepareActionFails, Die, Taken,
     history, WellTyped, Session
<1>6. ASSUME NEW b \in session.bindings, PrepareRefused(b)
      PROVE  BindingInv'
  BY <1>1, <1>6 DEF PrepareRefused, Taken, history, WellTyped, Session
<1>7. ASSUME NEW g \in Grants, GrantExpires(g)
      PROVE  BindingInv'
  BY <1>1, <1>7 DEF GrantExpires, history
<1>8. ASSUME NEW r \in session.pending, NEW changed \in BOOLEAN,
             \/ RecordToolResult(r, changed)
             \/ RecordToolResultInterrupted(r, changed)
             \/ \E committed \in BOOLEAN : RecordToolResultFails(r, changed, committed)
      PROVE  BindingInv'
  BY <1>1, <1>2, <1>8 DEF RecordToolResult, RecordToolResultInterrupted,
     RecordToolResultFails, Die, WellTyped, Session
<1>9. ASSUME RecordUncorrelatedChange
      PROVE  BindingInv'
  BY <1>1, <1>9 DEF RecordUncorrelatedChange, WellTyped, Session
<1>10. ASSUME NEW task, JudgeCriterion(task) \/ JudgeCriterionFails(task)
       PROVE  BindingInv'
  BY <1>1, <1>10 DEF JudgeCriterion, JudgeCriterionFails, history, WellTyped, Session
<1>11. ASSUME Crash
       PROVE  BindingInv'
  BY <1>1, <1>2, <1>11 DEF Crash, Die, history
<1>12. ASSUME Resume
       PROVE  BindingInv'
  BY <1>1, <1>12 DEF Resume, Restored, Blank, history
<1>13. ASSUME UNCHANGED vars
       PROVE  BindingInv'
  BY <1>1, <1>13 DEF vars, history
<1> QED
  BY <1>3, <1>4, <1>5, <1>6, <1>7, <1>8, <1>9, <1>10, <1>11, <1>12, <1>13
     DEF Next, RecordGoalProgress, RecordCriterionVerified

(* Every action keeps the criteria of the session and of the journal sound. *)
LEMMA SatisfiedStep ==
    ASSUME WellTyped, SatisfiedIsVerified, [Next]_vars
    PROVE  SatisfiedIsVerified'
<1>1. Sound(session.task) /\ Sound(journal.task)
  BY DEF SatisfiedIsVerified, Sound
<1>2. session.task \in Task /\ journal.task \in Task
  BY DEF WellTyped, Session
<1>3. SUFFICES /\ session'.task \in {session.task, journal.task, NewTask}
                                       \/ Sound(session'.task)
               /\ journal'.task \in {journal.task, session'.task}
  BY <1>1, <1>3, NewTaskSound DEF SatisfiedIsVerified, Sound
<1>4. Blank.task = NewTask
  BY DEF Blank
<1>5. ASSUME NEW a \in Actions, NEW relation \in Relations, NEW scope \in Scopes,
             NEW pin \in HostPins, BindObjective(a, relation, scope, pin)
      PROVE  session'.task = session.task /\ journal' = journal
  BY <1>5 DEF BindObjective, WellTyped, Session
<1>6. ASSUME NEW b \in Offered, NEW late \in SUBSET (Grants \ expired),
             PrepareAction(b, late)
      PROVE  session'.task = session.task /\ journal'.task = journal.task
  BY <1>6 DEF PrepareAction, WellTyped, Session
<1>7. ASSUME NEW b \in Offered, PrepareActionInterrupted(b)
      PROVE  session'.task = NewTask /\ journal'.task = journal.task
  BY <1>4, <1>7 DEF PrepareActionInterrupted, Die, WellTyped
<1>8. ASSUME NEW b \in Offered, NEW committed \in BOOLEAN,
             PrepareActionFails(b, committed)
      PROVE  session'.task = session.task /\ journal'.task = journal.task
  BY <1>8 DEF PrepareActionFails, WellTyped, Session
<1>9. ASSUME NEW b \in session.bindings, PrepareRefused(b)
      PROVE  session'.task = session.task /\ journal' = journal
  BY <1>9 DEF PrepareRefused, WellTyped, Session
<1>10. ASSUME NEW r \in session.pending, NEW changed \in BOOLEAN,
              changed => session.task.revision < MaxRevision
       PROVE  Sound(Committed(session.task, r, changed))
  <2>1. r \in Requests
    BY DEF WellTyped, Session
  <2> QED
    BY <1>1, <1>2, <1>10, <2>1, CommittedSound
<1>11. ASSUME NEW r \in session.pending, NEW changed \in BOOLEAN,
              RecordToolResult(r, changed)
       PROVE  Sound(session'.task) /\ journal'.task = session'.task
  BY <1>10, <1>11 DEF RecordToolResult, WellTyped, Session
<1>12. ASSUME NEW r \in session.pending, NEW changed \in BOOLEAN,
              RecordToolResultInterrupted(r, changed)
       PROVE  session'.task = NewTask /\ journal' = journal
  BY <1>4, <1>12 DEF RecordToolResultInterrupted, Die
<1>13. ASSUME NEW r \in session.pending, NEW changed \in BOOLEAN,
              NEW committed \in BOOLEAN, RecordToolResultFails(r, changed, committed)
       PROVE  /\ Sound(session'.task)
              /\ journal'.task \in {journal.task, session'.task}
  BY <1>10, <1>13 DEF RecordToolResultFails, WellTyped, Session
<1>14. ASSUME RecordUncorrelatedChange
       PROVE  Sound(session'.task) /\ journal'.task = session'.task
  <2>1. Sound(Changed(session.task, <<>>))
    BY <1>1, <1>2, <1>14, ChangedSound DEF RecordUncorrelatedChange
  <2> QED
    BY <1>14, <2>1 DEF RecordUncorrelatedChange, WellTyped, Session
<1>15. ASSUME NEW c \in Criteria
       PROVE  Sound(Progress(session.task, c)) /\ Sound(Satisfy(session.task, c))
  BY <1>1, <1>2, JudgedSound
<1>16. ASSUME NEW task, Sound(task), JudgeCriterion(task) \/ JudgeCriterionFails(task)
       PROVE  Sound(session'.task) /\ journal'.task \in {journal.task, session'.task}
  BY <1>16 DEF JudgeCriterion, JudgeCriterionFails, WellTyped, Session
<1>17. ASSUME Crash
       PROVE  session'.task = NewTask /\ journal' = journal
  BY <1>4, <1>17 DEF Crash, Die
<1>18. ASSUME Resume
       PROVE  session'.task = journal.task /\ journal' = journal
  BY <1>18 DEF Resume, Restored, Blank
<1>19. ASSUME (\E g \in Grants : GrantExpires(g)) \/ UNCHANGED vars
       PROVE  UNCHANGED <<session, journal>>
  BY <1>19 DEF GrantExpires, vars
<1> QED
  BY <1>5, <1>6, <1>7, <1>8, <1>9, <1>11, <1>12, <1>13, <1>14, <1>15, <1>16, <1>17,
     <1>18, <1>19
     DEF Next, RecordGoalProgress, RecordCriterionVerified
-----------------------------------------------------------------------------
(* The invariant is inductive: it holds at the start and after every step of
   the gate, of a crash and of a resume. *)
THEOREM GateInvariant == Spec => []GateInv
<1>1. Init => GateInv
  BY NewTaskSound, GateAssumption DEF Init, GateInv, WellTyped, GrantInv, BindingInv,
     SatisfiedIsVerified, Session, Blank, GrantsNotReused, BindingsNotReused, Sound
<1>2. GateInv /\ [Next]_vars => GateInv'
  BY TypeStep, GrantStep, BindingStep, SatisfiedStep DEF GateInv
<1> QED
  BY <1>1, <1>2, PTL DEF Spec

(* No two destructive actions are allowed on one confirmation grant, whatever
   crashes, fails or expires (_prepare_action, confirmation_for). *)
THEOREM GrantsNeverReused == Spec => []GrantsNotReused
<1>1. GateInv => GrantsNotReused
  BY DEF GateInv, GrantInv
<1> QED
  BY <1>1, GateInvariant, PTL

(* An issued objective binding authorizes at most one request
   (take_objective_binding, add_objective_binding, clear_pending). *)
THEOREM BindingsNeverReused == Spec => []BindingsNotReused
<1>1. GateInv => BindingsNotReused
  BY DEF GateInv, BindingInv
<1> QED
  BY <1>1, GateInvariant, PTL

(* No authorization of either kind is used twice, for any number of actions,
   grants, requests, crashes and failures. *)
THEOREM AuthorizationsNeverReused == Spec => []AuthorizationsNotReused
<1>1. GrantsNotReused /\ BindingsNotReused => AuthorizationsNotReused
  BY DEF AuthorizationsNotReused
<1> QED
  BY <1>1, GrantsNeverReused, BindingsNeverReused, PTL

(* No criterion is satisfied while the verification of the artifact as it is
   is pending (commit_candidate, mark_criterion_satisfied, _restore_session). *)
THEOREM SatisfiedAlwaysVerified == Spec => []SatisfiedIsVerified
<1>1. GateInv => SatisfiedIsVerified
  BY DEF GateInv
<1> QED
  BY <1>1, GateInvariant, PTL
-----------------------------------------------------------------------------
(* The limits.  A verification was executed or is outstanding: what is outstanding
   beside the executed ones was allowed while the count was below the limit, and
   the count is behind the executed ones by the results that were cut short. *)
ExecutedOf(scope) == {r \in verified : r.criteria = scope}
(* The verifications of a scope that are still to be reported. *)
OutstandingOf(scope) ==
    {r \in session.pending : r.relation = "required_verification" /\ r.criteria = scope}

(* The most verifications of one scope. *)
Allowance == MaxVerifications + (MaxPending - 1)

(* The inductive invariant behind VerificationLimitHolds. *)
LimitInv ==
    /\ IsFiniteSet(verified) /\ IsFiniteSet(session.pending)
    /\ Cardinality(session.pending) <= MaxPending
    /\ \A scope \in Scopes :
          /\ Cardinality(ExecutedOf(scope)) <= journal.task.counts[scope] + faults
          /\ up => Cardinality(ExecutedOf(scope)) <= session.task.counts[scope] + faults
          /\ Cardinality(ExecutedOf(scope) \cup OutstandingOf(scope)) <= Allowance + faults

(* Subsets of a finite set are finite and no larger. *)
LEMMA SmallerSet ==
    ASSUME NEW S, IsFiniteSet(S), NEW T \in SUBSET S
    PROVE  /\ IsFiniteSet(T) /\ Cardinality(T) \in Nat /\ Cardinality(S) \in Nat
           /\ Cardinality(T) <= Cardinality(S)
BY FS_Subset, FS_CardinalityType

(* One more element makes a finite set larger by one at most. *)
LEMMA OneMore ==
    ASSUME NEW S, IsFiniteSet(S), NEW x
    PROVE  /\ IsFiniteSet(S \cup {x}) /\ Cardinality(S \cup {x}) \in Nat
           /\ Cardinality(S \cup {x}) <= Cardinality(S) + 1
<1>1. IsFiniteSet(S \cup {x}) /\ Cardinality(S) \in Nat
  BY FS_AddElement, FS_CardinalityType
<1>2. Cardinality(S \cup {x}) = IF x \in S THEN Cardinality(S) ELSE Cardinality(S) + 1
  BY FS_AddElement
<1> QED BY <1>1, <1>2, FS_CardinalityType

(* The sets the limits count are finite. *)
LEMMA LimitFinite ==
    ASSUME LimitInv, NEW scope \in Scopes
    PROVE  /\ IsFiniteSet(ExecutedOf(scope)) /\ IsFiniteSet(OutstandingOf(scope))
           /\ Cardinality(ExecutedOf(scope)) \in Nat
           /\ Cardinality(OutstandingOf(scope)) \in Nat
           /\ Cardinality(OutstandingOf(scope)) <= MaxPending
           /\ IsFiniteSet(ExecutedOf(scope) \cup OutstandingOf(scope))
           /\ Cardinality(ExecutedOf(scope) \cup OutstandingOf(scope)) \in Nat
           /\ Cardinality(session.pending) \in Nat
<1>1. IsFiniteSet(ExecutedOf(scope)) /\ Cardinality(ExecutedOf(scope)) \in Nat
  BY SmallerSet DEF LimitInv, ExecutedOf
<1>2. /\ IsFiniteSet(OutstandingOf(scope)) /\ Cardinality(OutstandingOf(scope)) \in Nat
      /\ Cardinality(session.pending) \in Nat
      /\ Cardinality(OutstandingOf(scope)) <= Cardinality(session.pending)
  <2>1. OutstandingOf(scope) \in SUBSET session.pending
    BY DEF OutstandingOf
  <2> QED BY <2>1, SmallerSet DEF LimitInv
<1>3. Cardinality(OutstandingOf(scope)) <= MaxPending
  BY <1>2, GateAssumption DEF LimitInv
<1>4. IsFiniteSet(ExecutedOf(scope) \cup OutstandingOf(scope))
  BY <1>1, <1>2, FS_Union
<1> QED BY <1>1, <1>2, <1>3, <1>4, FS_CardinalityType

(* Steps that execute no verification and allow none: the counts are those of the
   session or of the journal before. *)
LEMMA LimitQuiet ==
    ASSUME WellTyped, WellTyped', LimitInv, verified' = verified,
           faults' \in {faults, faults + 1}, session'.pending \subseteq session.pending,
           \/ journal'.task.counts = journal.task.counts
           \/ up /\ journal'.task.counts = session.task.counts,
           up' => \/ up /\ session'.task.counts = session.task.counts
                  \/ session'.task.counts = journal.task.counts
    PROVE  LimitInv'
<1>1. faults \in Nat /\ Allowance \in Nat /\ MaxPending \in Nat
  BY GateAssumption DEF WellTyped, Allowance
<1>2. IsFiniteSet(session'.pending) /\ Cardinality(session'.pending) <= MaxPending
  <2>1. IsFiniteSet(session'.pending) /\ Cardinality(session'.pending) \in Nat
        /\ Cardinality(session.pending) \in Nat
        /\ Cardinality(session'.pending) <= Cardinality(session.pending)
    BY SmallerSet DEF LimitInv
  <2> QED BY <1>1, <2>1 DEF LimitInv
<1>3. ASSUME NEW scope \in Scopes
      PROVE  /\ Cardinality(ExecutedOf(scope)') <= journal'.task.counts[scope] + faults'
             /\ up' => Cardinality(ExecutedOf(scope)') <= session'.task.counts[scope] + faults'
             /\ Cardinality(ExecutedOf(scope)' \cup OutstandingOf(scope)') <= Allowance + faults'
  <2>1. ExecutedOf(scope)' = ExecutedOf(scope) /\ OutstandingOf(scope)' \subseteq OutstandingOf(scope)
    BY DEF ExecutedOf, OutstandingOf
  <2>2. session.task.counts[scope] \in Nat /\ journal.task.counts[scope] \in Nat
    BY DEF WellTyped, Session, Task
  <2>3. /\ Cardinality(ExecutedOf(scope)) \in Nat
        /\ Cardinality(ExecutedOf(scope)) <= journal.task.counts[scope] + faults
        /\ up => Cardinality(ExecutedOf(scope)) <= session.task.counts[scope] + faults
    BY LimitFinite DEF LimitInv
  <2>4. /\ Cardinality(ExecutedOf(scope)') <= journal'.task.counts[scope] + faults'
        /\ up' => Cardinality(ExecutedOf(scope)') <= session'.task.counts[scope] + faults'
    BY <1>1, <2>1, <2>2, <2>3
  <2> DEFINE U == ExecutedOf(scope) \cup OutstandingOf(scope)
             W == ExecutedOf(scope)' \cup OutstandingOf(scope)'
  <2>5. W \in SUBSET U /\ IsFiniteSet(U) /\ Cardinality(U) <= Allowance + faults
    BY <2>1, LimitFinite DEF LimitInv
  <2> HIDE DEF U, W
  <2>6. Cardinality(W) <= Cardinality(U) /\ Cardinality(W) \in Nat /\ Cardinality(U) \in Nat
    BY <2>5, SmallerSet
  <2>7. Cardinality(W) <= Allowance + faults'
    BY <1>1, <2>5, <2>6
  <2> QED BY <2>4, <2>7 DEF W
<1> QED BY <1>2, <1>3 DEF LimitInv

(* Steps that start a new artifact revision: nothing was executed for it yet. *)
LEMMA LimitChanged ==
    ASSUME WellTyped, WellTyped', LimitInv, verified' = {}, session'.pending \subseteq session.pending
    PROVE  LimitInv'
<1>1. /\ faults' \in Nat /\ Allowance \in Nat /\ MaxPending \in Nat
      /\ MaxPending <= Allowance
  BY GateAssumption DEF WellTyped, Allowance
<1>2. /\ IsFiniteSet(session'.pending) /\ Cardinality(session'.pending) <= MaxPending
      /\ Cardinality(session'.pending) \in Nat
  <2>1. IsFiniteSet(session'.pending) /\ Cardinality(session'.pending) \in Nat
        /\ Cardinality(session.pending) \in Nat
        /\ Cardinality(session'.pending) <= Cardinality(session.pending)
    BY SmallerSet DEF LimitInv
  <2> QED BY <1>1, <2>1 DEF LimitInv
<1>3. ASSUME NEW scope \in Scopes
      PROVE  /\ Cardinality(ExecutedOf(scope)') <= journal'.task.counts[scope] + faults'
             /\ up' => Cardinality(ExecutedOf(scope)') <= session'.task.counts[scope] + faults'
             /\ Cardinality(ExecutedOf(scope)' \cup OutstandingOf(scope)') <= Allowance + faults'
  <2>1. ExecutedOf(scope)' = {} /\ OutstandingOf(scope)' \in SUBSET session'.pending
    BY DEF ExecutedOf, OutstandingOf
  <2>2. session'.task.counts[scope] \in Nat /\ journal'.task.counts[scope] \in Nat
    BY DEF WellTyped, Session, Task
  <2>3. Cardinality(ExecutedOf(scope)') = 0
    BY <2>1, FS_EmptySet
  <2>4. /\ Cardinality(OutstandingOf(scope)') \in Nat
        /\ Cardinality(OutstandingOf(scope)') <= Cardinality(session'.pending)
    BY <1>2, <2>1, SmallerSet
  <2>5. ExecutedOf(scope)' \cup OutstandingOf(scope)' = OutstandingOf(scope)'
    BY <2>1
  <2>6. Cardinality(OutstandingOf(scope)') <= Allowance + faults'
    BY <1>1, <1>2, <2>4
  <2>7. /\ 0 <= journal'.task.counts[scope] + faults'
        /\ 0 <= session'.task.counts[scope] + faults'
    BY <1>1, <2>2
  <2> QED BY <2>3, <2>5, <2>6, <2>7
<1>4. IsFiniteSet(verified')
  BY FS_EmptySet
<1> QED BY <1>2, <1>3, <1>4 DEF LimitInv
(* Steps that execute an outstanding verification: the session counts it, or the
   result was cut short, which is a fault. *)
LEMMA LimitExecuted ==
    ASSUME WellTyped, WellTyped', LimitInv, up, NEW r \in session.pending,
           r.relation = "required_verification", verified' = verified \cup {r},
           session'.pending \subseteq session.pending,
           faults' \in {faults, faults + 1},
           up' => session'.task.counts[r.criteria] = session.task.counts[r.criteria] + 1,
           up' => \A scope \in Scopes \ {r.criteria} :
                     session'.task.counts[scope] = session.task.counts[scope],
           \/ up' /\ journal'.task.counts = session'.task.counts
           \/ faults' = faults + 1 /\ journal'.task.counts = journal.task.counts
    PROVE  LimitInv'
<1>1. faults \in Nat /\ Allowance \in Nat /\ MaxPending \in Nat
  BY GateAssumption DEF WellTyped, Allowance
<1>2. IsFiniteSet(session'.pending) /\ Cardinality(session'.pending) <= MaxPending
  <2>1. IsFiniteSet(session'.pending) /\ Cardinality(session'.pending) \in Nat
        /\ Cardinality(session.pending) \in Nat
        /\ Cardinality(session'.pending) <= Cardinality(session.pending)
    BY SmallerSet DEF LimitInv
  <2> QED BY <1>1, <2>1 DEF LimitInv
<1>3. ASSUME NEW scope \in Scopes
      PROVE  /\ Cardinality(ExecutedOf(scope)') <= journal'.task.counts[scope] + faults'
             /\ up' => Cardinality(ExecutedOf(scope)') <= session'.task.counts[scope] + faults'
             /\ Cardinality(ExecutedOf(scope)' \cup OutstandingOf(scope)') <= Allowance + faults'
  <2> DEFINE E == ExecutedOf(scope)
             F == ExecutedOf(scope)'
             m == session.task.counts[scope]
             j == journal.task.counts[scope]
             m1 == session'.task.counts[scope]
             j1 == journal'.task.counts[scope]
  <2>1. m \in Nat /\ j \in Nat /\ m1 \in Nat /\ j1 \in Nat
    BY DEF WellTyped, Session, Task
  <2>2. /\ IsFiniteSet(E) /\ Cardinality(E) \in Nat
        /\ Cardinality(E) <= j + faults /\ Cardinality(E) <= m + faults
    BY LimitFinite DEF LimitInv
  <2>3. F = IF r.criteria = scope THEN E \cup {r} ELSE E
    BY DEF ExecutedOf
  <2>4. up' => m1 = IF r.criteria = scope THEN m + 1 ELSE m
    OBVIOUS
  <2>5. (up' /\ j1 = m1) \/ (faults' = faults + 1 /\ j1 = j)
    OBVIOUS
  <2> DEFINE U == ExecutedOf(scope) \cup OutstandingOf(scope)
             W == ExecutedOf(scope)' \cup OutstandingOf(scope)'
  <2>6. W \in SUBSET U
    BY <2>3 DEF OutstandingOf
  <2>7. IsFiniteSet(U) /\ Cardinality(U) <= Allowance + faults
    BY LimitFinite DEF LimitInv
  <2> HIDE DEF E, F, m, j, m1, j1, U, W
  <2>8. /\ Cardinality(F) \in Nat
        /\ Cardinality(F) <= Cardinality(E) + 1
        /\ r.criteria # scope => Cardinality(F) = Cardinality(E)
    <3>1. CASE r.criteria = scope
      <4>1. F = E \cup {r}
        BY <2>3, <3>1
      <4> QED BY <2>2, <3>1, <4>1, OneMore
    <3>2. CASE r.criteria # scope
      <4>1. F = E
        BY <2>3, <3>2
      <4> QED BY <2>2, <4>1
    <3> QED BY <3>1, <3>2
  <2>9. up' => Cardinality(F) <= m1 + faults'
    BY <1>1, <2>1, <2>2, <2>4, <2>8
  <2>10. Cardinality(F) <= j1 + faults'
    BY <1>1, <2>1, <2>2, <2>5, <2>8, <2>9
  <2>11. Cardinality(W) <= Cardinality(U) /\ Cardinality(W) \in Nat /\ Cardinality(U) \in Nat
    BY <2>6, <2>7, SmallerSet
  <2>12. Cardinality(W) <= Allowance + faults'
    BY <1>1, <2>7, <2>11
  <2> QED BY <2>9, <2>10, <2>12 DEF F, m1, j1, W
<1>4. IsFiniteSet(verified')
  BY FS_AddElement DEF LimitInv
<1> QED BY <1>2, <1>3, <1>4 DEF LimitInv

(* An allowed action is outstanding: a verification is allowed only while the
   count of its scope is below the limit. *)
LEMMA LimitPrepare ==
    ASSUME WellTyped, WellTyped', LimitInv, NEW b \in Offered, NEW late, PrepareAction(b, late)
    PROVE  LimitInv'
<1>1. /\ faults \in Nat /\ Allowance \in Nat /\ MaxPending \in Nat /\ MaxVerifications \in Nat
      /\ Allowance = MaxVerifications + (MaxPending - 1)
  BY GateAssumption DEF WellTyped, Allowance
<1>2. /\ up /\ up' = up /\ verified' = verified /\ faults' = faults
      /\ Cardinality(session.pending) < MaxPending /\ ~LimitExceeded(Request(b))
      /\ session'.pending = session.pending \cup {Request(b)}
      /\ session'.task = session.task /\ journal'.task = journal.task
  BY DEF PrepareAction, Allows, WellTyped, Session
<1>3. IsFiniteSet(session'.pending) /\ Cardinality(session'.pending) <= MaxPending
  <2>1. IsFiniteSet(session.pending) /\ Cardinality(session.pending) \in Nat
    BY FS_CardinalityType DEF LimitInv
  <2>2. IsFiniteSet(session'.pending) /\ Cardinality(session'.pending) <= Cardinality(session.pending) + 1
    BY <1>2, <2>1, OneMore
  <2>3. Cardinality(session'.pending) \in Nat
    BY <2>2, FS_CardinalityType
  <2> QED BY <1>1, <1>2, <2>1, <2>2, <2>3
<1>4. ASSUME NEW scope \in Scopes
      PROVE  /\ Cardinality(ExecutedOf(scope)') <= journal'.task.counts[scope] + faults'
             /\ up' => Cardinality(ExecutedOf(scope)') <= session'.task.counts[scope] + faults'
             /\ Cardinality(ExecutedOf(scope)' \cup OutstandingOf(scope)') <= Allowance + faults'
  <2> DEFINE E == ExecutedOf(scope)
             P == OutstandingOf(scope)'
  <2>1. ExecutedOf(scope)' = E
    BY <1>2 DEF ExecutedOf
  <2>2. /\ IsFiniteSet(E) /\ Cardinality(E) \in Nat
        /\ Cardinality(E) <= journal.task.counts[scope] + faults
        /\ Cardinality(E) <= session.task.counts[scope] + faults
        /\ Cardinality(E \cup OutstandingOf(scope)) <= Allowance + faults
    BY <1>2, LimitFinite DEF LimitInv
  <2>3. CASE Request(b).relation = "required_verification" /\ Request(b).criteria = scope
    <3>1. session.task.counts[scope] < MaxVerifications /\ session.task.counts[scope] \in Nat
      <4>1. session.task.counts[scope] \in Nat
        BY DEF WellTyped, Session, Task
      <4> QED BY <1>1, <1>2, <2>3, <4>1 DEF LimitExceeded
    <3>2. P \in SUBSET session'.pending
      BY DEF OutstandingOf
    <3> HIDE DEF E, P
    <3>3. IsFiniteSet(P) /\ Cardinality(P) \in Nat /\ Cardinality(P) <= MaxPending
      <4>1. IsFiniteSet(P) /\ Cardinality(P) \in Nat /\ Cardinality(session'.pending) \in Nat
            /\ Cardinality(P) <= Cardinality(session'.pending)
        BY <1>3, <3>2, SmallerSet
      <4> QED BY <1>1, <1>3, <4>1
    <3>4. Cardinality(E \cup P) <= Cardinality(E) + Cardinality(P)
      <4>1. Cardinality(E \cup P) = Cardinality(E) + Cardinality(P) - Cardinality(E \cap P)
        BY <2>2, <3>3, FS_Union
      <4>2. Cardinality(E \cap P) \in Nat
        BY <2>2, SmallerSet
      <4> QED BY <2>2, <3>3, <4>1, <4>2
    <3>5. Cardinality(E \cup P) \in Nat
      BY <2>2, <3>3, FS_Union, FS_CardinalityType
    <3>6. Cardinality(E \cup P) <= Allowance + faults
      BY <1>1, <2>2, <3>1, <3>3, <3>4, <3>5
    <3> QED BY <1>2, <2>1, <2>2, <3>6 DEF P
  <2>4. CASE ~(Request(b).relation = "required_verification" /\ Request(b).criteria = scope)
    <3>1. P = OutstandingOf(scope)
      BY <1>2, <2>4 DEF OutstandingOf
    <3> QED BY <1>2, <2>1, <2>2, <3>1
  <2> QED BY <2>3, <2>4
<1> QED BY <1>2, <1>3, <1>4 DEF LimitInv

(* Every action keeps the limit on verifications. *)
LEMMA LimitStep ==
    ASSUME WellTyped, LimitInv, [Next]_vars
    PROVE  LimitInv'
<1>0. WellTyped'
  BY TypeStep
<1>t. /\ session \in Session /\ journal \in [consumed : SUBSET Grants, task : Task]
      /\ Blank.pending = {} /\ faults \in Nat
  BY GateAssumption DEF WellTyped, Blank
<1>1. ASSUME NEW a \in Actions, NEW relation \in Relations, NEW scope \in Scopes,
             NEW pin \in HostPins, BindObjective(a, relation, scope, pin)
      PROVE  LimitInv'
  <2>1. session'.pending = session.pending /\ session'.task = session.task
    BY <1>t, <1>1 DEF BindObjective, Session
  <2> QED BY <1>0, <1>1, <2>1, LimitQuiet DEF BindObjective
<1>2. ASSUME NEW b \in Offered, NEW late \in SUBSET (Grants \ expired), PrepareAction(b, late)
      PROVE  LimitInv'
  BY <1>0, <1>2, LimitPrepare
<1>3. ASSUME Die, faults' = faults + 1, verified' = verified, journal'.task = journal.task
      PROVE  LimitInv'
  BY <1>0, <1>t, <1>3, LimitQuiet DEF Die
<1>4. ASSUME NEW b \in Offered, PrepareActionInterrupted(b)
      PROVE  LimitInv'
  BY <1>3, <1>t, <1>4 DEF PrepareActionInterrupted, Fails, history
<1>5. ASSUME NEW b \in Offered, NEW committed \in BOOLEAN, PrepareActionFails(b, committed)
      PROVE  LimitInv'
  <2>1. /\ session'.pending = session.pending /\ session'.task = session.task
        /\ journal'.task = journal.task
    BY <1>t, <1>5 DEF PrepareActionFails, Session
  <2> QED BY <1>0, <1>5, <2>1, LimitQuiet DEF PrepareActionFails, Fails, history
<1>6. ASSUME NEW b \in session.bindings, PrepareRefused(b)
      PROVE  LimitInv'
  <2>1. session'.pending = session.pending /\ session'.task = session.task
    BY <1>t, <1>6 DEF PrepareRefused, Session
  <2> QED BY <1>0, <1>6, <2>1, LimitQuiet DEF PrepareRefused, history
<1>7. ASSUME NEW g \in Grants, GrantExpires(g)
      PROVE  LimitInv'
  BY <1>0, <1>7, LimitQuiet DEF GrantExpires, history
<1>8. ASSUME NEW r \in session.pending, up
      PROVE  /\ Committed(session.task, r, FALSE).counts \in {session.task.counts,
                    [session.task.counts EXCEPT ![r.criteria] = @ + 1]}
             /\ r.relation = "required_verification" =>
                  Committed(session.task, r, FALSE).counts =
                    [session.task.counts EXCEPT ![r.criteria] = @ + 1]
             /\ r.relation # "required_verification" =>
                  Committed(session.task, r, FALSE).counts = session.task.counts
             /\ r.criteria \in Scopes /\ session.task.counts \in [Scopes -> Nat]
  BY <1>t DEF Committed, Session, Task, Requests
<1>9. ASSUME NEW r \in session.pending, NEW changed \in BOOLEAN,
             \/ RecordToolResult(r, changed)
             \/ RecordToolResultInterrupted(r, changed)
             \/ \E committed \in BOOLEAN : RecordToolResultFails(r, changed, committed)
      PROVE  LimitInv'
  <2>1. /\ up /\ verified' = Executed(r, changed) /\ session'.pending \subseteq session.pending
        /\ faults' \in {faults, faults + 1}
    BY <1>t, <1>9 DEF RecordToolResult, RecordToolResultInterrupted, RecordToolResultFails,
                      Fails, Die, Session
  <2>2. \/ /\ up' /\ session'.task = Committed(session.task, r, changed)
           /\ journal'.task = session'.task
        \/ /\ up' /\ session'.task = Committed(session.task, r, changed)
           /\ faults' = faults + 1 /\ journal'.task = journal.task
        \/ ~up' /\ faults' = faults + 1 /\ journal'.task = journal.task
    <3>1. CASE RecordToolResult(r, changed)
      BY <1>t, <3>1 DEF RecordToolResult, Session
    <3>2. CASE RecordToolResultInterrupted(r, changed)
      BY <3>2 DEF RecordToolResultInterrupted, Fails, Die
    <3>3. ASSUME NEW committed \in BOOLEAN, RecordToolResultFails(r, changed, committed)
          PROVE  /\ up' /\ session'.task = Committed(session.task, r, changed)
                 /\ \/ journal'.task = session'.task
                    \/ faults' = faults + 1 /\ journal'.task = journal.task
      <4>1. up' /\ session'.task = Committed(session.task, r, changed) /\ faults' = faults + 1
        BY <1>t, <3>3 DEF RecordToolResultFails, Fails, Session
      <4>2. CASE committed
        BY <1>t, <4>1, <3>3, <4>2 DEF RecordToolResultFails
      <4>3. CASE ~committed
        BY <4>1, <3>3, <4>3 DEF RecordToolResultFails
      <4> QED BY <4>1, <4>2, <4>3
    <3> QED BY <1>9, <3>1, <3>2, <3>3
  <2>3. CASE changed
    BY <1>0, <2>1, <2>3, LimitChanged DEF Executed
  <2>4. CASE ~changed /\ r.relation = "required_verification"
    <3>1. verified' = verified \cup {r}
      BY <2>1, <2>4 DEF Executed
    <3>2. up' => session'.task.counts = [session.task.counts EXCEPT ![r.criteria] = @ + 1]
      BY <1>8, <2>1, <2>2, <2>4
    <3>3. /\ up' => session'.task.counts[r.criteria] = session.task.counts[r.criteria] + 1
          /\ up' => \A scope \in Scopes \ {r.criteria} :
                       session'.task.counts[scope] = session.task.counts[scope]
      BY <1>8, <2>1, <3>2
    <3>4. \/ up' /\ journal'.task.counts = session'.task.counts
          \/ faults' = faults + 1 /\ journal'.task.counts = journal.task.counts
      BY <2>2
    <3> QED BY <1>0, <2>1, <2>4, <3>1, <3>3, <3>4, LimitExecuted
  <2>5. CASE ~changed /\ r.relation # "required_verification"
    <3>1. verified' = verified
      BY <2>1, <2>5 DEF Executed
    <3>2. up' => session'.task.counts = session.task.counts
      BY <1>8, <2>1, <2>2, <2>5
    <3>3. \/ journal'.task.counts = journal.task.counts
          \/ up /\ journal'.task.counts = session.task.counts
      BY <2>1, <2>2, <3>2
    <3> QED BY <1>0, <2>1, <3>1, <3>2, <3>3, LimitQuiet
  <2> QED BY <2>3, <2>4, <2>5
<1>10. ASSUME RecordUncorrelatedChange
       PROVE  LimitInv'
  <2>1. session'.pending = session.pending
    BY <1>t, <1>10 DEF RecordUncorrelatedChange, Session
  <2> QED BY <1>0, <1>10, <2>1, LimitChanged DEF RecordUncorrelatedChange
<1>11. ASSUME NEW task, task.counts = session.task.counts,
              JudgeCriterion(task) \/ JudgeCriterionFails(task)
       PROVE  LimitInv'
  <2>1. /\ up /\ session'.pending = session.pending /\ session'.task = task
        /\ journal'.task \in {journal.task, task} /\ verified' = verified
        /\ faults' \in {faults, faults + 1}
    BY <1>t, <1>11 DEF JudgeCriterion, JudgeCriterionFails, Fails, history, Session
  <2> QED BY <1>0, <1>11, <2>1, LimitQuiet
<1>12. ASSUME NEW c \in Criteria
       PROVE  /\ Progress(session.task, c).counts = session.task.counts
              /\ Satisfy(session.task, c).counts = session.task.counts
  BY <1>t DEF Progress, Satisfy, Session, Task
<1>13. ASSUME Crash
       PROVE  LimitInv'
  BY <1>3, <1>13 DEF Crash, Fails, history
<1>14. ASSUME Resume
       PROVE  LimitInv'
  <2>1. session'.pending = {} /\ session'.task = journal.task
    BY <1>14 DEF Resume, Restored, Blank
  <2> QED BY <1>0, <1>14, <2>1, LimitQuiet DEF Resume, history
<1>15. ASSUME UNCHANGED vars
       PROVE  LimitInv'
  BY <1>0, <1>15, LimitQuiet DEF vars, history
<1> QED
  BY <1>1, <1>2, <1>4, <1>5, <1>6, <1>7, <1>9, <1>10, <1>11, <1>12, <1>13, <1>14, <1>15
     DEF Next, RecordGoalProgress, RecordCriterionVerified
-----------------------------------------------------------------------------
(* What bounds the bindings of a session. *)
BoundInv ==
    IsFiniteSet(session.bindings) /\ Cardinality(session.bindings) <= MaxBindings

(* A set of bindings that is not empty has one that was placed first. *)
LEMMA FirstPlaced ==
    ASSUME NEW B \in SUBSET Bindings, B # {}
    PROVE  \E m \in B : \A c \in B : ~(c.place < m.place)
<1> DEFINE Below == {p \in Nat \X Nat : p[1] < p[2]}
           Places == {c.place : c \in B}
<1>1. IsWellFoundedOn(Below, Nat)
  BY NatLessThanWellFounded DEF OpToRel
<1>2. Places \subseteq Nat /\ Places # {}
  BY GateAssumption DEF Bindings
<1>3. PICK x \in Places : \A y \in Places : <<y, x>> \notin Below
  <2> HIDE DEF Below, Places
  <2> QED BY <1>1, <1>2, WFMin
<1>4. PICK m \in B : m.place = x
  OBVIOUS
<1>5. ASSUME NEW c \in B, c.place < m.place
      PROVE  FALSE
  <2>1. c.place \in Places /\ c.place \in Nat /\ x \in Nat
    BY <1>2
  <2>2. <<c.place, x>> \in Below
    BY <1>4, <1>5, <2>1
  <2> QED BY <1>3, <2>1, <2>2
<1> QED BY <1>4, <1>5

(* Issuing a binding leaves no more of them than allowed: an equal one is replaced,
   and the one placed first goes when there are too many. *)
LEMMA AddedBound ==
    ASSUME NEW B \in SUBSET Bindings, IsFiniteSet(B), Cardinality(B) <= MaxBindings,
           \A c, d \in B : SameDigest(c, d) => c = d, NEW b \in Bindings
    PROVE  IsFiniteSet(Added(B, b)) /\ Cardinality(Added(B, b)) <= MaxBindings
<1> DEFINE same == {c \in B : SameDigest(c, b)}
           all == (B \ same) \cup
              {[b EXCEPT !.place = c.place] : c \in IF same = {} THEN {b} ELSE same}
           kept == {c \in all : \E d \in all : d.place < c.place}
<1>1. Added(B, b) = IF Cardinality(all) > MaxBindings THEN kept ELSE all
  BY DEF Added
<1>2. all \in SUBSET Bindings
  <2>1. ASSUME NEW c \in Bindings
        PROVE  [b EXCEPT !.place = c.place] \in Bindings
    BY DEF Bindings
  <2> QED BY <2>1
<1>3. \E x : all \in SUBSET (B \cup {x})
  <2>1. CASE same = {}
    <3>1. all \in SUBSET (B \cup {[b EXCEPT !.place = b.place]})
      BY <2>1
    <3> QED BY <3>1
  <2>2. ASSUME NEW c \in same
        PROVE  \E x : all \in SUBSET (B \cup {x})
    <3>1. same = {c}
      BY <2>2 DEF SameDigest
    <3>2. all \in SUBSET (B \cup {[b EXCEPT !.place = c.place]})
      BY <3>1
    <3> QED BY <3>2
  <2> QED BY <2>1, <2>2
<1>4. PICK x : all \in SUBSET (B \cup {x})
  BY <1>3
<1>5. kept \in SUBSET all
  OBVIOUS
<1>6. ASSUME NEW m \in all, \A c \in all : ~(c.place < m.place)
      PROVE  kept \in SUBSET (all \ {m})
  BY <1>6
<1> HIDE DEF same, all, kept
<1>7. /\ IsFiniteSet(all) /\ Cardinality(all) \in Nat /\ Cardinality(B) \in Nat
      /\ Cardinality(all) <= Cardinality(B) + 1
  <2>1. /\ IsFiniteSet(B \cup {x}) /\ Cardinality(B \cup {x}) \in Nat
        /\ Cardinality(B \cup {x}) <= Cardinality(B) + 1
    BY OneMore
  <2>2. /\ IsFiniteSet(all) /\ Cardinality(all) \in Nat
        /\ Cardinality(all) <= Cardinality(B \cup {x})
    BY <1>4, <2>1, SmallerSet
  <2>3. Cardinality(B) \in Nat
    BY FS_CardinalityType
  <2> QED BY <2>1, <2>2, <2>3
<1>8. MaxBindings \in Nat
  BY GateAssumption
<1>9. CASE Cardinality(all) > MaxBindings
  <2>1. all # {}
    BY <1>8, <1>9, FS_EmptySet
  <2>2. PICK m \in all : \A c \in all : ~(c.place < m.place)
    BY <1>2, <2>1, FirstPlaced
  <2>3. kept \in SUBSET (all \ {m})
    BY <1>6, <2>2
  <2>4. IsFiniteSet(all \ {m}) /\ Cardinality(all \ {m}) = Cardinality(all) - 1
    BY <1>7, FS_RemoveElement
  <2>5. /\ IsFiniteSet(kept) /\ Cardinality(kept) \in Nat
        /\ Cardinality(kept) <= Cardinality(all \ {m})
    BY <2>3, <2>4, SmallerSet
  <2>6. Cardinality(kept) <= MaxBindings
    BY <1>7, <1>8, <2>4, <2>5
  <2> QED BY <1>1, <1>9, <2>5, <2>6
<1>10. CASE ~(Cardinality(all) > MaxBindings)
  BY <1>1, <1>7, <1>8, <1>10
<1> QED BY <1>9, <1>10

(* Every action keeps the bindings within their bound. *)
LEMMA BoundStep ==
    ASSUME WellTyped, BindingInv, BoundInv, [Next]_vars
    PROVE  BoundInv'
<1>1. ASSUME session'.bindings \subseteq session.bindings
      PROVE  BoundInv'
  <2>1. /\ IsFiniteSet(session'.bindings)
        /\ Cardinality(session'.bindings) <= Cardinality(session.bindings)
        /\ Cardinality(session'.bindings) \in Nat /\ Cardinality(session.bindings) \in Nat
    BY <1>1, SmallerSet DEF BoundInv
  <2> QED BY <2>1, GateAssumption DEF BoundInv
<1>2. Blank.bindings = {} /\ session \in Session
  BY DEF Blank, WellTyped
<1>3. ASSUME NEW a \in Actions, NEW relation \in Relations, NEW scope \in Scopes,
             NEW pin \in HostPins, BindObjective(a, relation, scope, pin)
      PROVE  BoundInv'
  <2> DEFINE b == Binding(a, relation, scope, pin)
  <2>1. b \in Bindings
    BY <1>3, BindingFact DEF BindObjective
  <2>2. session'.bindings = Added(session.bindings, b)
    BY <1>2, <1>3 DEF BindObjective, Session
  <2>3. session.bindings \in SUBSET Bindings
    BY <1>2 DEF Session
  <2> HIDE DEF b
  <2>4. \A c, d \in session.bindings : SameDigest(c, d) => c = d
    BY DEF BindingInv
  <2> QED BY <2>1, <2>2, <2>3, <2>4, AddedBound DEF BoundInv
<1>4. CASE \E b \in Offered : \/ \E late \in SUBSET (Grants \ expired) : PrepareAction(b, late)
                             \/ PrepareActionInterrupted(b)
                             \/ \E committed \in BOOLEAN : PrepareActionFails(b, committed)
  BY <1>1, <1>2, <1>4 DEF PrepareAction, PrepareActionInterrupted, PrepareActionFails, Die,
     Taken, Session
<1>5. CASE \E b \in session.bindings : PrepareRefused(b)
  BY <1>1, <1>2, <1>5 DEF PrepareRefused, Taken, Session
<1>6. CASE \E g \in Grants : GrantExpires(g)
  BY <1>1, <1>6 DEF GrantExpires
<1>7. ASSUME NEW r \in session.pending, NEW changed \in BOOLEAN,
             \/ RecordToolResult(r, changed)
             \/ RecordToolResultInterrupted(r, changed)
             \/ \E committed \in BOOLEAN : RecordToolResultFails(r, changed, committed)
      PROVE  BoundInv'
  BY <1>1, <1>2, <1>7 DEF RecordToolResult, RecordToolResultInterrupted,
     RecordToolResultFails, Die, Session
<1>8. CASE RecordUncorrelatedChange
  BY <1>1, <1>2, <1>8 DEF RecordUncorrelatedChange, Session
<1>9. ASSUME NEW task, JudgeCriterion(task) \/ JudgeCriterionFails(task)
      PROVE  BoundInv'
  BY <1>1, <1>2, <1>9 DEF JudgeCriterion, JudgeCriterionFails, Session
<1>10. CASE Crash
  BY <1>1, <1>2, <1>10 DEF Crash, Die
<1>11. CASE Resume
  BY <1>1, <1>11 DEF Resume, Restored, Blank
<1>12. CASE UNCHANGED vars
  BY <1>1, <1>12 DEF vars
<1> QED
  BY <1>3, <1>4, <1>5, <1>6, <1>7, <1>8, <1>9, <1>10, <1>11, <1>12
     DEF Next, RecordGoalProgress, RecordCriterionVerified

(* The bindings of a session and the verifications executed between two changes of
   the artifact stay within their limits, for every number of actions, grants,
   crashes and failed writes (add_objective_binding, verification_limit_exceeded). *)
THEOREM LimitsAlwaysHold == Spec => []LimitsHold
<1>1. Init => WellTyped /\ BindingInv /\ BoundInv /\ LimitInv
  <2> SUFFICES ASSUME Init PROVE WellTyped /\ BindingInv /\ BoundInv /\ LimitInv
    OBVIOUS
  <2>1. WellTyped /\ BindingInv
    BY NewTaskSound, GateAssumption DEF Init, Blank, WellTyped, Session, BindingInv,
       BindingsNotReused
  <2>2. /\ session.bindings = {} /\ session.pending = {} /\ verified = {}
        /\ \A scope \in Scopes : ExecutedOf(scope) = {} /\ OutstandingOf(scope) = {}
    BY DEF Init, Blank, ExecutedOf, OutstandingOf
  <2>3. IsFiniteSet({}) /\ Cardinality({}) = 0
    BY FS_EmptySet
  <2>4. BoundInv
    BY <2>2, <2>3, GateAssumption DEF BoundInv
  <2>5. /\ Allowance \in Nat /\ faults \in Nat /\ MaxPending \in Nat
        /\ \A scope \in Scopes : session.task.counts[scope] \in Nat /\ journal.task.counts[scope] \in Nat
    BY <2>1, GateAssumption DEF WellTyped, Allowance, Session, Task
  <2>6. LimitInv
    <3>1. ASSUME NEW scope \in Scopes
          PROVE  /\ Cardinality(ExecutedOf(scope)) <= journal.task.counts[scope] + faults
                 /\ Cardinality(ExecutedOf(scope)) <= session.task.counts[scope] + faults
                 /\ Cardinality(ExecutedOf(scope) \cup OutstandingOf(scope)) <= Allowance + faults
      <4>1. ExecutedOf(scope) = {} /\ ExecutedOf(scope) \cup OutstandingOf(scope) = {}
        BY <2>2
      <4>2. /\ 0 <= journal.task.counts[scope] + faults /\ 0 <= session.task.counts[scope] + faults
            /\ 0 <= Allowance + faults
        BY <2>5
      <4> QED BY <2>3, <4>1, <4>2
    <3> QED BY <2>2, <2>3, <2>5, <3>1 DEF LimitInv
  <2> QED BY <2>1, <2>4, <2>6
<1>2. WellTyped /\ BindingInv /\ BoundInv /\ LimitInv /\ [Next]_vars =>
         (WellTyped /\ BindingInv /\ BoundInv /\ LimitInv)'
  BY TypeStep, BindingStep, BoundStep, LimitStep
<1>3. WellTyped /\ BoundInv /\ LimitInv => LimitsHold
  <2> SUFFICES ASSUME WellTyped, BoundInv, LimitInv PROVE LimitsHold
    OBVIOUS
  <2>1. TypeOK
    BY DEF TypeOK, BoundInv
  <2>2. ASSUME NEW scope \in Scopes
        PROVE  Cardinality({r \in verified : r.criteria = scope})
                  <= MaxVerifications + (MaxPending - 1) + faults
    <3> DEFINE E == ExecutedOf(scope)
               U == ExecutedOf(scope) \cup OutstandingOf(scope)
    <3>1. /\ IsFiniteSet(U) /\ Cardinality(U) <= Allowance + faults /\ E \in SUBSET U
          /\ {r \in verified : r.criteria = scope} = E
      BY LimitFinite DEF LimitInv, ExecutedOf
    <3>2. /\ Allowance = MaxVerifications + (MaxPending - 1) /\ Allowance \in Nat
          /\ faults \in Nat
      BY GateAssumption DEF Allowance, WellTyped
    <3> HIDE DEF E, U
    <3>3. Cardinality(E) \in Nat /\ Cardinality(U) \in Nat /\ Cardinality(E) <= Cardinality(U)
      BY <3>1, SmallerSet
    <3>4. Cardinality(E) <= Allowance + faults
      BY <3>1, <3>2, <3>3
    <3> QED BY <3>1, <3>2, <3>4
  <2> QED BY <2>1, <2>2 DEF LimitsHold, VerificationLimitHolds
<1> QED
  BY <1>1, <1>2, <1>3, PTL DEF Spec
=============================================================================
