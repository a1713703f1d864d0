---------------------------- MODULE RetryConvergence ----------------------------
(***************************************************************************)
(* Bounded recovery of one runtime session: attempts and their failures,   *)
(* the per-cause retry accounting of AttemptEvidenceTracker, the retry     *)
(* gate (before_retry, RetryHypothesisGateV2, RetryBoundaryEnforcer), the  *)
(* premise ledger shared with other agents of the workflow, termination,   *)
(* and what a crash and a resume leave of all this.                        *)
(*                                                                         *)
(* `session' is memory, `journal' what replaying the committed rows        *)
(* yields; the shared ledger is a database of its own.  A handler that     *)
(* commits twice has an Interrupted twin that dies between two commits.    *)
(* The other agents' failures are seen here as one atomic step each; their *)
(* race on the ledger is the subject of module SharedBranchLedger.         *)
(***************************************************************************)
EXTENDS Naturals, FiniteSets

CONSTANTS
    Causes,            \* cause identifiers
    PrimaryCause,      \* "primary-objective"
    Premises, Plans,   \* premise digests and action plan digests
    Attempts,          \* attempt references
    RecoveryLimit,     \* max_recovery_epochs_without_goal_progress
    SameApproachLimit, \* max_same_approach_retries
    SupportLimit,      \* support_actions_before_goal_reanchor
    Shared,            \* the session belongs to a shared workflow
    Delivery,          \* goal_contract.work_mode = "delivery"
    MaxCount,          \* bound: epochs and support actions counted
    MaxForeign,        \* bound: failures other agents report
    MaxCrashes         \* bound: process crashes

ASSUME RetryAssumption ==
    /\ PrimaryCause \in Causes
    /\ RecoveryLimit \in Nat \ {0}
    /\ SameApproachLimit \in Nat \ {0}
    /\ SupportLimit \in Nat \ {0}
    /\ Shared \in BOOLEAN
    /\ Delivery \in BOOLEAN
    /\ MaxCount \in Nat
    /\ MaxForeign \in Nat
    /\ MaxCrashes \in Nat
    /\ IsFiniteSet(Attempts)

Terminal == {"BLOCKED", "FAILED", "HANDOFF"}
Dispositions == Terminal \cup {"RUNNING"}

(* AttemptDescriptor *)
Descriptor == [cause : Causes, premise : Premises, plan : Plans]
NoDescriptor == [cause |-> PrimaryCause, premise |-> "none", plan |-> "none"]
Approach == [premise : Premises, plan : Plans]
NoApproach == [premise |-> "none", plan |-> "none"]
ApproachOf(d) == [premise |-> d.premise, plan |-> d.plan]

ASSUME NamesAssumption == "none" \notin Premises /\ "none" \notin Plans

(* RetryState.  known: the tracker has an entry for the cause.  epochs is
   recovery_epochs_since_goal_progress, the only epoch count a gate reads. *)
RetryState == [known : BOOLEAN, approach : Approach \cup {NoApproach},
               same : Nat, epochs : Nat, support : Nat, reinspected : BOOLEAN,
               disposition : Dispositions]
Fresh == [known |-> FALSE, approach |-> NoApproach, same |-> 0, epochs |-> 0,
          support |-> 0, reinspected |-> FALSE, disposition |-> "RUNNING"]

View == [descriptors : [Attempts -> Descriptor \cup {NoDescriptor}],
         failures : SUBSET Attempts,
         states : [Causes -> RetryState]]
Blank == [descriptors |-> [a \in Attempts |-> NoDescriptor],
          failures |-> {},
          states |-> [c \in Causes |-> Fresh]]

Branches == [cause : Causes, premise : Premises]
BranchOf(d) == [cause |-> d.cause, premise |-> d.premise]

VARIABLES
    up,           \* the process is running
    session,      \* descriptors, failures and retry states in memory
    disposition,  \* lifecycle_workflow.termination_disposition
    journal,      \* the view the committed rows replay to
    ledger,       \* attempts counted per branch in the shared ledger
    foreign,      \* failures of other agents counted per branch
    crashes,      \* crashes so far
    spent,        \* history: recovery epochs committed since goal progress
    terminated,   \* history: causes whose termination was committed
    taskOver      \* history: a termination of the task was committed

vars == <<up, session, disposition, journal, ledger, foreign, crashes, spent,
          terminated, taskOver>>
history == <<spent, terminated, taskOver>>

TypeOK ==
    /\ up \in BOOLEAN
    /\ session \in View
    /\ disposition \in Dispositions
    /\ journal \in View
    /\ ledger \in [Branches -> SUBSET Attempts]
    /\ foreign \in [Branches -> Nat]
    /\ crashes \in Nat
    /\ spent \in [Causes -> Nat]
    /\ terminated \in SUBSET Causes
    /\ taskOver \in BOOLEAN

Init ==
    /\ up = TRUE
    /\ session = Blank
    /\ disposition = "RUNNING"
    /\ journal = Blank
    /\ ledger = [b \in Branches |-> {}]
    /\ foreign = [b \in Branches |-> 0]
    /\ crashes = 0
    /\ spent = [c \in Causes |-> 0]
    /\ terminated = {}
    /\ taskOver = FALSE
-----------------------------------------------------------------------------
(* A convergence_recorded row carries the whole tracker, and restore replaces
   every entry the row has. *)
ReplayConvergence(view, states) == [view EXCEPT !.states = states]
ReplayDescriptor(view, a, d) == [view EXCEPT !.descriptors[a] = d]
(* Only the reference is replayed, not the row's own convergence payload. *)
ReplayFailure(view, a) == [view EXCEPT !.failures = @ \cup {a}]

Die ==
    /\ crashes < MaxCrashes
    /\ crashes' = crashes + 1
    /\ up' = FALSE
    /\ session' = Blank
    /\ disposition' = "RUNNING"

(* Replace the retry states, in memory and with a convergence_recorded row. *)
RecordConvergence(states) ==
    /\ session' = [session EXCEPT !.states = states]
    /\ journal' = ReplayConvergence(journal, states)

(* AttemptEvidenceTracker.record_failure *)
Failed(r, approach) ==
    [r EXCEPT !.known = TRUE, !.approach = approach,
              !.same = IF r.approach = approach THEN @ + 1 ELSE 1]

(* record_progress with GOAL_PROGRESS or BLOCKER_REMOVED: the reinspection,
   the failed approach and the disposition stay. *)
Progressed(r) ==
    [r EXCEPT !.known = TRUE, !.same = 0, !.epochs = 0, !.support = 0]

(* terminate: every cause the tracker has an entry for. *)
Terminated(states, d) ==
    [c \in Causes |-> IF states[c].known
                      THEN [states[c] EXCEPT !.disposition = d] ELSE states[c]]
KnownCauses(states) == {c \in Causes : states[c].known}
-----------------------------------------------------------------------------
(* _begin_attempt: a reference may only be bound again to the same plan. *)
BeginAttempt(a, d) ==
    /\ up
    /\ session.descriptors[a] \in {NoDescriptor, d}
    /\ session' = [session EXCEPT !.descriptors[a] = d]
    /\ journal' = ReplayDescriptor(journal, a, d)
    /\ UNCHANGED <<up, disposition, ledger, foreign, crashes, history>>

(* _record_attempt_failure reports an attempt once; the shared ledger comes
   first, then memory, then the failure row, then the convergence row. *)
FailureDue(a) ==
    /\ up
    /\ session.descriptors[a] # NoDescriptor
    /\ a \notin session.failures
LedgerWith(a) ==
    IF Shared
    THEN [ledger EXCEPT ![BranchOf(session.descriptors[a])] = @ \cup {a}]
    ELSE ledger

RecordAttemptFailure(a) ==
    LET d == session.descriptors[a]
        states == [session.states EXCEPT ![d.cause] = Failed(@, ApproachOf(d))]
    IN /\ FailureDue(a)
       /\ ledger' = LedgerWith(a)
       /\ session' = [session EXCEPT !.states = states,
                                     !.failures = @ \cup {a}]
       /\ journal' = ReplayConvergence(ReplayFailure(journal, a), states)
       /\ UNCHANGED <<up, disposition, foreign, crashes, history>>

(* Fault: the failure row is committed before the shared ledger is told. *)
FaultyRecordAttemptFailureInterrupted(a) ==
    /\ FailureDue(a)
    /\ journal' = ReplayFailure(journal, a)
    /\ Die
    /\ UNCHANGED <<ledger, foreign, history>>

RecordAttemptFailureInterrupted(a) ==
    /\ FailureDue(a)
    /\ ledger' = LedgerWith(a)
    /\ journal' \in {journal, ReplayFailure(journal, a)}
    /\ Die
    /\ UNCHANGED <<foreign, history>>

(* _record_reinspection; revisions are positive, so only that there was one
   matters to the gate. *)
RecordReinspection(c) ==
    /\ up
    /\ RecordConvergence([session.states EXCEPT ![c].known = TRUE,
                                                ![c].reinspected = TRUE])
    /\ UNCHANGED <<up, disposition, ledger, foreign, crashes, history>>

(* _record_goal_progress, for evidence that passes its checks. *)
RecordGoalProgress(c) ==
    LET causes == IF Delivery THEN {c, PrimaryCause} ELSE {c}
    IN /\ up
       /\ RecordConvergence([k \in Causes |-> IF k \in causes
                                              THEN Progressed(session.states[k])
                                              ELSE session.states[k]])
       /\ spent' = [k \in Causes |-> IF k \in causes THEN 0 ELSE spent[k]]
       /\ UNCHANGED <<up, disposition, ledger, foreign, crashes, terminated,
                      taskOver>>

(* The accounting tail of _record_tool_result for an action in the SUPPORT
   lane; other lanes change no count that the retry gate reads. *)
RecordCommittedAction ==
    /\ up
    /\ Delivery
    /\ session.states[PrimaryCause].support < MaxCount
    /\ RecordConvergence([session.states EXCEPT ![PrimaryCause].known = TRUE,
                                                ![PrimaryCause].support = @ + 1])
    /\ UNCHANGED <<up, disposition, ledger, foreign, crashes, history>>

(* request_termination with the retry states it starts from. *)
TerminateFrom(states, d) ==
    /\ disposition' = d
    /\ RecordConvergence(Terminated(states, d))
    /\ terminated' = terminated \cup KnownCauses(states)
    /\ taskOver' = TRUE

RequestTermination(d) ==
    /\ up
    /\ disposition # "SUCCEEDED"
    /\ TerminateFrom(session.states, d)
    /\ UNCHANGED <<up, ledger, foreign, crashes, spent>>

(* _record_recovery_epoch, which terminates the task at the limit. *)
WithEpoch(c) ==
    [session.states EXCEPT ![c].known = TRUE, ![c].epochs = @ + 1]

RecordRecoveryEpoch(c) ==
    /\ up
    /\ session.states[c].epochs < MaxCount
    /\ spent' = [spent EXCEPT ![c] = @ + 1]
    /\ \/ /\ WithEpoch(c)[c].epochs < RecoveryLimit
          /\ RecordConvergence(WithEpoch(c))
          /\ UNCHANGED <<disposition, terminated, taskOver>>
       \/ /\ WithEpoch(c)[c].epochs >= RecoveryLimit
          /\ TerminateFrom(WithEpoch(c), "BLOCKED")
    /\ UNCHANGED <<up, ledger, foreign, crashes>>

(* The process dies between the epoch's row and the termination's. *)
RecordRecoveryEpochInterrupted(c) ==
    /\ up
    /\ session.states[c].epochs < MaxCount
    /\ WithEpoch(c)[c].epochs >= RecoveryLimit
    /\ spent' = [spent EXCEPT ![c] = @ + 1]
    /\ journal' = ReplayConvergence(journal, WithEpoch(c))
    /\ Die
    /\ UNCHANGED <<ledger, foreign, terminated, taskOver>>
-----------------------------------------------------------------------------
(* SharedBranchLedger.recovery_count reaching the limit. *)
BranchExhausted(d) ==
    Shared /\ Cardinality(ledger[BranchOf(d)]) + foreign[BranchOf(d)]
                  >= RecoveryLimit

(* Faults: the gate forgets the epoch budget, or the cause's disposition. *)
UnboundedEvaluate(r, approach) ==
    IF r.disposition \in Terminal THEN "block"
    ELSE IF r.support >= SupportLimit THEN "goal_reanchor"
    ELSE IF r.approach = approach \/ r.same >= SameApproachLimit
         THEN "changed_hypothesis"
    ELSE "allow"
RevivingEvaluate(r, approach) ==
    IF r.support >= SupportLimit THEN "goal_reanchor"
    ELSE IF r.epochs >= RecoveryLimit THEN "block"
    ELSE IF r.approach = approach \/ r.same >= SameApproachLimit
         THEN "changed_hypothesis"
    ELSE "allow"

(* RetryBoundaryEnforcer.evaluate on the state of the attempt's cause. *)
Evaluate(r, approach) ==
    IF r.disposition \in Terminal THEN "block"
    ELSE IF r.support >= SupportLimit THEN "goal_reanchor"
    ELSE IF r.epochs >= RecoveryLimit THEN "block"
    ELSE IF r.approach = approach /\ ~r.reinspected /\ r.same < SameApproachLimit
         THEN "reinspection"
    ELSE IF r.approach = approach \/ r.same >= SameApproachLimit
         THEN "changed_hypothesis"
    ELSE "allow"

(* before_retry's answer for an attempt. *)
Verdict(a) ==
    LET d == session.descriptors[a]
    IN IF disposition \in Terminal THEN "block"
       ELSE IF d = NoDescriptor THEN "reinspection"
       ELSE IF BranchExhausted(d) THEN "block"
       ELSE Evaluate(session.states[d.cause], ApproachOf(d))

(* The retry states once before_retry has looked a cause up, which creates its
   entry, and once the cause is blocked. *)
Asked(c) == [session.states EXCEPT ![c].known = TRUE]
Blocked(c) == [session.states EXCEPT ![c].known = TRUE,
                                     ![c].disposition = "BLOCKED"]

(* before_retry: a block for an exhausted budget or a blocked cause terminates
   the task; other answers change nothing but the cause's entry. *)
BeforeRetry(a) ==
    LET d == session.descriptors[a]
        ends == \/ BranchExhausted(d)
                \/ session.states[d.cause].disposition \in {"RUNNING", "BLOCKED"}
    IN /\ up
       /\ d # NoDescriptor
       /\ disposition \notin Terminal
       /\ \/ /\ Verdict(a) = "block" /\ ends
             /\ TerminateFrom(Blocked(d.cause), "BLOCKED")
          \/ /\ Verdict(a) # "block" \/ ~ends
             /\ session' = [session EXCEPT !.states = Asked(d.cause)]
             /\ UNCHANGED <<disposition, journal, terminated, taskOver>>
       /\ UNCHANGED <<up, ledger, foreign, crashes, spent>>

(* The process dies after _shared_branch_exhausted recorded the cause as
   blocked and before the task is terminated. *)
BeforeRetryInterrupted(a) ==
    LET d == session.descriptors[a]
    IN /\ up
       /\ d # NoDescriptor
       /\ disposition \notin Terminal
       /\ BranchExhausted(d)
       /\ journal' = ReplayConvergence(journal, Blocked(d.cause))
       /\ terminated' = terminated \cup {d.cause}
       /\ Die
       /\ UNCHANGED <<ledger, foreign, spent, taskOver>>

(* Another agent of the workflow reports a failure of the same branch. *)
ForeignFailure(b) ==
    /\ Shared
    /\ foreign[b] < MaxForeign
    /\ foreign' = [foreign EXCEPT ![b] = @ + 1]
    /\ UNCHANGED <<up, session, disposition, journal, ledger, crashes, history>>

Crash ==
    /\ up
    /\ Die
    /\ UNCHANGED <<journal, ledger, foreign, history>>

(* resume_task: neither the disposition nor its permit is replayed. *)
Resume ==
    /\ ~up
    /\ up' = TRUE
    /\ session' = journal
    /\ UNCHANGED <<disposition, journal, ledger, foreign, crashes, history>>

Next ==
    \/ \E a \in Attempts :
          \/ \E d \in Descriptor : BeginAttempt(a, d)
          \/ RecordAttemptFailure(a)
          \/ RecordAttemptFailureInterrupted(a)
          \/ BeforeRetry(a)
          \/ BeforeRetryInterrupted(a)
    \/ \E c \in Causes :
          \/ RecordReinspection(c)
          \/ RecordGoalProgress(c)
          \/ RecordRecoveryEpoch(c)
          \/ RecordRecoveryEpochInterrupted(c)
    \/ RecordCommittedAction
    \/ \E d \in Terminal : RequestTermination(d)
    \/ \E b \in Branches : ForeignFailure(b)
    \/ Crash
    \/ Resume

Spec == Init /\ [][Next]_vars
-----------------------------------------------------------------------------
Allowed(a) == up /\ Verdict(a) = "allow"

(* No retry is allowed for a cause that has used up its recovery epochs since
   the last goal progress, although the count is kept in memory, is rebuilt
   from the last convergence row after a crash, and the process may die between
   the epoch that exhausts it and the termination that follows
   (_record_recovery_epoch, _record_convergence, RetryBoundaryEnforcer). *)
RecoveryBudgetHolds ==
    \A a \in Attempts :
        Allowed(a) => spent[session.descriptors[a].cause] < RecoveryLimit

(* A cause whose termination was committed is never retried again: not after
   later goal progress, a crash, or a resume that forgot that the task itself
   was terminated (terminate, terminate_cause, _shared_branch_exhausted). *)
TerminatedCauseStaysBlocked ==
    \A a \in Attempts :
        Allowed(a) => session.descriptors[a].cause \notin terminated

(* A failure the session will not report again, because it is recorded as
   reported in memory or in the journal, is in the ledger the other agents
   consult (_record_attempt_failure, SharedBranchLedger.record_failure). *)
FailureReachesSharedLedger ==
    Shared =>
        /\ \A a \in session.failures :
              a \in ledger[BranchOf(session.descriptors[a])]
        /\ \A a \in journal.failures :
              a \in ledger[BranchOf(journal.descriptors[a])]

(* The inductive invariant behind the first two: memory and journal hold the
   epochs that were committed and the terminations that were committed. *)
CountsAgree(view) ==
    \A c \in Causes : /\ view.states[c].epochs = spent[c]
                      /\ c \in terminated =>
                            view.states[c].disposition \in Terminal
BudgetInv ==
    /\ TypeOK
    /\ CountsAgree(journal)
    /\ up => CountsAgree(session)

(* Said by before_retry: "A terminated task must not be revived by a retry
   request." *)
TerminatedTaskNotRevived == \A a \in Attempts : Allowed(a) => ~taskOver
=============================================================================
