------------------------- MODULE RetryConvergence_proofs -------------------------
(***************************************************************************)
(* The recovery budget and the termination of causes survive crashes, for  *)
(* every set of causes, attempts and plans and for every limit.            *)
(***************************************************************************)
EXTENDS RetryConvergence, TLAPS

States == [Causes -> RetryState]

(* The empty view is a view. *)
LEMMA BlankTypes == Fresh \in RetryState /\ Blank \in View
<1>1. Fresh \in RetryState
  BY DEF Fresh, RetryState, Dispositions
<1>2. QED
  BY <1>1 DEF Blank, View

(* What each accounting step does to one retry state. *)
LEMMA RetryStateSteps ==
    ASSUME NEW r \in RetryState, NEW approach \in Approach
    PROVE  /\ Failed(r, approach) \in RetryState
           /\ Failed(r, approach).epochs = r.epochs
           /\ Failed(r, approach).disposition = r.disposition
<1>1. r.same + 1 \in Nat /\ 1 \in Nat
  BY DEF RetryState
<1> DEFINE n == IF r.approach = approach THEN r.same + 1 ELSE 1
<1>2. n \in Nat
  BY <1>1
<1>3. Failed(r, approach) = [r EXCEPT !.known = TRUE, !.approach = approach,
                                      !.same = n]
  BY DEF Failed
<1> HIDE DEF n
<1>4. QED
  BY <1>2, <1>3 DEF RetryState

(* Committing retry states puts them in memory and in the journal. *)
LEMMA RecordConvergenceTypes ==
    ASSUME session \in View, journal \in View, NEW states \in States,
           RecordConvergence(states)
    PROVE  /\ session' \in View /\ journal' \in View
           /\ session'.states = states /\ journal'.states = states
           /\ session'.failures = session.failures
           /\ journal'.failures = journal.failures
           /\ session'.descriptors = session.descriptors
           /\ journal'.descriptors = journal.descriptors
BY DEF RecordConvergence, ReplayConvergence, View, States

(* Replaying a row keeps a view a view. *)
LEMMA ReplayTypes ==
    ASSUME NEW v \in View, NEW a \in Attempts, NEW d \in Descriptor,
           NEW states \in States
    PROVE  /\ ReplayConvergence(v, states) \in View
           /\ ReplayConvergence(v, states).states = states
           /\ ReplayDescriptor(v, a, d) \in View
           /\ ReplayDescriptor(v, a, d).states = v.states
           /\ ReplayFailure(v, a) \in View
           /\ ReplayFailure(v, a).states = v.states
BY DEF ReplayConvergence, ReplayDescriptor, ReplayFailure, View, States

(* Terminating the known causes and committing that. *)
LEMMA TerminateFromKeeps ==
    ASSUME session \in View, journal \in View, terminated \in SUBSET Causes,
           NEW states \in States, NEW d \in Terminal,
           \A c \in Causes : states[c].epochs = spent'[c],
           \A c \in terminated : states[c].disposition \in Terminal,
           TerminateFrom(states, d)
    PROVE  /\ session' \in View /\ journal' \in View
           /\ disposition' \in Dispositions /\ taskOver' \in BOOLEAN
           /\ terminated' \in SUBSET Causes
           /\ CountsAgree(session)' /\ CountsAgree(journal)'
<1> DEFINE after == Terminated(states, d)
<1>1. ASSUME NEW c \in Causes
      PROVE  /\ after[c] \in RetryState
             /\ after[c].epochs = states[c].epochs
             /\ after[c].disposition =
                   IF states[c].known THEN d ELSE states[c].disposition
  <2>1. states[c] \in RetryState
    BY DEF States
  <2>2. after[c] = IF states[c].known
                   THEN [states[c] EXCEPT !.disposition = d] ELSE states[c]
    BY DEF Terminated
  <2> HIDE DEF after
  <2>3. QED
    BY <2>1, <2>2 DEF RetryState, Dispositions
<1>2. after \in States
  BY <1>1 DEF Terminated, States
<1>3. /\ disposition' = d /\ taskOver' = TRUE
      /\ terminated' = terminated \cup KnownCauses(states)
      /\ RecordConvergence(after)
  BY DEF TerminateFrom
<1> HIDE DEF after
<1>4. /\ session' \in View /\ journal' \in View
      /\ session'.states = after /\ journal'.states = after
  BY <1>2, <1>3, RecordConvergenceTypes
<1>5. \A c \in Causes : /\ after[c].epochs = spent'[c]
                        /\ c \in terminated' => after[c].disposition \in Terminal
  BY <1>1, <1>3 DEF KnownCauses
<1>6. QED
  BY <1>3, <1>4, <1>5 DEF CountsAgree, Dispositions, KnownCauses

(* A crash keeps what the journal agrees on. *)
LEMMA DieKeeps ==
    ASSUME BudgetInv, Die, journal' \in View, CountsAgree(journal)',
           ledger' \in [Branches -> SUBSET Attempts],
           foreign' \in [Branches -> Nat], spent' \in [Causes -> Nat],
           terminated' \in SUBSET Causes, taskOver' \in BOOLEAN
    PROVE  BudgetInv'
<1>1. /\ crashes' = crashes + 1 /\ up' = FALSE /\ session' = Blank
      /\ disposition' = "RUNNING"
  BY DEF Die
<1>2. crashes' \in Nat /\ disposition' \in Dispositions
  BY <1>1 DEF BudgetInv, TypeOK, Dispositions
<1>3. TypeOK'
  BY <1>1, <1>2, BlankTypes DEF TypeOK
<1>4. QED
  BY <1>1, <1>3 DEF BudgetInv

(* The shared ledger stays a ledger when a failure is reported. *)
LEMMA LedgerTypes ==
    ASSUME BudgetInv, NEW a \in Attempts, FailureDue(a)
    PROVE  /\ session.descriptors[a] \in Descriptor
           /\ LedgerWith(a) \in [Branches -> SUBSET Attempts]
<1>1. session.descriptors[a] \in Descriptor
  BY DEF BudgetInv, TypeOK, View, FailureDue
<1>2. BranchOf(session.descriptors[a]) \in Branches
  BY <1>1 DEF BranchOf, Branches, Descriptor
<1>3. QED
  BY <1>1, <1>2 DEF LedgerWith, BudgetInv, TypeOK

(* One step keeps the budget's invariant. *)
LEMMA BudgetStep ==
    ASSUME BudgetInv, [Next]_vars
    PROVE  BudgetInv'
<1>0. /\ session \in View /\ journal \in View
      /\ session.states \in States /\ journal.states \in States
      /\ terminated \in SUBSET Causes /\ spent \in [Causes -> Nat]
      /\ PrimaryCause \in Causes
  BY RetryAssumption DEF BudgetInv, TypeOK, View, States
<1>u. ASSUME up
      PROVE  \A c \in Causes :
                /\ session.states[c] \in RetryState
                /\ session.states[c].epochs = spent[c]
                /\ c \in terminated => session.states[c].disposition \in Terminal
  BY <1>0, <1>u DEF BudgetInv, CountsAgree, States
<1>1. ASSUME NEW a \in Attempts, NEW d \in Descriptor, BeginAttempt(a, d)
      PROVE  BudgetInv'
  <2>1. session' \in View /\ session'.states = session.states
    BY <1>0, <1>1 DEF BeginAttempt, View
  <2>2. journal' \in View /\ journal'.states = journal.states
    BY <1>0, <1>1, ReplayTypes DEF BeginAttempt
  <2>3. QED
    BY <1>1, <2>1, <2>2
       DEF BeginAttempt, history, BudgetInv, TypeOK, CountsAgree
<1>2. ASSUME NEW a \in Attempts, RecordAttemptFailure(a)
      PROVE  BudgetInv'
  <2> DEFINE d == session.descriptors[a]
             states == [session.states EXCEPT ![d.cause] = Failed(@, ApproachOf(d))]
  <2>1. /\ d \in Descriptor /\ LedgerWith(a) \in [Branches -> SUBSET Attempts]
        /\ up
    BY <1>2, LedgerTypes DEF RecordAttemptFailure, FailureDue
  <2>2. d.cause \in Causes /\ ApproachOf(d) \in Approach
    BY <2>1 DEF Descriptor, ApproachOf, Approach
  <2>3. /\ Failed(session.states[d.cause], ApproachOf(d)) \in RetryState
        /\ Failed(session.states[d.cause], ApproachOf(d)).epochs =
              session.states[d.cause].epochs
        /\ Failed(session.states[d.cause], ApproachOf(d)).disposition =
              session.states[d.cause].disposition
    <3>1. session.states[d.cause] \in RetryState
      BY <1>0, <2>2 DEF States
    <3> HIDE DEF d
    <3>2. QED
      BY <2>2, <3>1, RetryStateSteps
  <2>4. /\ session' = [session EXCEPT !.states = states, !.failures = @ \cup {a}]
        /\ journal' = ReplayConvergence(ReplayFailure(journal, a), states)
        /\ ledger' = LedgerWith(a)
        /\ UNCHANGED <<up, disposition, foreign, crashes, history>>
    BY <1>2 DEF RecordAttemptFailure
  <2>5. /\ states \in States
        /\ \A c \in Causes : /\ states[c].epochs = session.states[c].epochs
                             /\ states[c].disposition = session.states[c].disposition
    <3> HIDE DEF d
    <3>1. QED
      BY <1>0, <2>2, <2>3 DEF States
  <2> HIDE DEF states, d
  <2>6. session' \in View /\ session'.states = states
    BY <1>0, <2>4, <2>5 DEF View, States
  <2>7. journal' \in View /\ journal'.states = states
    BY <1>0, <2>4, <2>5 DEF ReplayConvergence, ReplayFailure, View, States
  <2>8. QED
    BY <1>u, <2>1, <2>4, <2>5, <2>6, <2>7
       DEF history, BudgetInv, TypeOK, CountsAgree
<1>3. ASSUME NEW a \in Attempts, RecordAttemptFailureInterrupted(a)
      PROVE  BudgetInv'
  <2>1. ledger' \in [Branches -> SUBSET Attempts]
    BY <1>3, LedgerTypes DEF RecordAttemptFailureInterrupted
  <2>2. journal' \in View /\ journal'.states = journal.states
    BY <1>0, <1>3 DEF RecordAttemptFailureInterrupted, ReplayFailure, View
  <2>3. /\ Die /\ foreign' = foreign /\ spent' = spent
        /\ terminated' = terminated /\ taskOver' = taskOver
    BY <1>3 DEF RecordAttemptFailureInterrupted, history
  <2>4. CountsAgree(journal)'
    BY <2>2, <2>3 DEF BudgetInv, CountsAgree
  <2>5. QED
    BY <2>1, <2>2, <2>3, <2>4, DieKeeps DEF BudgetInv, TypeOK
<1>4. ASSUME NEW states \in States, RecordConvergence(states), up,
             spent' \in [Causes -> Nat],
             \A c \in Causes :
                /\ states[c].epochs = spent'[c]
                /\ c \in terminated => states[c].disposition \in Terminal,
             UNCHANGED <<up, disposition, ledger, foreign, crashes, terminated,
                         taskOver>>
      PROVE  BudgetInv'
  <2>1. /\ session' \in View /\ journal' \in View
        /\ session'.states = states /\ journal'.states = states
    BY <1>0, <1>4, RecordConvergenceTypes
  <2>2. QED
    BY <1>4, <2>1 DEF BudgetInv, TypeOK, CountsAgree
<1>5. ASSUME NEW c \in Causes, RecordReinspection(c)
      PROVE  BudgetInv'
  <2> DEFINE states == [session.states EXCEPT ![c].known = TRUE,
                                              ![c].reinspected = TRUE]
  <2>1. /\ up /\ RecordConvergence(states)
        /\ UNCHANGED <<up, disposition, ledger, foreign, crashes, spent,
                       terminated, taskOver>>
    BY <1>5 DEF RecordReinspection, history
  <2>2. \A k \in Causes :
           /\ states[k] \in RetryState
           /\ states[k].epochs = session.states[k].epochs
           /\ states[k].disposition = session.states[k].disposition
    BY <1>0, <1>u, <2>1 DEF States, RetryState
  <2>3. states \in States
    BY <1>0, <2>2 DEF States
  <2> HIDE DEF states
  <2>4. QED
    BY <1>0, <1>4, <1>u, <2>1, <2>2, <2>3
<1>6. ASSUME NEW c \in Causes, RecordGoalProgress(c)
      PROVE  BudgetInv'
  <2> DEFINE causes == IF Delivery THEN {c, PrimaryCause} ELSE {c}
             states == [k \in Causes |-> IF k \in causes
                                         THEN Progressed(session.states[k])
                                         ELSE session.states[k]]
  <2>1. /\ up /\ RecordConvergence(states)
        /\ spent' = [k \in Causes |-> IF k \in causes THEN 0 ELSE spent[k]]
        /\ UNCHANGED <<up, disposition, ledger, foreign, crashes, terminated,
                       taskOver>>
    BY <1>6 DEF RecordGoalProgress
  <2> HIDE DEF causes
  <2>2. ASSUME NEW k \in Causes
        PROVE  /\ Progressed(session.states[k]) \in RetryState
               /\ Progressed(session.states[k]).epochs = 0
               /\ Progressed(session.states[k]).disposition =
                     session.states[k].disposition
    BY <1>u, <2>1, <2>2 DEF Progressed, RetryState
  <2>3. \A k \in Causes :
           /\ states[k] \in RetryState
           /\ states[k].epochs = spent'[k]
           /\ states[k].disposition = session.states[k].disposition
    BY <1>u, <2>1, <2>2
  <2>4. states \in States
    BY <2>3 DEF States
  <2>5. spent' \in [Causes -> Nat]
    BY <1>0, <2>1
  <2> HIDE DEF states
  <2>6. QED
    BY <1>4, <1>u, <2>1, <2>3, <2>4, <2>5
<1>7. CASE RecordCommittedAction
  <2> DEFINE states == [session.states EXCEPT ![PrimaryCause].known = TRUE,
                                              ![PrimaryCause].support = @ + 1]
  <2>1. /\ up /\ RecordConvergence(states)
        /\ UNCHANGED <<up, disposition, ledger, foreign, crashes, spent,
                       terminated, taskOver>>
    BY <1>7 DEF RecordCommittedAction, history
  <2>2. \A k \in Causes :
           /\ states[k] \in RetryState
           /\ states[k].epochs = session.states[k].epochs
           /\ states[k].disposition = session.states[k].disposition
    BY <1>0, <1>u, <2>1 DEF States, RetryState
  <2>3. states \in States
    BY <1>0, <2>2 DEF States
  <2> HIDE DEF states
  <2>4. QED
    BY <1>0, <1>4, <1>u, <2>1, <2>2, <2>3
<1>8. ASSUME NEW d \in Terminal, RequestTermination(d)
      PROVE  BudgetInv'
  <2>1. /\ up /\ TerminateFrom(session.states, d)
        /\ UNCHANGED <<up, ledger, foreign, crashes, spent>>
    BY <1>8 DEF RequestTermination
  <2>2. /\ session' \in View /\ journal' \in View
        /\ disposition' \in Dispositions /\ taskOver' \in BOOLEAN
        /\ terminated' \in SUBSET Causes
        /\ CountsAgree(session)' /\ CountsAgree(journal)'
    BY <1>0, <1>u, <2>1, TerminateFromKeeps
  <2>3. QED
    BY <2>1, <2>2 DEF BudgetInv, TypeOK
<1>9. ASSUME NEW c \in Causes, up
      PROVE  /\ WithEpoch(c) \in States
             /\ \A k \in Causes :
                   /\ WithEpoch(c)[k].epochs = [spent EXCEPT ![c] = @ + 1][k]
                   /\ WithEpoch(c)[k].disposition = session.states[k].disposition
             /\ [spent EXCEPT ![c] = @ + 1] \in [Causes -> Nat]
  <2>1. \A k \in Causes :
           /\ WithEpoch(c)[k] \in RetryState
           /\ WithEpoch(c)[k].epochs = [spent EXCEPT ![c] = @ + 1][k]
           /\ WithEpoch(c)[k].disposition = session.states[k].disposition
    <3>1. ASSUME NEW k \in Causes
          PROVE  WithEpoch(c)[k] =
                    IF k = c
                    THEN [session.states[c] EXCEPT !.known = TRUE,
                                                   !.epochs = @ + 1]
                    ELSE session.states[k]
      BY <1>0, <1>9 DEF WithEpoch, States
    <3>2. session.states[c] \in RetryState /\ session.states[c].epochs + 1 \in Nat
      BY <1>u, <1>9 DEF RetryState
    <3>3. /\ WithEpoch(c)[c] \in RetryState
          /\ WithEpoch(c)[c].epochs = spent[c] + 1
          /\ WithEpoch(c)[c].disposition = session.states[c].disposition
      BY <1>u, <1>9, <3>1, <3>2 DEF RetryState
    <3>4. QED
      BY <1>0, <1>u, <1>9, <3>1, <3>3
  <2>2. WithEpoch(c) \in States
    BY <1>0, <2>1 DEF WithEpoch, States
  <2>3. QED
    BY <1>0, <2>1, <2>2
<1>10. ASSUME NEW c \in Causes, RecordRecoveryEpoch(c)
       PROVE  BudgetInv'
  <2>1. /\ up /\ spent' = [spent EXCEPT ![c] = @ + 1]
        /\ UNCHANGED <<up, ledger, foreign, crashes>>
    BY <1>10 DEF RecordRecoveryEpoch
  <2>2. /\ WithEpoch(c) \in States /\ spent' \in [Causes -> Nat]
        /\ \A k \in Causes :
              /\ WithEpoch(c)[k].epochs = spent'[k]
              /\ k \in terminated => WithEpoch(c)[k].disposition \in Terminal
    BY <1>9, <1>u, <2>1
  <2>3. CASE /\ RecordConvergence(WithEpoch(c))
             /\ UNCHANGED <<disposition, terminated, taskOver>>
    BY <1>4, <2>1, <2>2, <2>3
  <2>4. CASE TerminateFrom(WithEpoch(c), "BLOCKED")
    <3>1. /\ session' \in View /\ journal' \in View
          /\ disposition' \in Dispositions /\ taskOver' \in BOOLEAN
          /\ terminated' \in SUBSET Causes
          /\ CountsAgree(session)' /\ CountsAgree(journal)'
      BY <1>0, <2>2, <2>4, TerminateFromKeeps DEF Terminal
    <3>2. QED
      BY <2>1, <2>2, <3>1 DEF BudgetInv, TypeOK
  <2>5. QED
    BY <1>10, <2>3, <2>4 DEF RecordRecoveryEpoch
<1>11. ASSUME NEW c \in Causes, RecordRecoveryEpochInterrupted(c)
       PROVE  BudgetInv'
  <2>1. /\ up /\ spent' = [spent EXCEPT ![c] = @ + 1] /\ Die
        /\ journal' = ReplayConvergence(journal, WithEpoch(c))
        /\ UNCHANGED <<ledger, foreign, terminated, taskOver>>
    BY <1>11 DEF RecordRecoveryEpochInterrupted
  <2>2. /\ WithEpoch(c) \in States /\ spent' \in [Causes -> Nat]
        /\ \A k \in Causes :
              /\ WithEpoch(c)[k].epochs = spent'[k]
              /\ k \in terminated => WithEpoch(c)[k].disposition \in Terminal
    BY <1>9, <1>u, <2>1
  <2>3. journal' \in View /\ journal'.states = WithEpoch(c)
    BY <1>0, <2>1, <2>2 DEF ReplayConvergence, View, States
  <2>4. CountsAgree(journal)'
    BY <2>1, <2>2, <2>3 DEF CountsAgree
  <2>5. QED
    BY <2>1, <2>2, <2>3, <2>4, DieKeeps DEF BudgetInv, TypeOK
<1>12. ASSUME NEW c \in Causes, up
       PROVE  /\ Asked(c) \in States /\ Blocked(c) \in States
              /\ \A k \in Causes :
                    /\ Asked(c)[k].epochs = spent[k]
                    /\ Asked(c)[k].disposition = session.states[k].disposition
                    /\ Blocked(c)[k].epochs = spent[k]
                    /\ Blocked(c)[k].disposition =
                          IF k = c THEN "BLOCKED" ELSE session.states[k].disposition
  <2>1. ASSUME NEW k \in Causes
        PROVE  /\ Asked(c)[k] \in RetryState
               /\ Asked(c)[k].epochs = spent[k]
               /\ Asked(c)[k].disposition = session.states[k].disposition
    BY <1>0, <1>u, <1>12, <2>1 DEF Asked, States, RetryState
  <2>2. ASSUME NEW k \in Causes
        PROVE  /\ Blocked(c)[k] \in RetryState
               /\ Blocked(c)[k].epochs = spent[k]
               /\ Blocked(c)[k].disposition =
                     IF k = c THEN "BLOCKED" ELSE session.states[k].disposition
    BY <1>0, <1>u, <1>12, <2>2
       DEF Blocked, States, RetryState, Dispositions, Terminal
  <2>3. Asked(c) \in States
    BY <1>0, <2>1 DEF Asked, States
  <2>4. Blocked(c) \in States
    BY <1>0, <2>2 DEF Blocked, States
  <2>5. QED
    BY <2>1, <2>2, <2>3, <2>4
<1>d. ASSUME NEW a \in Attempts, session.descriptors[a] # NoDescriptor
      PROVE  session.descriptors[a].cause \in Causes
  BY <1>0, <1>d DEF View, Descriptor
<1>13. ASSUME NEW a \in Attempts, BeforeRetry(a)
       PROVE  BudgetInv'
  <2> DEFINE c == session.descriptors[a].cause
  <2>1. /\ up /\ session.descriptors[a] # NoDescriptor
        /\ UNCHANGED <<up, ledger, foreign, crashes, spent>>
        /\ \/ TerminateFrom(Blocked(c), "BLOCKED")
           \/ /\ session' = [session EXCEPT !.states = Asked(c)]
              /\ UNCHANGED <<disposition, journal, terminated, taskOver>>
    BY <1>13 DEF BeforeRetry
  <2>2. c \in Causes
    BY <1>d, <2>1
  <2> HIDE DEF c
  <2>3. /\ Asked(c) \in States /\ Blocked(c) \in States
        /\ \A k \in Causes :
              /\ Asked(c)[k].epochs = spent[k] /\ Blocked(c)[k].epochs = spent[k]
              /\ k \in terminated => /\ Asked(c)[k].disposition \in Terminal
                                     /\ Blocked(c)[k].disposition \in Terminal
    BY <1>12, <1>u, <2>1, <2>2 DEF Terminal
  <2>4. CASE TerminateFrom(Blocked(c), "BLOCKED")
    <3>1. /\ session' \in View /\ journal' \in View
          /\ disposition' \in Dispositions /\ taskOver' \in BOOLEAN
          /\ terminated' \in SUBSET Causes
          /\ CountsAgree(session)' /\ CountsAgree(journal)'
      BY <1>0, <2>1, <2>3, <2>4, TerminateFromKeeps DEF Terminal
    <3>2. QED
      BY <2>1, <3>1 DEF BudgetInv, TypeOK
  <2>5. CASE /\ session' = [session EXCEPT !.states = Asked(c)]
             /\ UNCHANGED <<disposition, journal, terminated, taskOver>>
    <3>1. session' \in View /\ session'.states = Asked(c)
      BY <1>0, <2>3, <2>5 DEF View, States
    <3>2. QED
      BY <2>1, <2>3, <2>5, <3>1 DEF BudgetInv, TypeOK, CountsAgree
  <2>6. QED
    BY <2>1, <2>4, <2>5
<1>14. ASSUME NEW a \in Attempts, BeforeRetryInterrupted(a)
       PROVE  BudgetInv'
  <2> DEFINE c == session.descriptors[a].cause
  <2>1. /\ up /\ session.descriptors[a] # NoDescriptor /\ Die
        /\ journal' = ReplayConvergence(journal, Blocked(c))
        /\ terminated' = terminated \cup {c}
        /\ UNCHANGED <<ledger, foreign, spent, taskOver>>
    BY <1>14 DEF BeforeRetryInterrupted
  <2>2. c \in Causes
    BY <1>d, <2>1
  <2> HIDE DEF c
  <2>3. /\ Blocked(c) \in States
        /\ \A k \in Causes :
              /\ Blocked(c)[k].epochs = spent[k]
              /\ k \in terminated \/ k = c => Blocked(c)[k].disposition \in Terminal
    BY <1>12, <1>u, <2>1, <2>2 DEF Terminal
  <2>4. journal' \in View /\ journal'.states = Blocked(c)
    BY <1>0, <2>1, <2>3 DEF ReplayConvergence, View, States
  <2>5. CountsAgree(journal)'
    BY <2>1, <2>3, <2>4 DEF CountsAgree
  <2>6. QED
    BY <1>0, <2>1, <2>2, <2>4, <2>5, DieKeeps DEF BudgetInv, TypeOK
<1>15. ASSUME NEW b \in Branches, ForeignFailure(b)
       PROVE  BudgetInv'
  BY <1>15 DEF ForeignFailure, history, BudgetInv, TypeOK, CountsAgree
<1>16. CASE Crash
  BY <1>16, DieKeeps DEF Crash, history, BudgetInv, TypeOK, CountsAgree
<1>17. CASE Resume
  BY <1>17 DEF Resume, history, BudgetInv, TypeOK, CountsAgree
<1>18. CASE UNCHANGED vars
  BY <1>18 DEF vars, BudgetInv, TypeOK, CountsAgree
<1>19. QED
  BY <1>1, <1>2, <1>3, <1>5, <1>6, <1>7, <1>8, <1>10, <1>11, <1>13, <1>14,
     <1>15, <1>16, <1>17, <1>18 DEF Next

(* Memory and journal agree with the committed epochs and terminations in every
   behaviour. *)
THEOREM BudgetInvariant == Spec => []BudgetInv
<1>1. Init => BudgetInv
  <2> SUFFICES ASSUME Init PROVE BudgetInv
    OBVIOUS
  <2>1. TypeOK
    BY BlankTypes DEF Init, TypeOK, Dispositions
  <2>2. CountsAgree(Blank)
    BY DEF Init, CountsAgree, Blank, Fresh
  <2>3. QED
    BY <2>1, <2>2 DEF Init, BudgetInv
<1>2. QED
  BY <1>1, BudgetStep, PTL DEF Spec

(* What an allowed retry tells about the cause of its attempt. *)
LEMMA AllowedCause ==
    ASSUME BudgetInv, NEW a \in Attempts, Allowed(a)
    PROVE  LET c == session.descriptors[a].cause
           IN c \in Causes /\ c \notin terminated /\ spent[c] < RecoveryLimit
<1> DEFINE c == session.descriptors[a].cause
<1>1. /\ up /\ session.descriptors[a] # NoDescriptor
      /\ Evaluate(session.states[c], ApproachOf(session.descriptors[a])) = "allow"
  BY DEF Allowed, Verdict
<1>2. c \in Causes
  BY <1>1 DEF BudgetInv, TypeOK, View, Descriptor
<1>3. /\ session.states[c].disposition \notin Terminal
      /\ ~(session.states[c].epochs >= RecoveryLimit)
  BY <1>1 DEF Evaluate
<1>4. session.states[c].epochs = spent[c] /\ spent[c] \in Nat
  BY <1>1, <1>2 DEF BudgetInv, TypeOK, CountsAgree
<1>5. c \notin terminated
  BY <1>1, <1>2, <1>3 DEF BudgetInv, CountsAgree
<1>6. QED
  BY <1>2, <1>3, <1>4, <1>5, RetryAssumption

(* The retry gate never allows a cause that has spent its recovery epochs. *)
THEOREM RecoveryBudgetAlwaysHolds == Spec => []RecoveryBudgetHolds
<1>1. BudgetInv => RecoveryBudgetHolds
  BY AllowedCause DEF RecoveryBudgetHolds
<1>2. QED
  BY <1>1, BudgetInvariant, PTL

(* The retry gate never allows a cause whose termination was committed. *)
THEOREM TerminatedCauseAlwaysBlocked == Spec => []TerminatedCauseStaysBlocked
<1>1. BudgetInv => TerminatedCauseStaysBlocked
  BY AllowedCause DEF TerminatedCauseStaysBlocked
<1>2. QED
  BY <1>1, BudgetInvariant, PTL
-----------------------------------------------------------------------------
(* What memory and journal know of attempts and their failures is the same, a
   failure is of an attempt that was begun, and the shared ledger was told
   before the journal was. *)
LedgerInv ==
    /\ up => /\ session.descriptors = journal.descriptors
             /\ session.failures = journal.failures
    /\ ~up => session = Blank
    /\ \A a \in journal.failures : journal.descriptors[a] # NoDescriptor
    /\ Shared => \A a \in journal.failures : a \in ledger[BranchOf(journal.descriptors[a])]

(* Steps that touch neither attempts nor failures, and crashes. *)
LEMMA LedgerQuiet ==
    ASSUME LedgerInv, ledger' = ledger,
           journal'.descriptors = journal.descriptors, journal'.failures = journal.failures,
           \/ /\ up' = up /\ up
              /\ session'.descriptors = session.descriptors
              /\ session'.failures = session.failures
           \/ Die
           \/ up' = up /\ session' = session
           \/ ~up /\ up' /\ session' = journal'
    PROVE  LedgerInv'
BY DEF LedgerInv, Die

(* Committing retry states leaves attempts and failures alone. *)
LEMMA RecordConvergenceQuiet ==
    ASSUME session \in View, journal \in View, NEW states, RecordConvergence(states)
    PROVE  /\ session'.failures = session.failures
           /\ journal'.failures = journal.failures
           /\ session'.descriptors = session.descriptors
           /\ journal'.descriptors = journal.descriptors
BY DEF RecordConvergence, ReplayConvergence, View

(* Reporting a failure: the ledger has it before the journal or memory does. *)
LEMMA LedgerFailure ==
    ASSUME BudgetInv, LedgerInv, NEW a \in Attempts, FailureDue(a), ledger' = LedgerWith(a),
           journal'.descriptors = journal.descriptors,
           journal'.failures \in {journal.failures, journal.failures \cup {a}},
           \/ Die
           \/ /\ up' = up
              /\ session'.descriptors = session.descriptors
              /\ session'.failures = journal'.failures
    PROVE  LedgerInv'
<1>1. up /\ session.descriptors = journal.descriptors /\ session.descriptors[a] # NoDescriptor
  BY DEF FailureDue, LedgerInv
<1>2. (up' => session'.descriptors = journal'.descriptors /\ session'.failures = journal'.failures)
      /\ (~up' => session' = Blank)
  BY <1>1 DEF Die
<1>3. \A x \in journal'.failures : journal'.descriptors[x] # NoDescriptor
  BY <1>1 DEF LedgerInv
<1>4. ASSUME Shared, NEW x \in journal'.failures
      PROVE  x \in ledger'[BranchOf(journal'.descriptors[x])]
  <2> DEFINE branch == BranchOf(session.descriptors[a])
  <2>1. branch \in Branches /\ ledger \in [Branches -> SUBSET Attempts]
    BY LedgerTypes DEF BranchOf, Branches, Descriptor, BudgetInv, TypeOK
  <2>2. ledger' = [ledger EXCEPT ![branch] = @ \cup {a}]
    BY <1>4 DEF LedgerWith
  <2>3. CASE x = a
    BY <1>1, <2>1, <2>2, <2>3
  <2>4. CASE x # a
    <3>1. x \in journal.failures /\ journal'.descriptors[x] = journal.descriptors[x]
      BY <1>4, <2>4
    <3>2. x \in ledger[BranchOf(journal.descriptors[x])]
      BY <1>4, <3>1 DEF LedgerInv
    <3>3. journal.descriptors[x] \in Descriptor
      BY <3>1 DEF BudgetInv, TypeOK, View, LedgerInv
    <3>4. BranchOf(journal.descriptors[x]) \in Branches
      BY <3>3 DEF BranchOf, Branches, Descriptor
    <3> HIDE DEF branch
    <3> QED BY <2>1, <2>2, <3>1, <3>2, <3>4
  <2> QED BY <2>3, <2>4
<1> QED BY <1>2, <1>3, <1>4 DEF LedgerInv

(* One step keeps what the shared ledger is told. *)
LEMMA LedgerStep ==
    ASSUME BudgetInv, LedgerInv, [Next]_vars
    PROVE  LedgerInv'
<1>0. session \in View /\ journal \in View
  BY DEF BudgetInv, TypeOK
<1>1. ASSUME NEW a \in Attempts, NEW d \in Descriptor, BeginAttempt(a, d)
      PROVE  LedgerInv'
  <2>1. /\ up /\ up' /\ ledger' = ledger /\ session.descriptors[a] \in {NoDescriptor, d}
        /\ session' = [session EXCEPT !.descriptors[a] = d]
        /\ journal' = [journal EXCEPT !.descriptors[a] = d]
    BY <1>1 DEF BeginAttempt, ReplayDescriptor
  <2>2. /\ session'.descriptors = [session.descriptors EXCEPT ![a] = d]
        /\ journal'.descriptors = [journal.descriptors EXCEPT ![a] = d]
        /\ session'.failures = session.failures /\ journal'.failures = journal.failures
    BY <1>0, <2>1 DEF View
  <2>3. session.descriptors = journal.descriptors /\ session.failures = journal.failures
    BY <2>1 DEF LedgerInv
  <2>4. ASSUME NEW x \in journal'.failures
        PROVE  /\ x \in journal.failures /\ journal.descriptors[x] # NoDescriptor
               /\ journal'.descriptors[x] = journal.descriptors[x]
    <3>1. x \in journal.failures /\ journal.descriptors[x] # NoDescriptor /\ x \in Attempts
      BY <1>0, <2>2, <2>4 DEF LedgerInv, View
    <3> QED BY <1>0, <2>1, <2>2, <2>3, <3>1 DEF View
  <2>5. \A x \in journal'.failures : journal'.descriptors[x] # NoDescriptor
    BY <2>4
  <2>6. Shared => \A x \in journal'.failures : x \in ledger'[BranchOf(journal'.descriptors[x])]
    BY <2>1, <2>4 DEF LedgerInv
  <2> QED BY <2>1, <2>2, <2>3, <2>5, <2>6 DEF LedgerInv
<1>2. ASSUME NEW a \in Attempts, RecordAttemptFailure(a) PROVE LedgerInv'
  <2>1. /\ FailureDue(a) /\ ledger' = LedgerWith(a) /\ up' = up /\ up
        /\ session'.failures = session.failures \cup {a}
        /\ session'.descriptors = session.descriptors
        /\ journal'.failures = journal.failures \cup {a}
        /\ journal'.descriptors = journal.descriptors
    BY <1>0, <1>2 DEF RecordAttemptFailure, ReplayConvergence, ReplayFailure, View, FailureDue
  <2>2. session.failures = journal.failures
    BY <2>1 DEF LedgerInv
  <2> QED BY <2>1, <2>2, LedgerFailure
<1>3. ASSUME NEW a \in Attempts, RecordAttemptFailureInterrupted(a) PROVE LedgerInv'
  <2>1. /\ FailureDue(a) /\ ledger' = LedgerWith(a) /\ Die
        /\ journal'.failures \in {journal.failures, journal.failures \cup {a}}
        /\ journal'.descriptors = journal.descriptors
    BY <1>0, <1>3 DEF RecordAttemptFailureInterrupted, ReplayFailure, View
  <2> QED BY <2>1, LedgerFailure
<1>4. ASSUME NEW a \in Attempts, BeforeRetry(a) PROVE LedgerInv'
  <2>1. ledger' = ledger /\ up /\ up' = up
    BY <1>4 DEF BeforeRetry
  <2>2. \/ \E states : RecordConvergence(states)
        \/ \E states : session' = [session EXCEPT !.states = states] /\ journal' = journal
    BY <1>4 DEF BeforeRetry, TerminateFrom
  <2>3. CASE \E states : RecordConvergence(states)
    BY <1>0, <2>1, <2>3, RecordConvergenceQuiet, LedgerQuiet
  <2>4. CASE \E states : session' = [session EXCEPT !.states = states] /\ journal' = journal
    <3>1. session'.descriptors = session.descriptors /\ session'.failures = session.failures
      BY <1>0, <2>4 DEF View
    <3> QED BY <2>1, <2>4, <3>1, LedgerQuiet
  <2> QED BY <2>2, <2>3, <2>4
<1>5. ASSUME ledger' = ledger, Die, \E states : journal' = ReplayConvergence(journal, states)
      PROVE  LedgerInv'
  <2>1. journal'.descriptors = journal.descriptors /\ journal'.failures = journal.failures
    BY <1>0, <1>5 DEF ReplayConvergence, View
  <2> QED BY <1>5, <2>1, LedgerQuiet
<1>6. ASSUME NEW a \in Attempts, BeforeRetryInterrupted(a) PROVE LedgerInv'
  BY <1>5, <1>6 DEF BeforeRetryInterrupted
<1>7. ASSUME NEW c \in Causes, RecordRecoveryEpochInterrupted(c) PROVE LedgerInv'
  BY <1>5, <1>7 DEF RecordRecoveryEpochInterrupted
<1>8. ASSUME up, up' = up, ledger' = ledger, \E states : RecordConvergence(states) PROVE LedgerInv'
  BY <1>0, <1>8, RecordConvergenceQuiet, LedgerQuiet
<1>9. ASSUME NEW c \in Causes, RecordReinspection(c) \/ RecordGoalProgress(c) PROVE LedgerInv'
  BY <1>8, <1>9 DEF RecordReinspection, RecordGoalProgress
<1>10. ASSUME NEW c \in Causes, RecordRecoveryEpoch(c) PROVE LedgerInv'
  BY <1>8, <1>10 DEF RecordRecoveryEpoch, TerminateFrom
<1>11. CASE RecordCommittedAction
  BY <1>8, <1>11 DEF RecordCommittedAction
<1>12. ASSUME NEW d \in Terminal, RequestTermination(d) PROVE LedgerInv'
  BY <1>8, <1>12 DEF RequestTermination, TerminateFrom
<1>13. ASSUME NEW b \in Branches, ForeignFailure(b) PROVE LedgerInv'
  BY <1>13, LedgerQuiet DEF ForeignFailure
<1>14. CASE Crash
  BY <1>14, LedgerQuiet DEF Crash
<1>15. CASE Resume
  BY <1>15, LedgerQuiet DEF Resume
<1>16. CASE UNCHANGED vars
  BY <1>16, LedgerQuiet DEF vars
<1> QED BY <1>1, <1>2, <1>3, <1>4, <1>6, <1>7, <1>9, <1>10, <1>11, <1>12, <1>13, <1>14,
           <1>15, <1>16 DEF Next

(* A failure that will not be reported again, in memory or after a resume, is in
   the ledger the other agents consult, wherever the process died
   (_record_attempt_failure, SharedBranchLedger.record_failure). *)
THEOREM FailuresReachSharedLedger == Spec => []FailureReachesSharedLedger
<1>1. Init => LedgerInv
  BY DEF Init, LedgerInv, Blank
<1>2. BudgetInv /\ LedgerInv /\ [Next]_vars => LedgerInv'
  BY LedgerStep
<1>3. LedgerInv => FailureReachesSharedLedger
  <2> SUFFICES ASSUME LedgerInv, Shared
               PROVE  /\ \A a \in session.failures : a \in ledger[BranchOf(session.descriptors[a])]
                      /\ \A a \in journal.failures : a \in ledger[BranchOf(journal.descriptors[a])]
    BY DEF FailureReachesSharedLedger
  <2>1. CASE up
    BY <2>1 DEF LedgerInv
  <2>2. CASE ~up
    BY <2>2 DEF LedgerInv, Blank
  <2> QED BY <2>1, <2>2
<1> QED BY <1>1, <1>2, <1>3, BudgetInvariant, PTL DEF Spec
=============================================================================
