--------------------------- MODULE MCSharedStores ---------------------------
(***************************************************************************)
(* What outlives one session: the two SQLite stores that several runtimes  *)
(* share without a write transaction around their read (the branch ledger  *)
(* and the operator read model), and the host's session registry.  They    *)
(* share no state here, so a behavior is one of one of them.               *)
(***************************************************************************)
EXTENDS TLC

CONSTANTS g1, g2, g3,
          Agents, MaxAttempts, KeepAttempts, RecoveryLimit,
          Emitters, Subscribers, Retention, QueueSize, MaxEvents,
          Sessions, MaxSessions, Ttl, MaxTokens, MaxTime

VARIABLES part, row, target, held, reported, raced,
          rows, queue, pending, emitted, accepted, failed, worker, sub,
          entries, now, drawn, adapters, operators, handles, closed

ledger == <<row, target, held, reported, raced>>

readModel == <<rows, queue, pending, emitted, accepted, failed, worker, sub>>

registryVars == <<entries, now, drawn, adapters, operators, handles, closed>>

Ledger == INSTANCE SharedBranchLedger
Op == INSTANCE OperatorReadModel
Registry == INSTANCE HostSessionRegistry

ASSUME LedgerAssumption == Ledger!LedgerConstants
ASSUME OperatorAssumption == Op!OperatorConstants
ASSUME RegistryAssumption == Registry!RegistryConstants

(* Agents are interchangeable, and so are sessions. *)
StoresSymmetry == Permutations(Agents) \union Permutations(Sessions)

StoresInit ==
    /\ part \in {"ledger", "operator", "registry"}
    /\ Ledger!Init /\ Op!Init /\ Registry!Init

StoresNext ==
    \/ part = "ledger" /\ Ledger!Next /\ UNCHANGED <<part, readModel, registryVars>>
    \/ part = "operator" /\ Op!Next /\ UNCHANGED <<part, ledger, registryVars>>
    \/ part = "registry" /\ Registry!Next /\ UNCHANGED <<part, ledger, readModel>>

StoresSpec ==
    StoresInit /\ [][StoresNext]_<<part, ledger, readModel, registryVars>>

(* Each property is one of the module it names, under its own behaviors.   *)

(* The row and the rows the agents hold count what they list and list only *)
(* what was reported, and without a race no report is missing.             *)
LedgerInv == Ledger!LedgerInv

(* The projected rows and queues stay within their bounds, the stored      *)
(* sequences have no hole, a client that is not told to resync and whose   *)
(* queue did not overflow misses no stored event, and an accepted event is *)
(* lost only to a failure, the retention, or reuse of its sequence.        *)
OperatorInv ==
    Op!TypeOK /\ Op!RowsContiguous /\ Op!NoSilentGap /\ Op!LostOnlyToReuse

(* The registry is bounded, in expiry order and has one entry per token;   *)
(* a registered session is closed exactly when no entry holds it.          *)
RegistryInv == Registry!BoundedAndOrdered /\ Registry!ClosedIffUnheld

(* No call is served from an entry that has expired.                       *)
NoExpiredSessionServed == [][Registry!ServedIsLive]_registryVars
=============================================================================
