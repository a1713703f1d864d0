--------------------------- MODULE SharedBranchLedger ---------------------------
(***************************************************************************)
(* The row that the agents of one workflow share for one investigative     *)
(* branch (cause and premise).  record_failure reads the row outside any   *)
(* transaction, computes the new row in the process, and then upserts it:  *)
(* two steps between which other agents may run.  The upsert itself is     *)
(* atomic and waits for a concurrent writer, or gives up (timeout=2.0).    *)
(*                                                                         *)
(* Attempts are the digests of attempt references, numbered in the order   *)
(* the row's JSON lists are sorted in; the row keeps the last KeepAttempts *)
(* of them.  The plan and evidence lists of the row gate nothing.          *)
(***************************************************************************)
EXTENDS Naturals, FiniteSets

CONSTANTS
    Agents,        \* processes that share the ledger
    MaxAttempts,   \* bound: attempts made on the branch
    KeepAttempts,  \* 64: attempt digests the row remembers
    RecoveryLimit  \* failures after which the branch is exhausted

(* What the constants are. *)
LedgerConstants ==
    /\ MaxAttempts \in Nat
    /\ KeepAttempts \in Nat
    /\ MaxAttempts <= KeepAttempts
    /\ RecoveryLimit \in Nat \ {0}

Attempts == 1..MaxAttempts
Row == [count : Nat, attempts : SUBSET Attempts]
NoRow == [count |-> 0, attempts |-> {}]

VARIABLES
    row,       \* the committed row, NoRow when there is none
    target,    \* per agent: the attempt it is reporting, or 0
    held,      \* per agent: the row it has read
    reported,  \* history: attempts whose record_failure has returned
    raced      \* history: a row was written over one the writer had not read

vars == <<row, target, held, reported, raced>>

TypeOK ==
    /\ row \in Row
    /\ target \in [Agents -> Attempts \cup {0}]
    /\ held \in [Agents -> Row]
    /\ reported \in SUBSET Attempts
    /\ raced \in BOOLEAN

Init ==
    /\ row = NoRow
    /\ target = [g \in Agents |-> 0]
    /\ held = [g \in Agents |-> NoRow]
    /\ reported = {}
    /\ raced = FALSE

(* sorted(attempt_values)[-64:] *)
LastOf(S) == {a \in S : Cardinality({b \in S : b > a}) < KeepAttempts}

(* The row record_failure computes from the one it read. *)
With(r, a) ==
    [count |-> IF a \in r.attempts THEN r.count ELSE r.count + 1,
     attempts |-> LastOf(r.attempts \cup {a})]

(* Fault: the attempt is in the held row before it is reported. *)
FaultyReadRow(g, a) ==
    /\ target[g] = 0
    /\ target' = [target EXCEPT ![g] = a]
    /\ held' = [held EXCEPT ![g] = With(row, a)]
    /\ UNCHANGED <<row, reported, raced>>
(* record_failure up to its SELECT. *)
ReadRow(g, a) ==
    /\ target[g] = 0
    /\ target' = [target EXCEPT ![g] = a]
    /\ held' = [held EXCEPT ![g] = row]
    /\ UNCHANGED <<row, reported, raced>>

(* Its upsert and commit. *)
WriteRow(g) ==
    /\ target[g] # 0
    /\ row' = With(held[g], target[g])
    /\ target' = [target EXCEPT ![g] = 0]
    /\ reported' = reported \cup {target[g]}
    /\ raced' = (raced \/ held[g] # row)
    /\ UNCHANGED held

(* The database stays locked, or the agent's process dies. *)
GiveUp(g) ==
    /\ target[g] # 0
    /\ target' = [target EXCEPT ![g] = 0]
    /\ UNCHANGED <<row, held, reported, raced>>

Next ==
    \E g \in Agents : \/ \E a \in Attempts : ReadRow(g, a)
                      \/ WriteRow(g)
                      \/ GiveUp(g)

Spec == Init /\ [][Next]_vars

(* recovery_count at the retry gate (_shared_branch_exhausted). *)
Exhausted == row.count >= RecoveryLimit
-----------------------------------------------------------------------------
(* The count never exceeds the distinct attempts that were reported, and it is
   the number of attempts the row lists, whatever stale rows were written over
   newer ones and however often an attempt is reported again
   (SharedBranchLedger.record_failure). *)
Counted(r) == r.count = Cardinality(r.attempts)
NeverOvercounts ==
    /\ Counted(row)
    /\ row.attempts \subseteq reported

(* A reported attempt is missing from the row only if some agent wrote over a
   row it had not read: without such a race every report counts, exactly once
   (SharedBranchLedger.record_failure). *)
ExactUnlessRaced == ~raced => row.attempts = reported

(* The inductive invariant: the rows agents hold are like the committed one. *)
LedgerInv ==
    /\ TypeOK
    /\ NeverOvercounts
    /\ ExactUnlessRaced
    /\ \A g \in Agents : Counted(held[g]) /\ held[g].attempts \subseteq reported
=============================================================================
