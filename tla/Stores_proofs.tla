----------------------------- MODULE Stores_proofs -----------------------------
(***************************************************************************)
(* Proofs about the four stores that outlive a session, for every number   *)
(* of agents, sessions, tokens and events: the shared ledger, the host's   *)
(* session registry, the operator read model and the telemetry store with  *)
(* its exporters.  The first three are instances of MCSharedStores; the    *)
(* names without a prefix are those of TelemetryExport.                    *)
(***************************************************************************)
EXTENDS MCSharedStores, TelemetryExport, Subsequences, FiniteSetTheorems, WellFoundedInduction, TLAPS

(***************************************************************************)
(* Positions in order                                                      *)
(***************************************************************************)
(* How many elements of S come before x in the order R. *)
Rank(S, R, x) == Cardinality({y \in S : <<y, x>> \in R})

StrictOrder(S, R) ==
    /\ \A x \in S : <<x, x>> \notin R
    /\ \A x, y, z \in S : <<x, y>> \in R /\ <<y, z>> \in R => <<x, z>> \in R
    /\ \A x, y \in S : x # y => <<x, y>> \in R \/ <<y, x>> \in R

(* Ranks respect the order and number the elements of a finite set from 0. *)
LEMMA RankFact ==
    ASSUME NEW S, NEW R, IsFiniteSet(S), StrictOrder(S, R)
    PROVE  /\ Cardinality(S) \in Nat
           /\ \A x \in S : Rank(S, R, x) \in 0..(Cardinality(S) - 1)
           /\ \A x, y \in S : <<x, y>> \in R => Rank(S, R, x) < Rank(S, R, y)
           /\ \A n \in 0..(Cardinality(S) - 1) : \E x \in S : Rank(S, R, x) = n
<1> DEFINE Below(x) == {y \in S : <<y, x>> \in R}
           c == Cardinality(S)
           T == 0..(c - 1)
           f == [x \in S |-> Cardinality(Below(x))]
<1>0. c \in Nat
  BY FS_CardinalityType
<1>1. ASSUME NEW x \in S
      PROVE  /\ IsFiniteSet(Below(x)) /\ Cardinality(Below(x)) \in Nat
             /\ Cardinality(Below(x)) < c
  <2>1. Below(x) \in SUBSET S /\ x \notin Below(x)
    BY DEF StrictOrder
  <2> HIDE DEF Below
  <2>2. IsFiniteSet(Below(x)) /\ Cardinality(Below(x)) <= c /\ Cardinality(Below(x)) # c
    BY <2>1, FS_Subset
  <2>3. Cardinality(Below(x)) \in Nat
    BY <2>2, FS_CardinalityType
  <2> QED BY <1>0, <2>2, <2>3
<1>2. ASSUME NEW x \in S, NEW y \in S, <<x, y>> \in R
      PROVE  Cardinality(Below(x)) < Cardinality(Below(y))
  <2>1. Below(x) \in SUBSET Below(y)
    BY <1>2 DEF StrictOrder
  <2>2. x \in Below(y) /\ x \notin Below(x)
    BY <1>2 DEF StrictOrder
  <2> HIDE DEF Below
  <2>3. /\ Cardinality(Below(x)) <= Cardinality(Below(y))
        /\ Cardinality(Below(x)) # Cardinality(Below(y))
    BY <1>1, <2>1, <2>2, FS_Subset
  <2> QED BY <1>1, <2>3
<1>3. IsFiniteSet(T) /\ Cardinality(T) = c
  <2>1. 0 \in Int /\ c - 1 \in Int
    BY <1>0
  <2>2. /\ IsFiniteSet(0..(c - 1))
        /\ Cardinality(0..(c - 1)) = IF 0 > c - 1 THEN 0 ELSE (c - 1) - 0 + 1
    BY <2>1, FS_Interval
  <2> HIDE DEF c
  <2> QED BY <1>0, <2>2
<1>4. f \in Injection(S, T)
  <2>1. f \in [S -> T]
    <3> HIDE DEF Below
    <3> QED BY <1>0, <1>1
  <2>2. \A x, y \in S : f[x] = f[y] => x = y
    <3> SUFFICES ASSUME NEW x \in S, NEW y \in S, x # y PROVE f[x] # f[y]
      OBVIOUS
    <3>1. <<x, y>> \in R \/ <<y, x>> \in R
      BY DEF StrictOrder
    <3> HIDE DEF Below
    <3> QED BY <1>1, <1>2, <3>1
  <2> QED BY <2>1, <2>2 DEF Injection, IsInjective
<1>5. f \in Surjection(S, T)
  <2> HIDE DEF f, T
  <2> QED BY <1>3, <1>4, FS_Injection
<1>6. \A n \in T : \E x \in S : f[x] = n
  BY <1>5 DEF Surjection
<1> HIDE DEF c
<1>7. \A x \in S : Rank(S, R, x) = Cardinality(Below(x))
  BY DEF Rank
<1>8. \A x \in S : f[x] = Cardinality(Below(x))
  OBVIOUS
<1> HIDE DEF f, Below
<1>9. \A x \in S : Cardinality(Below(x)) \in T
  BY <1>0, <1>1
<1> QED BY <1>0, <1>2, <1>6, <1>7, <1>8, <1>9 DEF c

(* The elements of a finite set of numbers, in order. *)
LEMMA NthFact ==
    ASSUME NEW P \in SUBSET Int, IsFiniteSet(P)
    PROVE  /\ Cardinality(P) \in Nat
           /\ \A n \in 1..Cardinality(P) : Nth(P, n) \in P
           /\ \A m, n \in 1..Cardinality(P) : m < n => Nth(P, m) < Nth(P, n)
           /\ \A i \in P : \E n \in 1..Cardinality(P) : Nth(P, n) = i
<1> DEFINE R == {p \in P \X P : p[1] < p[2]}
           c == Cardinality(P)
<1>1. \A x, y \in P : <<x, y>> \in R <=> x < y
  OBVIOUS
<1>2. StrictOrder(P, R)
  <2> HIDE DEF R
  <2>1. \A x, y, z \in P : x < y /\ y < z => x < z
    OBVIOUS
  <2>2. \A x, y \in P : ~(x < x) /\ (x # y => x < y \/ y < x)
    OBVIOUS
  <2> QED BY <1>1, <2>1, <2>2 DEF StrictOrder
<1>3. \A x \in P : Rank(P, R, x) = Cardinality({j \in P : j < x})
  <2>1. \A x \in P : {y \in P : <<y, x>> \in R} = {j \in P : j < x}
    OBVIOUS
  <2> HIDE DEF R
  <2> QED BY <2>1 DEF Rank
<1> HIDE DEF R
<1>4. /\ c \in Nat
      /\ \A x \in P : Rank(P, R, x) \in 0..(c - 1)
      /\ \A x, y \in P : x < y => Rank(P, R, x) < Rank(P, R, y)
      /\ \A n \in 0..(c - 1) : \E x \in P : Rank(P, R, x) = n
  BY <1>1, <1>2, RankFact
<1>5. ASSUME NEW n \in 1..c
      PROVE  Nth(P, n) \in P /\ Rank(P, R, Nth(P, n)) = n - 1
  <2>1. n - 1 \in 0..(c - 1)
    BY <1>4
  <2>2. PICK x \in P : Rank(P, R, x) = n - 1
    BY <1>4, <2>1
  <2>3. Cardinality({j \in P : j < x}) = n - 1
    BY <1>3, <2>2
  <2>4. /\ Nth(P, n) \in P
        /\ Cardinality({j \in P : j < Nth(P, n)}) = n - 1
    BY <2>3, Zenon DEF Nth
  <2> QED BY <1>3, <2>4
<1>6. ASSUME NEW x \in P, NEW y \in P, Rank(P, R, x) = Rank(P, R, y) PROVE x = y
  BY <1>4, <1>6
<1> HIDE DEF c
<1>7. ASSUME NEW m \in 1..c, NEW n \in 1..c, m < n PROVE Nth(P, m) < Nth(P, n)
  <2>1. Nth(P, m) \in P /\ Nth(P, n) \in P
    BY <1>5
  <2>2. Rank(P, R, Nth(P, m)) = m - 1 /\ Rank(P, R, Nth(P, n)) = n - 1
    BY <1>5
  <2> DEFINE x == Nth(P, m)
             y == Nth(P, n)
  <2>3. x \in Int /\ y \in Int
    BY <2>1
  <2>4. Rank(P, R, x) < Rank(P, R, y)
    BY <1>7, <2>2
  <2>5. y < x => Rank(P, R, y) < Rank(P, R, x)
    BY <1>4, <2>1
  <2>6. Rank(P, R, x) \in Int /\ Rank(P, R, y) \in Int
    BY <2>2
  <2> HIDE DEF x, y
  <2>7. x < y
    BY <2>3, <2>4, <2>5, <2>6
  <2> QED BY <2>7 DEF x, y
<1>8. ASSUME NEW i \in P PROVE \E n \in 1..c : Nth(P, n) = i
  <2> DEFINE r == Rank(P, R, i)
  <2>1. r \in 0..(c - 1)
    BY <1>4
  <2> HIDE DEF r
  <2>2. r + 1 \in 1..c /\ (r + 1) - 1 = r
    BY <1>4, <2>1
  <2>3. Nth(P, r + 1) \in P /\ Rank(P, R, Nth(P, r + 1)) = r
    BY <1>5, <2>2
  <2> QED BY <1>6, <2>2, <2>3 DEF r
<1> QED BY <1>4, <1>5, <1>7, <1>8 DEF c

(* A set of numbers has a least one. *)
LEMMA LeastOf ==
    ASSUME NEW S \in SUBSET Nat, S # {}
    PROVE  \E x \in S : \A y \in S : x <= y
<1> DEFINE Below == {p \in Nat \X Nat : p[1] < p[2]}
<1>1. IsWellFoundedOn(Below, Nat)
  BY NatLessThanWellFounded DEF OpToRel
<1>2. PICK x \in S : \A y \in S : <<y, x>> \notin Below
  BY <1>1, WFMin
<1>3. ASSUME NEW y \in S PROVE x <= y
  <2>1. x \in Nat /\ y \in Nat /\ ~(y < x)
    BY <1>2
  <2> QED BY <2>1
<1> QED BY <1>2, <1>3

(* What is picked from a sequence keeps its order and leaves nothing chosen out. *)
LEMMA PickedFact ==
    ASSUME NEW T, NEW s \in Seq(T), NEW P \in SUBSET (1..Len(s))
    PROVE  /\ Cardinality(P) \in Nat /\ Cardinality(P) <= Len(s)
           /\ Picked(s, P) \in Seq(T) /\ Len(Picked(s, P)) = Cardinality(P)
           /\ \A n \in 1..Cardinality(P) :
                 Nth(P, n) \in P /\ Picked(s, P)[n] = s[Nth(P, n)]
           /\ \A m, n \in 1..Cardinality(P) : m < n => Nth(P, m) < Nth(P, n)
           /\ \A i \in P : \E n \in 1..Cardinality(P) : Nth(P, n) = i
<1>1. Len(s) \in Nat
  OBVIOUS
<1>2. /\ IsFiniteSet(1..Len(s))
      /\ Cardinality(1..Len(s)) = IF 1 > Len(s) THEN 0 ELSE Len(s) - 1 + 1
  BY <1>1, FS_Interval
<1>3. Cardinality(1..Len(s)) = Len(s)
  BY <1>1, <1>2
<1>4. IsFiniteSet(P) /\ Cardinality(P) <= Len(s)
  BY <1>2, <1>3, FS_Subset
<1>5. P \in SUBSET Int
  BY <1>1
<1>6. /\ Cardinality(P) \in Nat
      /\ \A n \in 1..Cardinality(P) : Nth(P, n) \in P
      /\ \A m, n \in 1..Cardinality(P) : m < n => Nth(P, m) < Nth(P, n)
      /\ \A i \in P : \E n \in 1..Cardinality(P) : Nth(P, n) = i
  BY <1>4, <1>5, NthFact
<1>7. \A n \in 1..Cardinality(P) : s[Nth(P, n)] \in T
  <2>1. \A i \in 1..Len(s) : s[i] \in T
    OBVIOUS
  <2> QED BY <1>6, <2>1
<1>8. /\ Picked(s, P) \in Seq(T) /\ Len(Picked(s, P)) = Cardinality(P)
      /\ \A n \in 1..Cardinality(P) : Picked(s, P)[n] = s[Nth(P, n)]
  <2> DEFINE c == Cardinality(P)
             q(n) == s[Nth(P, n)]
  <2>1. c \in Nat /\ \A n \in 1..c : q(n) \in T
    BY <1>6, <1>7
  <2>2. Picked(s, P) = [n \in 1..c |-> q(n)]
    BY DEF Picked
  <2> HIDE DEF c, q
  <2>3. /\ Picked(s, P) \in Seq(T) /\ Len(Picked(s, P)) = c
        /\ \A n \in 1..c : Picked(s, P)[n] = q(n)
    BY <2>1, <2>2
  <2> QED BY <2>3 DEF c, q
<1> QED BY <1>4, <1>6, <1>8

(***************************************************************************)
(* The shared ledger                                                       *)
(***************************************************************************)
(* The constants. *)
LEMMA LedgerFacts ==
    /\ MaxAttempts \in Nat /\ KeepAttempts \in Nat /\ MaxAttempts <= KeepAttempts
    /\ RecoveryLimit \in Nat \ {0}
BY LedgerAssumption DEF Ledger!LedgerConstants

(* The ledger counts as this module does. *)
LEMMA LedgerCounts == \A S : Ledger!Cardinality(S) = Cardinality(S)
BY DEF Ledger!Cardinality, Cardinality

(* Sets of attempts are finite. *)
LEMMA AttemptSetsFinite ==
    ASSUME NEW S \in SUBSET Ledger!Attempts
    PROVE  /\ IsFiniteSet(S)
           /\ Cardinality(S) \in Nat
           /\ Cardinality(S) <= MaxAttempts
<1>1. IsFiniteSet(Ledger!Attempts) /\ Cardinality(Ledger!Attempts) = MaxAttempts
  <2>1. IsFiniteSet(1..MaxAttempts)
    BY LedgerFacts, FS_Interval
  <2>2. Cardinality(1..MaxAttempts) = IF 1 > MaxAttempts THEN 0
                                      ELSE MaxAttempts - 1 + 1
    BY LedgerFacts, FS_Interval
  <2>3. QED
    BY <2>1, <2>2, LedgerFacts DEF Ledger!Attempts
<1>2. QED
  BY <1>1, FS_Subset, FS_CardinalityType

(* While no more attempts are made than the row can list, it lists them all. *)
LEMMA LastOfKeepsAll ==
    ASSUME NEW S \in SUBSET Ledger!Attempts
    PROVE  Ledger!LastOf(S) = S
<1>1. ASSUME NEW a \in S
      PROVE  Cardinality({b \in S : b > a}) < KeepAttempts
  <2> DEFINE T == {b \in S : b > a}
  <2>1. T \in SUBSET Ledger!Attempts /\ a \notin T /\ a \in Ledger!Attempts
    <3>1. a \in Ledger!Attempts /\ T \in SUBSET Ledger!Attempts
      BY <1>1
    <3>2. ~(a > a)
      BY <3>1 DEF Ledger!Attempts
    <3>3. QED
      BY <3>1, <3>2
  <2>2. IsFiniteSet(T) /\ Cardinality(T) \in Nat
    BY <2>1, AttemptSetsFinite
  <2>3. Cardinality(T \cup {a}) = Cardinality(T) + 1
    BY <2>1, <2>2, FS_AddElement
  <2>4. Cardinality(T \cup {a}) <= MaxAttempts
    <3>1. T \cup {a} \in SUBSET Ledger!Attempts
      BY <2>1
    <3> HIDE DEF T
    <3>2. QED
      BY <3>1, AttemptSetsFinite
  <2> HIDE DEF T
  <2>5. Cardinality(T) < KeepAttempts
    BY <2>2, <2>3, <2>4, LedgerFacts
  <2>6. QED
    BY <2>5 DEF T
<1>2. QED
  BY <1>1, LedgerCounts DEF Ledger!LastOf

(* The row computed from a well-counted row is well counted. *)
LEMMA WithCounts ==
    ASSUME NEW r \in Ledger!Row, Ledger!Counted(r), NEW a \in Ledger!Attempts
    PROVE  /\ Ledger!With(r, a) \in Ledger!Row
           /\ Ledger!Counted(Ledger!With(r, a))
           /\ Ledger!With(r, a).attempts = r.attempts \cup {a}
<1>1. r.attempts \in SUBSET Ledger!Attempts /\ r.count \in Nat
  BY DEF Ledger!Row
<1>2. r.attempts \cup {a} \in SUBSET Ledger!Attempts
  BY <1>1
<1>3. Ledger!LastOf(r.attempts \cup {a}) = r.attempts \cup {a}
  BY <1>2, LastOfKeepsAll
<1>4. IsFiniteSet(r.attempts)
  BY <1>1, AttemptSetsFinite
<1>5. Cardinality(r.attempts \cup {a}) =
         IF a \in r.attempts THEN r.count ELSE r.count + 1
  BY <1>4, LedgerCounts, FS_AddElement DEF Ledger!Counted
<1>6. /\ Ledger!With(r, a).attempts = r.attempts \cup {a}
      /\ Ledger!With(r, a).count = IF a \in r.attempts THEN r.count ELSE r.count + 1
      /\ Ledger!With(r, a) = [count |-> Ledger!With(r, a).count,
                       attempts |-> Ledger!With(r, a).attempts]
  BY <1>3 DEF Ledger!With
<1>7. Ledger!With(r, a).count \in Nat
  BY <1>1, <1>6
<1>8. Ledger!With(r, a) \in Ledger!Row
  BY <1>2, <1>6, <1>7 DEF Ledger!Row
<1>9. QED
  BY <1>5, <1>6, <1>8, LedgerCounts DEF Ledger!Counted

(* The ledger's invariant holds in every behaviour: no attempt is counted
   twice, and without a race none is lost. *)
THEOREM LedgerCorrect == Ledger!Spec => []LedgerInv
<1>1. Ledger!Init => LedgerInv
  <2>1. Cardinality({}) = 0
    BY FS_EmptySet
  <2>2. Ledger!NoRow \in Ledger!Row /\ Ledger!Counted(Ledger!NoRow) /\ Ledger!NoRow.attempts = {}
    BY <2>1, LedgerCounts DEF Ledger!NoRow, Ledger!Row, Ledger!Counted
  <2>3. QED
    BY <2>2 DEF Ledger!Init, LedgerInv, Ledger!LedgerInv, Ledger!TypeOK,
                Ledger!NeverOvercounts, Ledger!ExactUnlessRaced
<1>2. LedgerInv /\ [Ledger!Next]_(Ledger!vars) => LedgerInv'
  <2> SUFFICES ASSUME LedgerInv, [Ledger!Next]_(Ledger!vars) PROVE LedgerInv'
    OBVIOUS
  <2> USE DEF LedgerInv, Ledger!LedgerInv, Ledger!TypeOK, Ledger!NeverOvercounts,
          Ledger!ExactUnlessRaced
  <2>1. ASSUME NEW g \in Agents, NEW a \in Ledger!Attempts, Ledger!ReadRow(g, a)
        PROVE  LedgerInv'
    BY <2>1 DEF Ledger!ReadRow
  <2>2. ASSUME NEW g \in Agents, Ledger!WriteRow(g)
        PROVE  LedgerInv'
    <3>1. /\ target[g] \in Ledger!Attempts /\ held[g] \in Ledger!Row /\ Ledger!Counted(held[g])
          /\ held[g].attempts \subseteq reported
      BY <2>2 DEF Ledger!WriteRow
    <3>2. /\ row' \in Ledger!Row /\ Ledger!Counted(row')
          /\ row'.attempts = held[g].attempts \cup {target[g]}
      BY <2>2, <3>1, WithCounts DEF Ledger!WriteRow
    <3>3. reported' = reported \cup {target[g]}
      BY <2>2 DEF Ledger!WriteRow
    <3>4. Ledger!ExactUnlessRaced'
      <4>1. SUFFICES ASSUME ~raced' PROVE row'.attempts = reported'
        OBVIOUS
      <4>2. ~raced /\ held[g] = row
        BY <2>2, <4>1 DEF Ledger!WriteRow
      <4>3. QED
        BY <3>2, <3>3, <4>2
    <3>5. Ledger!TypeOK'
      BY <2>2, <3>1, <3>2 DEF Ledger!WriteRow
    <3>6. Ledger!NeverOvercounts'
      BY <3>1, <3>2, <3>3 DEF Ledger!Counted
    <3>7. \A h \in Agents : Ledger!Counted(held'[h]) /\ held'[h].attempts \subseteq reported'
      BY <2>2, <3>3 DEF Ledger!WriteRow
    <3>8. QED
      BY <3>4, <3>5, <3>6, <3>7 DEF Ledger!Counted
  <2>3. ASSUME NEW g \in Agents, Ledger!GiveUp(g)
        PROVE  LedgerInv'
    BY <2>3 DEF Ledger!GiveUp
  <2>4. CASE UNCHANGED Ledger!vars
    BY <2>4 DEF Ledger!vars, Ledger!Counted
  <2>5. QED
    BY <2>1, <2>2, <2>3, <2>4 DEF Ledger!Next
<1>3. QED
  BY <1>1, <1>2, PTL DEF Ledger!Spec

(* record_failure counts no attempt twice. *)
THEOREM NeverOvercountsAlways == Ledger!Spec => []Ledger!NeverOvercounts
BY LedgerCorrect, PTL DEF LedgerInv, Ledger!LedgerInv

(* record_failure loses a report only when two agents race. *)
THEOREM ExactUnlessRacedAlways == Ledger!Spec => []Ledger!ExactUnlessRaced
BY LedgerCorrect, PTL DEF LedgerInv, Ledger!LedgerInv
(***************************************************************************)
(* The session registry                                                    *)
(***************************************************************************)
(* A list of entries as the registry keeps it at time t after d tokens were
   drawn: bounded by n, one entry per token, none in front of one that would
   expire sooner. *)
Fits(es, n, d, t) ==
    /\ es \in Seq(Registry!Entries)
    /\ Len(es) <= n
    /\ \A j, k \in 1..Len(es) : j < k => /\ es[j].token # es[k].token
                                         /\ es[j].expires <= es[k].expires
    /\ \A k \in 1..Len(es) : es[k].token <= d /\ es[k].expires <= t + Ttl

(* The inductive invariant of the registry. *)
RegistryIInv ==
    /\ Registry!TypeOK
    /\ Fits(entries, MaxSessions, drawn, now)
    /\ Registry!ClosedIffUnheld

LEMMA RegistryFacts ==
    MaxSessions \in Nat \ {0} /\ Ttl \in Nat \ {0} /\ MaxTokens \in Nat /\ MaxTime \in Nat
BY RegistryAssumption DEF Registry!RegistryConstants

(* The registry picks from a sequence as this module does. *)
LEMMA RegistryPicks ==
    ASSUME NEW s, NEW P
    PROVE  Registry!Picked(s, P) = Picked(s, P)
BY DEF Registry!Picked, Registry!Nth, Registry!Cardinality, Picked, Nth, Cardinality

(* The sessions and the tokens of the entries at the positions P. *)
HeldAt(es, P) == {es[k].session : k \in P}
TokensAt(es, P) == {es[k].token : k \in P}

(* Dropping entries keeps the list as it should be. *)
LEMMA PickedFits ==
    ASSUME NEW n \in Nat, NEW d \in Nat, NEW t \in Nat, NEW es, Fits(es, n, d, t),
           NEW P \in SUBSET (1..Len(es))
    PROVE  /\ Fits(Picked(es, P), n, d, t)
           /\ Registry!Held(Picked(es, P)) = HeldAt(es, P)
           /\ Registry!Tokens(Picked(es, P)) = TokensAt(es, P)
<1> DEFINE q == Picked(es, P)
<1>1. es \in Seq(Registry!Entries) /\ Len(es) \in Nat
  BY DEF Fits
<1>2. /\ Cardinality(P) \in Nat /\ Cardinality(P) <= Len(es)
      /\ q \in Seq(Registry!Entries) /\ Len(q) = Cardinality(P)
      /\ \A k \in 1..Len(q) : Nth(P, k) \in P /\ q[k] = es[Nth(P, k)]
      /\ \A j, k \in 1..Len(q) : j < k => Nth(P, j) < Nth(P, k)
      /\ \A i \in P : \E k \in 1..Len(q) : Nth(P, k) = i
  BY <1>1, PickedFact
<1> HIDE DEF q
<1>3. Len(q) <= n
  BY <1>1, <1>2 DEF Fits
<1>4. ASSUME NEW j \in 1..Len(q), NEW k \in 1..Len(q), j < k
      PROVE  q[j].token # q[k].token /\ q[j].expires <= q[k].expires
  <2>1. /\ Nth(P, j) \in 1..Len(es) /\ Nth(P, k) \in 1..Len(es)
        /\ Nth(P, j) < Nth(P, k)
    BY <1>2, <1>4
  <2> QED BY <1>2, <2>1 DEF Fits
<1>5. ASSUME NEW k \in 1..Len(q) PROVE q[k].token <= d /\ q[k].expires <= t + Ttl
  <2>1. Nth(P, k) \in 1..Len(es)
    BY <1>2
  <2> QED BY <1>2, <2>1 DEF Fits
<1>6. Fits(q, n, d, t)
  BY <1>2, <1>3, <1>4, <1>5 DEF Fits
<1>9. ASSUME NEW i \in P PROVE \E k \in 1..Len(q) : q[k] = es[i]
  <2>1. PICK k \in 1..Len(q) : Nth(P, k) = i
    BY <1>2
  <2> QED BY <1>2, <2>1
<1>10. \A k \in 1..Len(q) : \E i \in P : q[k] = es[i]
  BY <1>2
<1>7. {q[k].session : k \in 1..Len(q)} = {es[k].session : k \in P}
  <2> DEFINE A == {q[k].session : k \in 1..Len(q)}
             B == {es[k].session : k \in P}
  <2>1. ASSUME NEW v \in A PROVE v \in B
    <3>1. PICK k \in 1..Len(q) : v = q[k].session
      OBVIOUS
    <3>2. PICK i \in P : q[k] = es[i]
      BY <1>10
    <3> QED BY <3>1, <3>2
  <2>2. ASSUME NEW v \in B PROVE v \in A
    <3>1. PICK i \in P : v = es[i].session
      OBVIOUS
    <3>2. PICK k \in 1..Len(q) : q[k] = es[i]
      BY <1>9
    <3> QED BY <3>1, <3>2
  <2> HIDE DEF A, B
  <2>3. A = B
    BY <2>1, <2>2
  <2> QED BY <2>3 DEF A, B
<1>8. {q[k].token : k \in 1..Len(q)} = {es[k].token : k \in P}
  <2> DEFINE A == {q[k].token : k \in 1..Len(q)}
             B == {es[k].token : k \in P}
  <2>1. ASSUME NEW v \in A PROVE v \in B
    <3>1. PICK k \in 1..Len(q) : v = q[k].token
      OBVIOUS
    <3>2. PICK i \in P : q[k] = es[i]
      BY <1>10
    <3> QED BY <3>1, <3>2
  <2>2. ASSUME NEW v \in B PROVE v \in A
    <3>1. PICK i \in P : v = es[i].token
      OBVIOUS
    <3>2. PICK k \in 1..Len(q) : q[k] = es[i]
      BY <1>9
    <3> QED BY <3>1, <3>2
  <2> HIDE DEF A, B
  <2>3. A = B
    BY <2>1, <2>2
  <2> QED BY <2>3 DEF A, B
<1> QED BY <1>6, <1>7, <1>8 DEF q, Registry!Held, Registry!Tokens, HeldAt, TokensAt

(* A new entry at the end, under a token no other has. *)
LEMMA AppendFits ==
    ASSUME NEW n \in Nat, NEW d \in Nat, NEW t \in Nat, NEW es, Fits(es, n, d, t),
           NEW x \in 1..MaxTokens, x <= d, x \notin Registry!Tokens(es), NEW s \in Sessions,
           NEW e, e = [token |-> x, session |-> s, expires |-> t + Ttl]
    PROVE  /\ Fits(Append(es, e), n + 1, d, t)
           /\ Registry!Held(Append(es, e)) = Registry!Held(es) \cup {s}
           /\ Registry!Tokens(Append(es, e)) = Registry!Tokens(es) \cup {x}
<1> DEFINE q == Append(es, e)
           l == Len(es)
<1>1. es \in Seq(Registry!Entries) /\ l \in Nat /\ l <= n
  BY DEF Fits
<1>2. e \in Registry!Entries /\ e.token = x /\ e.session = s /\ e.expires = t + Ttl
  BY RegistryFacts DEF Registry!Entries
<1>3. /\ q \in Seq(Registry!Entries) /\ Len(q) = l + 1
      /\ q[l + 1] = e /\ \A k \in 1..l : q[k] = es[k]
  BY <1>1, <1>2
<1>4. 1..(l + 1) = (1..l) \cup {l + 1}
  BY <1>1
<1>5. \A k \in 1..l : es[k].token # x /\ es[k].expires <= t + Ttl
  BY DEF Fits, Registry!Tokens
<1>9. x <= d /\ t + Ttl <= t + Ttl
  BY RegistryFacts
<1> HIDE DEF q
<1>6. ASSUME NEW j \in 1..Len(q), NEW k \in 1..Len(q), j < k
      PROVE  q[j].token # q[k].token /\ q[j].expires <= q[k].expires
  <2>1. j \in 1..l
    BY <1>1, <1>3, <1>6
  <2>2. k \in 1..l \/ k = l + 1
    BY <1>3, <1>4
  <2> QED BY <1>2, <1>3, <1>5, <1>6, <2>1, <2>2 DEF Fits
<1>7. ASSUME NEW k \in 1..Len(q) PROVE q[k].token <= d /\ q[k].expires <= t + Ttl
  <2>2. k \in 1..l \/ k = l + 1
    BY <1>3, <1>4
  <2> QED BY <1>2, <1>3, <1>5, <1>9, <2>2 DEF Fits
<1>8. Fits(q, n + 1, d, t)
  BY <1>1, <1>3, <1>6, <1>7 DEF Fits
<1>10. /\ Registry!Held(q) = Registry!Held(es) \cup {s}
       /\ Registry!Tokens(q) = Registry!Tokens(es) \cup {x}
  <2>1. Registry!Held(q) = {q[k].session : k \in 1..l} \cup {q[l + 1].session}
    BY <1>3, <1>4 DEF Registry!Held
  <2>2. Registry!Tokens(q) = {q[k].token : k \in 1..l} \cup {q[l + 1].token}
    BY <1>3, <1>4 DEF Registry!Tokens
  <2>3. {q[k].session : k \in 1..l} = {es[k].session : k \in 1..l}
    BY <1>3
  <2>4. {q[k].token : k \in 1..l} = {es[k].token : k \in 1..l}
    BY <1>3
  <2>5. q[l + 1].session = s /\ q[l + 1].token = x
    BY <1>2, <1>3
  <2> QED BY <2>1, <2>2, <2>3, <2>4, <2>5 DEF Registry!Held, Registry!Tokens
<1> QED BY <1>8, <1>10 DEF q

(* What is left when the oldest entries are evicted. *)
LEMMA SuffixFits ==
    ASSUME NEW n \in Nat, NEW d \in Nat, NEW t \in Nat, NEW es, Fits(es, n, d, t),
           NEW m \in 0..Len(es)
    PROVE  LET q == SubSeq(es, m + 1, Len(es)) IN
           /\ Fits(q, Len(es) - m, d, t)
           /\ Registry!Held(q) \subseteq Registry!Held(es)
           /\ \A k \in 1..m : es[k].token \notin Registry!Tokens(q)
           /\ Registry!Tokens(q) \subseteq Registry!Tokens(es)
<1> DEFINE q == SubSeq(es, m + 1, Len(es))
           l == Len(es) - m
<1>1. es \in Seq(Registry!Entries) /\ Len(es) \in Nat /\ m \in Nat /\ l \in Nat
  BY DEF Fits
<1>2. /\ q \in Seq(Registry!Entries) /\ Len(q) = l
      /\ \A k \in 1..l : q[k] = es[k + m]
  BY <1>1
<1>3. \A k \in 1..l : k + m \in 1..Len(es) /\ m < k + m
  BY <1>1
<1> HIDE DEF q
<1>4. ASSUME NEW j \in 1..l, NEW k \in 1..l, j < k
      PROVE  q[j].token # q[k].token /\ q[j].expires <= q[k].expires
  <2>1. j + m < k + m
    BY <1>1, <1>4
  <2> DEFINE a == j + m
             b == k + m
  <2>2. a \in 1..Len(es) /\ b \in 1..Len(es) /\ a < b /\ q[j] = es[a] /\ q[k] = es[b]
    BY <1>2, <1>3, <2>1
  <2> HIDE DEF a, b
  <2> QED BY <2>2 DEF Fits
<1>5. ASSUME NEW k \in 1..l PROVE q[k].token <= d /\ q[k].expires <= t + Ttl
  <2> DEFINE b == k + m
  <2>2. b \in 1..Len(es) /\ q[k] = es[b]
    BY <1>2, <1>3
  <2> HIDE DEF b
  <2> QED BY <2>2 DEF Fits
<1>6. Fits(q, l, d, t)
  BY <1>1, <1>2, <1>4, <1>5 DEF Fits
<1>7. Registry!Held(q) \subseteq Registry!Held(es)
  BY <1>2, <1>3 DEF Registry!Held
<1>8. Registry!Tokens(q) \subseteq Registry!Tokens(es)
  BY <1>2, <1>3 DEF Registry!Tokens
<1>9. ASSUME NEW k \in 1..m, NEW j \in 1..l PROVE es[k].token # q[j].token
  <2> DEFINE b == j + m
  <2>2. b \in 1..Len(es) /\ q[j] = es[b] /\ k < b /\ k \in 1..Len(es)
    BY <1>1, <1>2, <1>3
  <2> HIDE DEF b
  <2> QED BY <2>2 DEF Fits
<1>10. \A k \in 1..m : es[k].token \notin Registry!Tokens(q)
  BY <1>2, <1>9 DEF Registry!Tokens
<1> QED BY <1>6, <1>7, <1>8, <1>10 DEF q

(* Time and tokens only leave more room. *)
LEMMA MoreRoom ==
    ASSUME NEW n \in Nat, NEW d \in Nat, NEW t \in Nat, NEW es, Fits(es, n, d, t),
           NEW n2 \in Nat, NEW d2 \in Nat, NEW t2 \in Nat, n <= n2, d <= d2, t <= t2
    PROVE  Fits(es, n2, d2, t2)
<1>1. es \in Seq(Registry!Entries) /\ Len(es) \in Nat /\ Len(es) <= n
  BY DEF Fits
<1>2. ASSUME NEW k \in 1..Len(es) PROVE es[k].token <= d2 /\ es[k].expires <= t2 + Ttl
  <2>1. es[k] \in Registry!Entries
    BY <1>1
  <2>2. es[k].token \in Nat /\ es[k].expires \in Nat
    BY <2>1 DEF Registry!Entries
  <2> QED BY <2>2, RegistryFacts DEF Fits
<1> QED BY <1>1, <1>2 DEF Fits

(* Entries that have expired are dropped, and no others. *)
LEMMA UnexpiredFact ==
    ASSUME NEW n \in Nat, NEW d \in Nat, NEW t \in Nat, NEW es, Fits(es, n, d, t), now \in Nat
    PROVE  /\ Fits(Registry!Unexpired(es), n, d, t)
           /\ Registry!Held(Registry!Unexpired(es)) \subseteq Registry!Held(es)
           /\ \A x \in Registry!Tokens(Registry!Unexpired(es)) :
                 \E k \in 1..Len(es) : es[k].token = x /\ es[k].expires > now
<1> DEFINE P == {k \in 1..Len(es) : es[k].expires > now}
<1>1. P \in SUBSET (1..Len(es))
  OBVIOUS
<1>2. Registry!Unexpired(es) = Picked(es, P)
  BY RegistryPicks DEF Registry!Unexpired
<1>3. \A k \in P : k \in 1..Len(es) /\ es[k].expires > now
  OBVIOUS
<1> HIDE DEF P
<1>4. /\ Fits(Picked(es, P), n, d, t)
      /\ Registry!Held(Picked(es, P)) = HeldAt(es, P)
      /\ Registry!Tokens(Picked(es, P)) = TokensAt(es, P)
  BY <1>1, PickedFits
<1>5. HeldAt(es, P) \subseteq Registry!Held(es)
  BY <1>1 DEF Registry!Held, HeldAt
<1>6. ASSUME NEW x \in TokensAt(es, P)
      PROVE  \E k \in 1..Len(es) : es[k].token = x /\ es[k].expires > now
  <2>1. PICK k \in P : x = es[k].token
    BY DEF TokensAt
  <2> QED BY <1>3, <2>1
<1> QED BY <1>2, <1>4, <1>5, <1>6

(* Closing a handle drops its entry. *)
LEMMA WithoutFact ==
    ASSUME NEW n \in Nat, NEW d \in Nat, NEW t \in Nat, NEW es, Fits(es, n, d, t), NEW x
    PROVE  /\ Fits(Registry!Without(es, x), n, d, t)
           /\ Registry!Held(Registry!Without(es, x))
                = HeldAt(es, {j \in 1..Len(es) : es[j].token # x})
           /\ x \notin Registry!Tokens(Registry!Without(es, x))
<1> DEFINE P == {k \in 1..Len(es) : es[k].token # x}
<1>1. P \in SUBSET (1..Len(es))
  OBVIOUS
<1>2. Registry!Without(es, x) = Picked(es, P)
  BY RegistryPicks DEF Registry!Without
<1>3. \A k \in P : es[k].token # x
  OBVIOUS
<1> HIDE DEF P
<1>4. /\ Fits(Picked(es, P), n, d, t)
      /\ Registry!Held(Picked(es, P)) = HeldAt(es, P)
      /\ Registry!Tokens(Picked(es, P)) = TokensAt(es, P)
  BY <1>1, PickedFits
<1> QED BY <1>2, <1>3, <1>4 DEF P, TokensAt

(* A resolved entry is renewed at the end, for the same session. *)
LEMMA RenewedFact ==
    ASSUME NEW n \in Nat, NEW d \in Nat, NEW es, Fits(es, n, d, now), now \in Nat,
           NEW x \in Registry!Tokens(es)
    PROVE  /\ Fits(Registry!Renewed(es, x), n, d, now)
           /\ Registry!Held(Registry!Renewed(es, x)) = Registry!Held(es)
<1> DEFINE P == {k \in 1..Len(es) : es[k].token = x}
           O == {k \in 1..Len(es) : es[k].token # x}
           mine == Picked(es, P)
           rest == Registry!Without(es, x)
<1>1. es \in Seq(Registry!Entries) /\ Len(es) \in Nat /\ Len(es) <= n
  BY DEF Fits
<1>2. PICK i \in 1..Len(es) : es[i].token = x
  BY DEF Registry!Tokens
<1>3. P = {i}
  <2>1. ASSUME NEW k \in 1..Len(es), es[k].token = x PROVE k = i
    <3>1. ~(k < i) /\ ~(i < k)
      BY <1>2, <2>1 DEF Fits
    <3> QED BY <1>1, <3>1
  <2> QED BY <1>2, <2>1
<1>4. Cardinality(P) = 1
  BY <1>3, FS_Singleton
<1>5. P \in SUBSET (1..Len(es)) /\ O \in SUBSET (1..Len(es))
  OBVIOUS
<1>6. O = (1..Len(es)) \ {i}
  <2>1. \A k \in 1..Len(es) : k \in O <=> k # i
    BY <1>3
  <2>2. O \subseteq 1..Len(es)
    OBVIOUS
  <2> HIDE DEF O
  <2> QED BY <2>1, <2>2
<1>7. Cardinality(O) = Len(es) - 1
  <2>1. /\ IsFiniteSet(1..Len(es))
        /\ Cardinality(1..Len(es)) = IF 1 > Len(es) THEN 0 ELSE Len(es) - 1 + 1
    BY <1>1, FS_Interval
  <2>2. Cardinality(1..Len(es)) = Len(es)
    BY <1>1, <2>1
  <2> HIDE DEF O
  <2> QED BY <1>6, <2>1, <2>2, <1>2, FS_RemoveElement
<1> HIDE DEF P, O, mine, rest
<1>8. /\ mine \in Seq(Registry!Entries) /\ Len(mine) = 1 /\ mine[1] = es[i]
  <2>1. /\ mine \in Seq(Registry!Entries) /\ Len(mine) = Cardinality(P)
        /\ \A k \in 1..Cardinality(P) : Nth(P, k) \in P /\ mine[k] = es[Nth(P, k)]
    BY <1>1, <1>5, PickedFact DEF mine
  <2>2. 1 \in 1..Cardinality(P)
    BY <1>4
  <2>3. Nth(P, 1) = i
    BY <1>3, <2>1, <2>2
  <2> QED BY <1>4, <2>1, <2>2, <2>3
<1>9. /\ Fits(rest, n, d, now) /\ x \notin Registry!Tokens(rest)
      /\ Registry!Held(rest) = HeldAt(es, O)
  BY WithoutFact DEF rest, O
<1>10. rest \in Seq(Registry!Entries) /\ Len(rest) = Len(es) - 1
  <2>1. rest = Picked(es, O)
    BY RegistryPicks DEF rest, O, Registry!Without
  <2> QED BY <1>1, <1>5, <1>7, <2>1, PickedFact
<1>11. PICK m \in Nat : Len(rest) = m /\ m + 1 <= n
  <2>1. Len(rest) \in Nat
    BY <1>10
  <2> QED BY <1>1, <1>10, <2>1
<1>12. Fits(rest, m, d, now)
  BY <1>9, <1>11 DEF Fits
<1> DEFINE s == es[i].session
           e == [token |-> x, session |-> s, expires |-> now + Ttl]
<1>13. es[i] \in Registry!Entries
  BY <1>1, <1>2
<1>14. s \in Sessions /\ x \in 1..MaxTokens /\ x <= d
  BY <1>2, <1>13 DEF Registry!Entries, Fits
<1>15. e = Registry!Entry(x, s) /\ e \in Registry!Entries
  BY <1>14, RegistryFacts DEF Registry!Entry, Registry!Entries
<1> HIDE DEF s
<1>16. Registry!Renewed(es, x) = Append(rest, e)
  <2>1. Registry!Renewed(es, x)
          = rest \o [k \in 1..Len(mine) |-> Registry!Entry(x, mine[k].session)]
    BY RegistryPicks DEF Registry!Renewed, mine, rest, P
  <2>2. [k \in 1..Len(mine) |-> Registry!Entry(x, mine[k].session)] = [k \in 1..1 |-> e]
    <3>1. \A k \in 1..1 : Registry!Entry(x, mine[k].session) = e
      BY <1>8, <1>15 DEF s
    <3> HIDE DEF e
    <3> QED BY <1>8, <3>1
  <2> HIDE DEF e
  <2>3. [k \in 1..1 |-> e] = <<e>>
    OBVIOUS
  <2>4. rest \o <<e>> = Append(rest, e)
    BY <1>10, <1>15
  <2> QED BY <2>1, <2>2, <2>3, <2>4
<1>17. /\ Fits(Append(rest, e), m + 1, d, now)
       /\ Registry!Held(Append(rest, e)) = Registry!Held(rest) \cup {s}
  <2> SUFFICES ASSUME NEW ee, ee = e
               PROVE  /\ Fits(Append(rest, ee), m + 1, d, now)
                      /\ Registry!Held(Append(rest, ee)) = Registry!Held(rest) \cup {s}
    OBVIOUS
  <2> QED BY <1>9, <1>12, <1>14, AppendFits
<1>18. Fits(Append(rest, e), n, d, now)
  <2>1. m + 1 \in Nat
    OBVIOUS
  <2> HIDE DEF e
  <2> QED BY <1>11, <1>17, <2>1, MoreRoom
<1>19. Registry!Held(es) = HeldAt(es, O) \cup {s}
  <2>1. 1..Len(es) = O \cup {i}
    BY <1>2, <1>6
  <2> QED BY <2>1 DEF Registry!Held, HeldAt, s
<1> HIDE DEF e
<1> QED BY <1>9, <1>16, <1>17, <1>18, <1>19

(* A dropped session is closed, the others stay as they were. *)
LEMMA ReleaseKeepsClosed ==
    ASSUME Registry!ClosedIffUnheld, NEW kept,
           Registry!Held(kept) \subseteq Registry!Held(entries),
           Registry!Held(entries') = Registry!Held(kept), handles' = handles,
           closed' = closed \cup Registry!Released(entries, kept)
    PROVE  Registry!ClosedIffUnheld'
<1>1. ASSUME NEW h \in handles
      PROVE  h.session \in closed' <=> h.session \notin Registry!Held(entries')
  BY <1>1 DEF Registry!ClosedIffUnheld, Registry!Released
<1>2. Registry!ClosedIffUnheld' <=>
        \A h \in handles' : h.session \in closed' <=> h.session \notin Registry!Held(entries')
  BY DEF Registry!ClosedIffUnheld, Registry!Held
<1> QED BY <1>1, <1>2

(* What a state of the registry gives. *)
LEMMA RegistryState ==
    ASSUME RegistryIInv
    PROVE  /\ now \in Nat /\ drawn \in Nat /\ drawn <= MaxTokens
           /\ closed \in SUBSET Sessions
           /\ Fits(entries, MaxSessions, drawn, now)
BY RegistryFacts DEF RegistryIInv, Registry!TypeOK

(* The parts of the invariant after a step that only drops or renews entries. *)
LEMMA RegistryStep ==
    ASSUME RegistryIInv, Fits(entries', MaxSessions, drawn, now), NEW kept,
           Registry!Held(kept) \subseteq Registry!Held(entries),
           Registry!Held(entries') = Registry!Held(kept),
           closed' = closed \cup Registry!Released(entries, kept),
           UNCHANGED <<now, drawn, handles>>,
           adapters' \in SUBSET [token : 1..MaxTokens, session : Sessions],
           operators' \in BOOLEAN
    PROVE  RegistryIInv'
<1>1. Registry!ClosedIffUnheld'
  BY ReleaseKeepsClosed DEF RegistryIInv
<1>2. Registry!Held(entries) \subseteq Sessions
  <2>1. \A k \in 1..Len(entries) : entries[k] \in Registry!Entries
    BY DEF RegistryIInv, Fits
  <2> QED BY <2>1 DEF Registry!Held, Registry!Entries
<1>3. closed' \in SUBSET Sessions
  BY <1>2, RegistryState DEF Registry!Released
<1>4. entries' \in Seq(Registry!Entries)
  BY DEF Fits
<1>5. Registry!TypeOK'
  BY <1>3, <1>4 DEF RegistryIInv, Registry!TypeOK
<1>6. Fits(entries, MaxSessions, drawn, now)'
  BY DEF Fits
<1> QED BY <1>1, <1>5, <1>6 DEF RegistryIInv

(* resolve. *)
LEMMA ResolveFact ==
    ASSUME RegistryIInv, NEW x, Registry!Resolve(x)
    PROVE  /\ Fits(entries', MaxSessions, drawn, now)
           /\ Registry!Held(entries') = Registry!Held(Registry!Unexpired(entries))
           /\ Registry!Held(Registry!Unexpired(entries)) \subseteq Registry!Held(entries)
           /\ closed' = closed \cup Registry!Released(entries, Registry!Unexpired(entries))
           /\ UNCHANGED <<now, drawn, handles>>
<1> DEFINE live == Registry!Unexpired(entries)
<1>1. /\ now \in Nat /\ drawn \in Nat /\ MaxSessions \in Nat
      /\ Fits(entries, MaxSessions, drawn, now)
  BY RegistryState, RegistryFacts
<1>2. /\ Fits(live, MaxSessions, drawn, now)
      /\ Registry!Held(live) \subseteq Registry!Held(entries)
  BY <1>1, UnexpiredFact
<1>3. /\ entries' = IF x \in Registry!Tokens(live) THEN Registry!Renewed(live, x) ELSE live
      /\ closed' = closed \cup Registry!Released(entries, live)
      /\ UNCHANGED <<now, drawn, handles>>
  BY DEF Registry!Resolve, Registry!CloseResources
<1> HIDE DEF live
<1>4. /\ Fits(entries', MaxSessions, drawn, now)
      /\ Registry!Held(entries') = Registry!Held(live)
  <2>1. CASE x \in Registry!Tokens(live)
    BY <1>1, <1>2, <1>3, <2>1, RenewedFact
  <2>2. CASE x \notin Registry!Tokens(live)
    BY <1>2, <1>3, <2>2
  <2> QED BY <2>1, <2>2
<1> QED BY <1>2, <1>3, <1>4 DEF live

(* resolve keeps the invariant, whatever the handle does with the session. *)
LEMMA ResolveKeeps ==
    ASSUME RegistryIInv, NEW x, Registry!Resolve(x),
           adapters' \in SUBSET [token : 1..MaxTokens, session : Sessions],
           operators' \in BOOLEAN
    PROVE  RegistryIInv'
<1> DEFINE live == Registry!Unexpired(entries)
<1>1. /\ Fits(entries', MaxSessions, drawn, now)
      /\ Registry!Held(entries') = Registry!Held(live)
      /\ Registry!Held(live) \subseteq Registry!Held(entries)
      /\ closed' = closed \cup Registry!Released(entries, live)
      /\ UNCHANGED <<now, drawn, handles>>
  BY ResolveFact
<1> HIDE DEF live
<1> QED BY <1>1, RegistryStep

(* close, through a task or a host handle. *)
LEMMA CloseKeeps ==
    ASSUME RegistryIInv, NEW x, Registry!Close(x),
           adapters' \in SUBSET [token : 1..MaxTokens, session : Sessions],
           operators' \in BOOLEAN
    PROVE  RegistryIInv'
<1> DEFINE kept == Registry!Without(entries, x)
<1>1. /\ now \in Nat /\ drawn \in Nat /\ MaxSessions \in Nat
      /\ Fits(entries, MaxSessions, drawn, now)
  BY RegistryState, RegistryFacts
<1>2. /\ Fits(kept, MaxSessions, drawn, now)
      /\ Registry!Held(kept) = HeldAt(entries, {j \in 1..Len(entries) : entries[j].token # x})
  BY <1>1, WithoutFact
<1>3. Registry!Held(kept) \subseteq Registry!Held(entries)
  BY <1>2 DEF Registry!Held, HeldAt
<1>4. /\ entries' = kept /\ closed' = closed \cup Registry!Released(entries, kept)
      /\ UNCHANGED <<now, drawn, handles>>
  BY DEF Registry!Close, Registry!CloseResources
<1> HIDE DEF kept
<1> QED BY <1>2, <1>3, <1>4, RegistryStep

(* close_all. *)
LEMMA CloseAllKeeps == RegistryIInv /\ Registry!CloseAll => RegistryIInv'
<1> SUFFICES ASSUME RegistryIInv, Registry!CloseAll PROVE RegistryIInv'
  OBVIOUS
<1>1. Registry!Held(<<>>) = {}
  BY DEF Registry!Held
<1>2. Fits(<<>>, MaxSessions, drawn, now)
  BY RegistryFacts DEF Fits
<1>3. /\ entries' = <<>> /\ closed' = closed \cup Registry!Released(entries, <<>>)
      /\ UNCHANGED <<now, drawn, adapters, operators, handles>>
  BY <1>1 DEF Registry!CloseAll, Registry!CloseResources, Registry!Released
<1>4. /\ adapters' \in SUBSET [token : 1..MaxTokens, session : Sessions]
      /\ operators' \in BOOLEAN
  BY <1>3 DEF RegistryIInv, Registry!TypeOK
<1>5. Fits(entries', MaxSessions, drawn, now)
  BY <1>2, <1>3
<1>6. Registry!Held(<<>>) \subseteq Registry!Held(entries)
  BY <1>1
<1> QED BY <1>3, <1>4, <1>5, <1>6, RegistryStep

(* register. *)
LEMMA RegisterKeeps ==
    ASSUME RegistryIInv, NEW s \in Sessions, Registry!BeginTask(s)
    PROVE  RegistryIInv'
<1> DEFINE live == Registry!Unexpired(entries)
           m == Registry!Excess(live)
           kept == SubSeq(live, m + 1, Len(live))
           token == Registry!TokenFor(live, drawn + 1)
           e == Registry!Entry(token, s)
<1>1. /\ now \in Nat /\ drawn \in Nat /\ MaxSessions \in Nat \ {0}
      /\ Fits(entries, MaxSessions, drawn, now)
  BY RegistryState, RegistryFacts
<1>2. /\ Fits(live, MaxSessions, drawn, now)
      /\ Registry!Held(live) \subseteq Registry!Held(entries)
  BY <1>1, UnexpiredFact
<1>3. /\ drawn < MaxTokens /\ drawn' = drawn + 1
      /\ entries' = Append(kept, e)
      /\ handles' = handles \cup {[token |-> token, session |-> s]}
      /\ closed' = (closed \cup Registry!Released(entries, kept)) \ {s}
      /\ UNCHANGED <<now, adapters, operators>>
  BY DEF Registry!BeginTask, Registry!Register
<1> HIDE DEF live
<1>4. live \in Seq(Registry!Entries) /\ Len(live) \in Nat /\ Len(live) <= MaxSessions
  BY <1>2 DEF Fits
<1>5. /\ m \in 0..Len(live) /\ Len(live) - m + 1 <= MaxSessions
      /\ m # 0 => m \in 1..Len(live)
  BY <1>1, <1>4 DEF Registry!Excess
<1> DEFINE l == Len(live) - m
<1>6. l \in Nat /\ l + 1 <= MaxSessions
  BY <1>4, <1>5
<1>7. /\ Fits(kept, l, drawn, now)
      /\ Registry!Held(kept) \subseteq Registry!Held(live)
      /\ \A k \in 1..m : live[k].token \notin Registry!Tokens(kept)
      /\ Registry!Tokens(kept) \subseteq Registry!Tokens(live)
  BY <1>1, <1>2, <1>5, SuffixFits
<1>8. \A x \in Registry!Tokens(live) : x \in 1..MaxTokens /\ x <= drawn
  <2>1. ASSUME NEW k \in 1..Len(live)
        PROVE  live[k].token \in 1..MaxTokens /\ live[k].token <= drawn
    <3>1. live[k] \in Registry!Entries
      BY <1>4
    <3>2. live[k].token <= drawn
      BY <1>2 DEF Fits
    <3> QED BY <3>1, <3>2 DEF Registry!Entries
  <2> QED BY <2>1 DEF Registry!Tokens
<1> DEFINE d == drawn + 1
<1>9. d \in Nat /\ drawn <= d /\ d \in 1..MaxTokens /\ \A x \in 1..MaxTokens : x <= drawn => x <= d
  <2>1. MaxTokens \in Nat
    BY RegistryFacts
  <2> QED BY <1>1, <1>3, <2>1
<1>10. token \in 1..MaxTokens /\ token <= d /\ token \notin Registry!Tokens(kept)
  <2>1. CASE m = 0
    <3>1. token = d
      BY <2>1 DEF Registry!TokenFor
    <3>2. d \notin Registry!Tokens(live)
      BY <1>1, <1>8
    <3> QED BY <1>7, <1>9, <3>1, <3>2
  <2>2. CASE m # 0
    <3>1. token = live[m].token /\ m \in 1..Len(live) /\ m \in 1..m
      BY <1>5, <2>2 DEF Registry!TokenFor
    <3>2. token \in Registry!Tokens(live)
      BY <3>1 DEF Registry!Tokens
    <3> HIDE DEF token, m, d
    <3> QED BY <1>7, <1>8, <1>9, <3>1, <3>2
  <2> QED BY <2>1, <2>2
<1>11. e = [token |-> token, session |-> s, expires |-> now + Ttl]
  BY DEF Registry!Entry
<1> HIDE DEF m, kept, token, e, l, d
<1>12. Fits(kept, l, d, now)
  BY <1>1, <1>6, <1>7, <1>9, MoreRoom
<1>13. /\ Fits(Append(kept, e), l + 1, d, now)
       /\ Registry!Held(Append(kept, e)) = Registry!Held(kept) \cup {s}
  BY <1>1, <1>6, <1>9, <1>10, <1>11, <1>12, AppendFits
<1>14. Fits(Append(kept, e), MaxSessions, d, now)
  <2>1. l + 1 \in Nat /\ d <= d /\ now <= now
    BY <1>1, <1>6, <1>9
  <2> QED BY <1>1, <1>6, <1>9, <1>13, <2>1, MoreRoom
<1>15. Fits(entries, MaxSessions, drawn, now)'
  <2>1. Fits(entries', MaxSessions, drawn', now')
    BY <1>3, <1>14 DEF d
  <2> QED BY <2>1 DEF Fits
<1>16. ASSUME NEW h \in handles'
       PROVE  h.session \in closed' <=> h.session \notin Registry!Held(entries')
  <2>1. Registry!Held(entries') = Registry!Held(kept) \cup {s}
    BY <1>3, <1>13
  <2>2. CASE h.session = s
    BY <1>3, <2>1, <2>2
  <2>3. CASE h.session # s
    <3>1. h \in handles
      BY <1>3, <1>16, <2>3
    <3>2. h.session \in closed <=> h.session \notin Registry!Held(entries)
      BY <3>1 DEF RegistryIInv, Registry!ClosedIffUnheld
    <3> QED BY <1>2, <1>3, <1>7, <2>1, <2>3, <3>2 DEF Registry!Released
  <2> QED BY <2>2, <2>3
<1>17. Registry!ClosedIffUnheld'
  <2>1. Registry!ClosedIffUnheld' <=>
        \A h \in handles' : h.session \in closed' <=> h.session \notin Registry!Held(entries')
    BY DEF Registry!ClosedIffUnheld, Registry!Held
  <2> QED BY <1>16, <2>1
<1>18. Registry!TypeOK'
  <2>1. Registry!Held(entries) \subseteq Sessions
    <3>1. \A k \in 1..Len(entries) : entries[k] \in Registry!Entries
      BY <1>1 DEF Fits
    <3> QED BY <3>1 DEF Registry!Held, Registry!Entries
  <2>2. closed' \in SUBSET Sessions
    BY <1>3, <2>1, RegistryState DEF Registry!Released
  <2>3. entries' \in Seq(Registry!Entries)
    BY <1>15 DEF Fits
  <2>4. drawn' \in 0..MaxTokens
    BY <1>1, <1>3, RegistryFacts
  <2>5. handles' \in SUBSET [token : 1..MaxTokens, session : Sessions]
    BY <1>3, <1>10 DEF RegistryIInv, Registry!TypeOK
  <2>6. /\ now' \in 0..MaxTime /\ operators' \in BOOLEAN
        /\ adapters' \in SUBSET [token : 1..MaxTokens, session : Sessions]
    BY <1>3 DEF RegistryIInv, Registry!TypeOK
  <2> QED BY <2>2, <2>3, <2>4, <2>5, <2>6 DEF Registry!TypeOK
<1> QED BY <1>15, <1>17, <1>18 DEF RegistryIInv

(* Every step of the registry keeps its invariant. *)
LEMMA RegistryNextKeeps == RegistryIInv /\ [Registry!Next]_(Registry!vars) => RegistryIInv'
<1> SUFFICES ASSUME RegistryIInv, [Registry!Next]_(Registry!vars) PROVE RegistryIInv'
  OBVIOUS
<1>0. /\ adapters \in SUBSET [token : 1..MaxTokens, session : Sessions]
      /\ handles \in SUBSET [token : 1..MaxTokens, session : Sessions]
      /\ operators \in BOOLEAN
  BY DEF RegistryIInv, Registry!TypeOK
<1>1. ASSUME NEW s \in Sessions, Registry!BeginTask(s) PROVE RegistryIInv'
  BY <1>1, RegisterKeeps
<1>2. CASE Registry!BeginTaskFails
  BY <1>2 DEF Registry!BeginTaskFails, RegistryIInv, Registry!TypeOK, Fits,
              Registry!ClosedIffUnheld, Registry!Held
<1>3. ASSUME NEW t, Registry!CallHandle(t) PROVE RegistryIInv'
  <2>1. Registry!Resolve(t) /\ adapters' = adapters /\ operators' = operators
    BY <1>3 DEF Registry!CallHandle
  <2> QED BY <1>0, <2>1, ResolveKeeps
<1>4. ASSUME NEW t, Registry!CloseHandle(t) PROVE RegistryIInv'
  <2>1. Registry!Close(t) /\ adapters' = adapters /\ operators' = operators
    BY <1>4 DEF Registry!CloseHandle
  <2> QED BY <1>0, <2>1, CloseKeeps
<1>5. ASSUME NEW h \in handles, Registry!CreateComponentAdapter(h) PROVE RegistryIInv'
  <2>1. Registry!Resolve(h.token) /\ operators' = operators
    BY <1>5 DEF Registry!CreateComponentAdapter
  <2>2. Fits(entries', MaxSessions, drawn, now)
    BY <2>1, ResolveFact
  <2>3. \A k \in 1..Len(entries') : entries'[k] \in Registry!Entries
    BY <2>2 DEF Fits
  <2>4. \A k \in 1..Len(entries') : entries'[k].session \in Sessions
    BY <2>3 DEF Registry!Entries
  <2>5. h.token \in 1..MaxTokens
    BY <1>0
  <2>6. adapters' \in SUBSET [token : 1..MaxTokens, session : Sessions]
    BY <1>0, <1>5, <2>4, <2>5 DEF Registry!CreateComponentAdapter
  <2> QED BY <1>0, <2>1, <2>6, ResolveKeeps
<1>6. ASSUME NEW h \in handles, Registry!CloseTask(h) PROVE RegistryIInv'
  <2>1. /\ Registry!Close(h.token) /\ operators' = operators
        /\ adapters' = {d \in adapters : d.token # h.token}
    BY <1>6 DEF Registry!CloseTask
  <2>2. adapters' \in SUBSET [token : 1..MaxTokens, session : Sessions]
    BY <1>0, <2>1
  <2> QED BY <1>0, <2>1, <2>2, CloseKeeps
<1>7. CASE Registry!CloseAll
  BY <1>7, CloseAllKeeps
<1>8. CASE Registry!Tick
  <2>1. /\ now' = now + 1 /\ now' \in 0..MaxTime
        /\ UNCHANGED <<entries, drawn, adapters, operators, handles, closed>>
    BY <1>8, RegistryState, RegistryFacts DEF Registry!Tick
  <2>2. Fits(entries, MaxSessions, drawn, now')
    <3>1. now \in Nat /\ now' \in Nat /\ now <= now' /\ drawn \in Nat /\ drawn <= drawn
      BY <2>1, RegistryState
    <3>2. MaxSessions \in Nat /\ MaxSessions <= MaxSessions
      BY RegistryFacts
    <3> QED BY <3>1, <3>2, RegistryState, MoreRoom
  <2>3. Fits(entries, MaxSessions, drawn, now)'
    BY <2>1, <2>2 DEF Fits
  <2>4. Registry!ClosedIffUnheld'
    BY <2>1 DEF RegistryIInv, Registry!ClosedIffUnheld, Registry!Held
  <2>5. Registry!TypeOK'
    BY <2>1 DEF RegistryIInv, Registry!TypeOK
  <2> QED BY <2>3, <2>4, <2>5 DEF RegistryIInv
<1>9. CASE UNCHANGED Registry!vars
  BY <1>9 DEF Registry!vars, RegistryIInv, Registry!TypeOK, Fits,
              Registry!ClosedIffUnheld, Registry!Held
<1> QED
  BY <1>1, <1>2, <1>3, <1>4, <1>5, <1>6, <1>7, <1>8, <1>9 DEF Registry!Next

(* A new registry is empty. *)
LEMMA RegistryInitially == Registry!Init => RegistryIInv
<1> SUFFICES ASSUME Registry!Init PROVE RegistryIInv
  OBVIOUS
<1>1. /\ entries = <<>> /\ now = 0 /\ drawn = 0 /\ handles = {} /\ closed = {}
      /\ adapters = {} /\ operators = TRUE
  BY DEF Registry!Init
<1>2. Fits(entries, MaxSessions, drawn, now)
  BY <1>1, RegistryFacts DEF Fits
<1>3. Registry!TypeOK
  BY <1>1, RegistryFacts DEF Registry!TypeOK
<1>4. Registry!ClosedIffUnheld
  BY <1>1 DEF Registry!ClosedIffUnheld
<1> QED BY <1>2, <1>3, <1>4 DEF RegistryIInv

(* In every state the registry holds at most max_sessions entries, one per token and in
   the order they expire, and a session that was registered is closed exactly when no
   entry holds it (register, resolve, close, close_all). *)
THEOREM RegistryKeepsItsSessions == Registry!Spec => []RegistryInv
<1>1. RegistryIInv => RegistryInv
  BY DEF RegistryIInv, RegistryInv, Registry!BoundedAndOrdered, Fits
<1> QED BY <1>1, RegistryInitially, RegistryNextKeeps, PTL DEF Registry!Spec

(* No call is served from an entry that has outlived its time to live: every lookup
   drops the expired entries first (_expire_locked). *)
THEOREM ServesOnlyLiveSessions == Registry!Spec => NoExpiredSessionServed
<1>1. ASSUME RegistryIInv PROVE Registry!ServedIsLive
  <2> SUFFICES ASSUME NEW t \in Registry!IssuedTokens, Registry!CallHandle(t),
                      t \in Registry!Tokens(entries')
               PROVE  \E k \in 1..Len(entries) :
                         entries[k].token = t /\ entries[k].expires > now
    BY DEF Registry!ServedIsLive, Registry!Tokens
  <2> DEFINE live == Registry!Unexpired(entries)
  <2>1. entries' = IF t \in Registry!Tokens(live) THEN Registry!Renewed(live, t) ELSE live
    BY DEF Registry!CallHandle, Registry!Resolve
  <2>2. t \in Registry!Tokens(live)
    BY <2>1
  <2>3. /\ now \in Nat /\ drawn \in Nat /\ MaxSessions \in Nat
        /\ Fits(entries, MaxSessions, drawn, now)
    BY <1>1, RegistryState, RegistryFacts
  <2> QED BY <2>2, <2>3, UnexpiredFact
<1>2. Registry!Spec => []RegistryIInv
  BY RegistryInitially, RegistryNextKeeps, PTL DEF Registry!Spec
<1>3. RegistryIInv => [Registry!ServedIsLive]_registryVars
  BY <1>1
<1> QED BY <1>2, <1>3, PTL DEF NoExpiredSessionServed

(***************************************************************************)
(* The operator read model                                                 *)
(***************************************************************************)
(* The largest stored sequence, and the sequences the retention keeps below h. *)
Top(D) == IF D = {} THEN 0 ELSE CHOOSE n \in D : \A k \in D : k <= n
Window(h) == {k \in 1..h : k + Retention > h}

Water == Top(DOMAIN rows)

OpEvents == [seq : Nat \ {0}, event : Nat \ {0}]
Subscriptions ==
    [at : {"away", "waiting", "backlog", "resync"}, registered : BOOLEAN, after : Nat,
     queue : Seq(OpEvents), backlog : Seq(OpEvents), shown : SUBSET OpEvents,
     missed : BOOLEAN]

(* The stored sequences are the last ones up to the watermark, and each row is an
   accepted event. *)
RowsInv ==
    /\ Water \in 0..emitted
    /\ DOMAIN rows = Window(Water)
    /\ \A n \in DOMAIN rows : [seq |-> n, event |-> rows[n]] \in accepted

(* An event's sequence is at most one beyond the watermark: it was read from it, and
   the watermark never falls. *)
EventsInv ==
    /\ emitted \in 0..MaxEvents
    /\ accepted \in SUBSET OpEvents
    /\ \A e \in accepted : e.seq <= emitted /\ e.event <= emitted /\ e.seq <= Water + 1
    /\ queue \in Seq(OpEvents \cup {Op!Sentinel})
    /\ Len(queue) <= QueueSize
    /\ \A i \in 1..Len(queue) : queue[i] = Op!Sentinel \/ queue[i] \in accepted
    /\ pending \in [Emitters -> Nat]
    /\ \A m \in Emitters : /\ pending[m] <= Water + 1 /\ pending[m] <= emitted + 1
                           /\ pending[m] <= MaxEvents

ClientsInv ==
    /\ sub \in [Subscribers -> Subscriptions]
    /\ \A u \in Subscribers : Len(sub[u].queue) <= Retention

(* The inductive invariant of the read model. *)
OperatorIInv ==
    RowsInv /\ EventsInv /\ ClientsInv /\ Op!NoSilentGap /\ Op!LostOnlyToReuse

LEMMA OperatorFacts ==
    Retention \in Nat \ {0} /\ QueueSize \in Nat \ {0} /\ MaxEvents \in Nat
BY OperatorAssumption DEF Op!OperatorConstants

LEMMA WatermarkIsTop == Op!HighWatermark = Water
BY DEF Op!HighWatermark, Water, Top

(* The window ends at its watermark. *)
LEMMA WindowTop ==
    ASSUME NEW h \in Nat
    PROVE  /\ Top(Window(h)) = h
           /\ h > 0 => h \in Window(h)
           /\ \A k \in Window(h) : k \in 1..h
<1>1. CASE h = 0
  <2>1. 1..h = {}
    BY <1>1
  <2>2. Window(h) = {}
    BY <2>1 DEF Window
  <2> QED BY <1>1, <2>1, <2>2 DEF Top
<1>2. CASE h > 0
  <2>1. h \in Window(h) /\ \A k \in Window(h) : k \in 1..h /\ k <= h
    BY <1>2, OperatorFacts DEF Window
  <2> DEFINE t == CHOOSE n \in Window(h) : \A k \in Window(h) : k <= n
  <2>2. t \in Window(h) /\ \A k \in Window(h) : k <= t
    BY <2>1
  <2>3. Top(Window(h)) = t
    BY <2>1 DEF Top
  <2> HIDE DEF t
  <2>4. t <= h /\ h <= t /\ t \in 1..h
    BY <2>1, <2>2
  <2>5. t = h
    BY <2>4
  <2> QED BY <2>1, <2>3, <2>5
<1> QED BY <1>1, <1>2

(* A stored event either extends the window by one or changes no row. *)
LEMMA StoredFact ==
    ASSUME NEW h \in Nat, DOMAIN rows = Window(h), NEW e \in OpEvents, e.seq <= h + 1
    PROVE  LET n == IF e.seq = h + 1 THEN h + 1 ELSE h IN
           /\ DOMAIN Op!Stored(e) = Window(n)
           /\ \A k \in Window(n) : Op!Stored(e)[k] = IF k = h + 1 THEN e.event ELSE rows[k]
           /\ \A k \in Window(n) : k # h + 1 => k \in DOMAIN rows
<1> DEFINE n == IF e.seq = h + 1 THEN h + 1 ELSE h
           all == DOMAIN rows \cup {e.seq}
           top == CHOOSE x \in all : \A k \in all : k <= x
<1>1. e.seq \in Nat \ {0}
  BY DEF OpEvents
<1>2. \A k \in Window(h) : k \in 1..h
  BY WindowTop
<1>3. n \in Nat /\ n \in all /\ \A k \in all : k \in 1..n
  <2>1. CASE e.seq = h + 1
    BY <1>1, <1>2, <2>1
  <2>2. CASE e.seq # h + 1
    <3>1. e.seq \in 1..h /\ h > 0
      BY <1>1, <2>2
    <3>2. h \in Window(h)
      BY <3>1, WindowTop
    <3> QED BY <1>2, <2>2, <3>1, <3>2
  <2> QED BY <2>1, <2>2
<1>4. \A k \in all : k <= n
  BY <1>3
<1> HIDE DEF n
<1>5. top \in all /\ \A k \in all : k <= top
  <2> HIDE DEF all
  <2> QED BY <1>3, <1>4
<1>6. top = n
  <2> HIDE DEF all, top
  <2>1. top <= n /\ n <= top /\ top \in 1..n
    BY <1>3, <1>4, <1>5
  <2> QED BY <1>3, <2>1
<1>7. Op!Stored(e) = [k \in {x \in all : x + Retention > top} |->
                         IF k \in DOMAIN rows THEN rows[k] ELSE e.event]
  BY Zenon DEF Op!Stored
<1> HIDE DEF top
<1>8. {x \in all : x + Retention > top} = Window(n)
  <2>1. ASSUME NEW x \in all, x + Retention > n PROVE x \in Window(n)
    BY <1>3, <2>1 DEF Window
  <2>2. ASSUME NEW x \in Window(n) PROVE x \in all /\ x + Retention > n
    <3>1. x \in 1..n /\ x + Retention > n
      BY DEF Window
    <3>2. CASE x = e.seq
      BY <3>1, <3>2
    <3>3. CASE x # e.seq
      <4>1. x \in 1..h
        BY <1>1, <3>1, <3>3 DEF n
      <4>2. x + Retention > h
        BY <1>1, <3>1, <4>1, OperatorFacts DEF n
      <4>3. x \in Window(h)
        BY <4>1, <4>2 DEF Window
      <4> QED BY <3>1, <4>3
    <3> QED BY <3>2, <3>3
  <2> HIDE DEF all
  <2> QED BY <1>6, <2>1, <2>2
<1>9. ASSUME NEW k \in Window(n), k # h + 1 PROVE k \in DOMAIN rows
  <2>1. k \in all /\ k \in 1..n /\ k + Retention > n
    BY <1>8 , <1>6, <1>3 DEF Window
  <2>2. CASE k \in DOMAIN rows
    BY <2>2
  <2>3. CASE k = e.seq
    <3>1. n = h /\ k \in 1..h
      BY <1>1, <1>9, <2>1, <2>3 DEF n
    <3>2. k \in Window(h)
      BY <2>1, <3>1 DEF Window
    <3> QED BY <3>2
  <2> QED BY <2>1, <2>2, <2>3
<1>10. ASSUME NEW k \in Window(n)
       PROVE  Op!Stored(e)[k] = IF k = h + 1 THEN e.event ELSE rows[k]
  <2>1. Op!Stored(e)[k] = IF k \in DOMAIN rows THEN rows[k] ELSE e.event
    BY <1>7, <1>8
  <2>2. k = h + 1 => k \notin DOMAIN rows
    BY <1>2
  <2> QED BY <1>9, <2>1, <2>2
<1>11. DOMAIN Op!Stored(e) = Window(n)
  BY <1>7, <1>8
<1> QED BY <1>9, <1>10, <1>11 DEF n

(* No more rows than the retention. *)
LEMMA WindowBounded ==
    ASSUME NEW h \in Nat
    PROVE  IsFiniteSet(Window(h)) /\ Cardinality(Window(h)) <= Retention
<1> DEFINE low == h - Retention + 1
           I == low..h
<1>1. low \in Int /\ h \in Int /\ Retention \in Nat \ {0}
  BY OperatorFacts
<1>2. IsFiniteSet(I) /\ Cardinality(I) = IF low > h THEN 0 ELSE h - low + 1
  BY <1>1, FS_Interval
<1>3. Cardinality(I) = Retention
  BY <1>1, <1>2
<1>4. Window(h) \in SUBSET I
  BY <1>1 DEF Window
<1> HIDE DEF I
<1> QED BY <1>2, <1>3, <1>4, FS_Subset

(* The read model counts as this module does. *)
LEMMA OperatorCounts ==
    ASSUME NEW S
    PROVE  Op!Cardinality(S) = Cardinality(S) /\ \A n : Op!Nth(S, n) = Nth(S, n)
<1>1. Op!Cardinality(S) = Cardinality(S)
  BY DEF Op!Cardinality, Cardinality
<1>2. ASSUME NEW n PROVE Op!Nth(S, n) = Nth(S, n)
  BY DEF Op!Nth, Op!Cardinality, Nth, Cardinality
<1> QED BY <1>1, <1>2

(* What a sequence holds. *)
LEMMA RangeFact ==
    ASSUME NEW T, NEW s \in Seq(T)
    PROVE  /\ Op!Range(s) \subseteq T
           /\ \A i \in 1..Len(s) : s[i] \in Op!Range(s)
           /\ \A v \in Op!Range(s) : \E i \in 1..Len(s) : v = s[i]
BY DEF Op!Range

LEMMA TailFact ==
    ASSUME NEW T, NEW s \in Seq(T), s # <<>>
    PROVE  /\ Head(s) \in T /\ Tail(s) \in Seq(T) /\ Len(Tail(s)) = Len(s) - 1
           /\ Len(s) \in Nat \ {0} /\ Head(s) \in Op!Range(s)
           /\ Op!Range(s) \subseteq {Head(s)} \cup Op!Range(Tail(s))
           /\ Op!Range(Tail(s)) \subseteq Op!Range(s)
<1>1. /\ Len(s) \in Nat \ {0} /\ Head(s) = s[1] /\ Head(s) \in T /\ Tail(s) \in Seq(T)
      /\ Len(Tail(s)) = Len(s) - 1 /\ \A i \in 1..(Len(s) - 1) : Tail(s)[i] = s[i + 1]
  OBVIOUS
<1>2. ASSUME NEW v \in Op!Range(s) PROVE v = Head(s) \/ v \in Op!Range(Tail(s))
  <2>1. PICK i \in 1..Len(s) : v = s[i]
    BY RangeFact
  <2>2. CASE i = 1
    BY <1>1, <2>1, <2>2
  <2>3. CASE i # 1
    <3> DEFINE j == i - 1
    <3>1. j \in 1..(Len(s) - 1) /\ j + 1 = i
      BY <1>1, <2>3
    <3> HIDE DEF j
    <3>2. Tail(s)[j] = v /\ j \in 1..Len(Tail(s))
      BY <1>1, <2>1, <3>1
    <3> QED BY <1>1, <3>2, RangeFact
  <2> QED BY <2>2, <2>3
<1>3. ASSUME NEW v \in Op!Range(Tail(s)) PROVE v \in Op!Range(s)
  <2>1. PICK i \in 1..Len(Tail(s)) : v = Tail(s)[i]
    <3> DEFINE r == Tail(s)
    <3>1. r \in Seq(T) /\ v \in Op!Range(r)
      BY <1>1, <1>3
    <3> HIDE DEF r
    <3>2. \E i \in 1..Len(r) : v = r[i]
      BY <3>1, RangeFact
    <3> QED BY <3>2 DEF r
  <2> DEFINE j == i + 1
  <2>2. j \in 1..Len(s) /\ v = s[j]
    BY <1>1, <2>1
  <2> HIDE DEF j
  <2> QED BY <2>2, RangeFact
<1>4. Head(s) \in Op!Range(s)
  <2>1. 1 \in 1..Len(s)
    BY <1>1
  <2> QED BY <1>1, <2>1, RangeFact
<1> QED BY <1>1, <1>2, <1>3, <1>4

LEMMA AppendFact ==
    ASSUME NEW T, NEW s \in Seq(T), NEW e \in T
    PROVE  /\ Append(s, e) \in Seq(T) /\ Len(Append(s, e)) = Len(s) + 1 /\ Len(s) \in Nat
           /\ Op!Range(Append(s, e)) = Op!Range(s) \cup {e}
<1> DEFINE q == Append(s, e)
           l == Len(s)
<1>1. /\ l \in Nat /\ q \in Seq(T) /\ Len(q) = l + 1 /\ q[l + 1] = e
      /\ \A i \in 1..l : q[i] = s[i]
  OBVIOUS
<1>2. 1..(l + 1) = (1..l) \cup {l + 1}
  BY <1>1
<1> HIDE DEF q, l
<1>3. ASSUME NEW v \in Op!Range(q) PROVE v \in Op!Range(s) \cup {e}
  <2>1. PICK i \in 1..(l + 1) : v = q[i]
    BY <1>1, RangeFact
  <2> QED BY <1>1, <1>2, <2>1, RangeFact DEF l
<1>4. ASSUME NEW v \in Op!Range(s) \cup {e} PROVE v \in Op!Range(q)
  <2>1. CASE v = e
    <3>1. l + 1 \in 1..Len(q)
      BY <1>1, <1>2
    <3> QED BY <1>1, <2>1, <3>1, RangeFact
  <2>2. CASE v \in Op!Range(s)
    <3>1. PICK i \in 1..l : v = s[i]
      BY <2>2, RangeFact DEF l
    <3> QED BY <1>1, <1>2, <3>1, RangeFact
  <2> QED BY <2>1, <2>2
<1> QED BY <1>1, <1>3, <1>4 DEF q, l

(* A client misses no row of r after its sequence. *)
GapFree(s, r) ==
    (s.registered /\ s.at = "backlog" /\ ~s.missed) =>
        \A n \in DOMAIN r : n > s.after =>
            [seq |-> n, event |-> r[n]] \in s.shown \cup Op!Range(s.queue) \cup Op!Range(s.backlog)

LEMMA GapsAreClients == Op!NoSilentGap <=> \A u \in Subscribers : GapFree(sub[u], rows)
BY DEF Op!NoSilentGap, GapFree

(* The backlog holds every row after the client's sequence. *)
LEMMA BacklogFact ==
    ASSUME RowsInv, EventsInv, NEW after \in Nat
    PROVE  /\ Op!BacklogOf(after) \in Seq(OpEvents)
           /\ \A n \in DOMAIN rows : n > after =>
                 [seq |-> n, event |-> rows[n]] \in Op!Range(Op!BacklogOf(after))
<1> DEFINE later == {n \in DOMAIN rows : n > after}
           kept(n) == [seq |-> n, event |-> rows[n]]
           c == Cardinality(later)
           b == Op!BacklogOf(after)
<1>1. Water \in Nat /\ DOMAIN rows = Window(Water)
  BY DEF RowsInv, EventsInv
<1>2. IsFiniteSet(DOMAIN rows) /\ DOMAIN rows \subseteq Int
  BY <1>1, WindowBounded, WindowTop
<1>3. later \in SUBSET Int /\ IsFiniteSet(later)
  <2>1. later \in SUBSET (DOMAIN rows)
    OBVIOUS
  <2> HIDE DEF later
  <2> QED BY <1>2, <2>1, FS_Subset
<1>4. \A n \in later : kept(n) \in OpEvents
  BY DEF RowsInv, EventsInv
<1>5. \A n \in DOMAIN rows : n > after => n \in later
  OBVIOUS
<1>6. b = [i \in 1..c |-> kept(Nth(later, i))]
  <2>1. /\ Op!Cardinality(later) = Cardinality(later)
        /\ \A n : Op!Nth(later, n) = Nth(later, n)
    BY OperatorCounts
  <2>2. b = [i \in 1..Op!Cardinality(later) |-> [seq |-> Op!Nth(later, i), event |-> rows[Op!Nth(later, i)]]]
    BY DEF Op!BacklogOf
  <2> HIDE DEF later
  <2> QED BY <2>1, <2>2
<1> HIDE DEF later
<1>7. /\ c \in Nat /\ \A i \in 1..c : Nth(later, i) \in later
      /\ \A n \in later : \E i \in 1..c : Nth(later, i) = n
  BY <1>3, NthFact
<1> HIDE DEF c, b, kept
<1>8. b \in Seq(OpEvents) /\ Len(b) = c
  <2>1. \A i \in 1..c : kept(Nth(later, i)) \in OpEvents
    BY <1>4, <1>7
  <2> QED BY <1>6, <1>7, <2>1
<1>9. ASSUME NEW n \in later PROVE kept(n) \in Op!Range(b)
  <2>1. PICK i \in 1..c : Nth(later, i) = n
    BY <1>7
  <2>2. b[i] = kept(n) /\ i \in 1..Len(b)
    BY <1>6, <1>8, <2>1
  <2> QED BY <1>8, <2>2, RangeFact
<1> QED BY <1>5, <1>8, <1>9 DEF b, kept

(* A step of one client, or of none. *)
LEMMA ClientStep ==
    ASSUME OperatorIInv, UNCHANGED <<rows, queue, pending, emitted, accepted, failed>>,
           NEW u \in Subscribers, NEW s \in Subscriptions, Len(s.queue) <= Retention,
           GapFree(s, rows), sub' = [sub EXCEPT ![u] = s]
    PROVE  OperatorIInv'
<1>1. RowsInv' /\ EventsInv'
  BY DEF OperatorIInv, RowsInv, EventsInv, Water, Top
<1>2. ClientsInv'
  BY DEF OperatorIInv, ClientsInv
<1>3. Op!NoSilentGap'
  <2>1. \A v \in Subscribers : GapFree(sub'[v], rows')
    <3>1. \A v \in Subscribers : GapFree(sub[v], rows)
      BY GapsAreClients DEF OperatorIInv
    <3>2. \A v \in Subscribers : sub'[v] = IF v = u THEN s ELSE sub[v]
      BY DEF OperatorIInv, ClientsInv
    <3> QED BY <3>1, <3>2
  <2>2. Op!NoSilentGap' <=> \A v \in Subscribers : GapFree(sub'[v], rows')
    BY DEF Op!NoSilentGap, GapFree, Op!Range
  <2> QED BY <2>1, <2>2
<1>4. Op!LostOnlyToReuse'
  BY DEF OperatorIInv, Op!LostOnlyToReuse, Op!HighWatermark, Op!Range
<1> QED BY <1>1, <1>2, <1>3, <1>4 DEF OperatorIInv

(* What a state of the read model gives. *)
LEMMA OperatorState ==
    ASSUME OperatorIInv
    PROVE  /\ Water \in Nat /\ emitted \in Nat /\ Water <= emitted /\ emitted <= MaxEvents
           /\ DOMAIN rows = Window(Water)
           /\ accepted \in SUBSET OpEvents
           /\ queue \in Seq(OpEvents \cup {Op!Sentinel}) /\ Len(queue) \in Nat
           /\ Len(queue) <= QueueSize
           /\ pending \in [Emitters -> Nat]
           /\ sub \in [Subscribers -> Subscriptions]
           /\ \A u \in Subscribers : GapFree(sub[u], rows)
BY OperatorFacts, GapsAreClients DEF OperatorIInv, RowsInv, EventsInv, ClientsInv

(* stream, and a client that closes or is told to resync. *)
LEMMA ResetKeeps ==
    ASSUME OperatorIInv, NEW u \in Subscribers, NEW s \in Subscriptions,
           s.at # "backlog" \/ ~s.registered, Len(s.queue) <= Retention,
           UNCHANGED <<rows, queue, pending, emitted, accepted, failed>>,
           sub' = [sub EXCEPT ![u] = s]
    PROVE  OperatorIInv'
<1>1. GapFree(s, rows)
  BY DEF GapFree
<1> QED BY <1>1, ClientStep

LEMMA UnsubscribedFact ==
    /\ Op!Unsubscribed \in Subscriptions
    /\ Op!Unsubscribed.at = "away" /\ Op!Unsubscribed.queue = <<>>
    /\ Len(Op!Unsubscribed.queue) = 0
BY DEF Op!Unsubscribed, Subscriptions

LEMMA StreamKeeps ==
    ASSUME OperatorIInv, NEW u \in Subscribers, NEW after \in {0, Op!HighWatermark},
           Op!Stream(u, after)
    PROVE  OperatorIInv'
<1> DEFINE s == [Op!Unsubscribed EXCEPT !.at = "waiting", !.registered = TRUE, !.after = after]
<1>1. after \in Nat
  BY OperatorState, WatermarkIsTop
<1>2. s \in Subscriptions /\ s.at = "waiting" /\ Len(s.queue) = 0
  BY <1>1, UnsubscribedFact DEF Op!Unsubscribed, Subscriptions
<1>3. /\ sub' = [sub EXCEPT ![u] = s]
      /\ UNCHANGED <<rows, queue, pending, emitted, accepted, failed>>
  BY DEF Op!Stream
<1> HIDE DEF s
<1>4. s.at # "backlog" /\ Len(s.queue) <= Retention
  BY <1>2, OperatorFacts
<1> QED BY <1>2, <1>3, <1>4, ResetKeeps

LEMMA ReadBacklogKeeps ==
    ASSUME OperatorIInv, NEW u \in Subscribers, Op!ReadBacklog(u)
    PROVE  OperatorIInv'
<1> DEFINE s == sub[u]
           b == Op!BacklogOf(s.after)
           expired == DOMAIN rows # {} /\ s.after + 1 < Op!Lowest
           s1 == [s EXCEPT !.at = "resync"]
           s2 == [s EXCEPT !.at = "backlog", !.backlog = b]
<1>1. /\ s \in Subscriptions /\ Len(s.queue) <= Retention
      /\ sub' = [sub EXCEPT ![u] = IF expired THEN s1 ELSE s2]
      /\ UNCHANGED <<rows, queue, pending, emitted, accepted, failed>>
  BY OperatorState DEF Op!ReadBacklog, OperatorIInv, ClientsInv
<1> HIDE DEF expired, s
<1>2. CASE expired
  <2>1. s1 \in Subscriptions /\ s1.at = "resync" /\ s1.queue = s.queue
    BY <1>1 DEF Subscriptions
  <2>2. sub' = [sub EXCEPT ![u] = s1]
    BY <1>1, <1>2
  <2> HIDE DEF s1
  <2> QED BY <1>1, <2>1, <2>2, ResetKeeps
<1>3. CASE ~expired
  <2>1. s.after \in Nat
    BY <1>1 DEF Subscriptions
  <2>2. /\ b \in Seq(OpEvents)
        /\ \A n \in DOMAIN rows : n > s.after =>
              [seq |-> n, event |-> rows[n]] \in Op!Range(b)
    BY <2>1, BacklogFact DEF OperatorIInv
  <2> HIDE DEF b
  <2>3. /\ s2 \in Subscriptions /\ s2.queue = s.queue /\ s2.backlog = b
        /\ s2.after = s.after
    BY <1>1, <2>2 DEF Subscriptions
  <2>4. sub' = [sub EXCEPT ![u] = s2]
    BY <1>1, <1>3
  <2> HIDE DEF s2
  <2>5. GapFree(s2, rows)
    BY <2>2, <2>3 DEF GapFree
  <2> QED BY <1>1, <2>3, <2>4, <2>5, ClientStep
<1> QED BY <1>2, <1>3

LEMMA YieldBacklogKeeps ==
    ASSUME OperatorIInv, NEW u \in Subscribers, Op!YieldBacklog(u)
    PROVE  OperatorIInv'
<1> DEFINE s == sub[u]
           s1 == [s EXCEPT !.at = "resync"]
           s2 == [s EXCEPT !.queue = Append(@, Head(s.backlog)),
                           !.backlog = Tail(@), !.shown = @ \cup {Head(s.backlog)}]
<1>1. /\ s \in Subscriptions /\ Len(s.queue) <= Retention /\ s.backlog # <<>>
      /\ sub' = [sub EXCEPT ![u] = IF Len(s.queue) < Retention THEN s2 ELSE s1]
      /\ UNCHANGED <<rows, queue, pending, emitted, accepted, failed>>
      /\ GapFree(s, rows)
  BY OperatorState DEF Op!YieldBacklog, OperatorIInv, ClientsInv
<1> HIDE DEF s
<1>2. CASE Len(s.queue) >= Retention
  <2>1. s1 \in Subscriptions /\ s1.at = "resync" /\ s1.queue = s.queue
    BY <1>1 DEF Subscriptions
  <2>2. Len(s.queue) \in Nat
    BY <1>1 DEF Subscriptions
  <2>4. ~(Len(s.queue) < Retention)
    BY <1>2, <2>2, OperatorFacts
  <2> HIDE DEF s2
  <2>3. sub' = [sub EXCEPT ![u] = s1]
    BY <1>1, <2>4
  <2> HIDE DEF s1
  <2> QED BY <1>1, <2>1, <2>3, ResetKeeps
<1>3. CASE Len(s.queue) < Retention
  <2>1. s.queue \in Seq(OpEvents) /\ s.backlog \in Seq(OpEvents)
    BY <1>1 DEF Subscriptions
  <2> DEFINE e == Head(s.backlog)
             q == Append(s.queue, e)
             b == Tail(s.backlog)
  <2>2. /\ e \in OpEvents /\ b \in Seq(OpEvents)
        /\ Op!Range(s.backlog) \subseteq {e} \cup Op!Range(b)
    BY <1>1, <2>1, TailFact
  <2>3. /\ q \in Seq(OpEvents) /\ Len(q) = Len(s.queue) + 1 /\ Len(s.queue) \in Nat
        /\ Op!Range(q) = Op!Range(s.queue) \cup {e}
    BY <2>1, <2>2, AppendFact
  <2>4. s2 = [s EXCEPT !.queue = q, !.backlog = b, !.shown = @ \cup {e}]
    OBVIOUS
  <2>5. sub' = [sub EXCEPT ![u] = s2]
    BY <1>1, <1>3
  <2> HIDE DEF s2, e, q, b
  <2>6. /\ s2 \in Subscriptions /\ s2.queue = q /\ s2.backlog = b
        /\ s2.shown = s.shown \cup {e} /\ s2.after = s.after /\ s2.at = s.at
        /\ s2.registered = s.registered /\ s2.missed = s.missed
    BY <1>1, <2>2, <2>3, <2>4 DEF Subscriptions
  <2>7. GapFree(s2, rows)
    <3>1. s.shown \cup Op!Range(s.queue) \cup Op!Range(s.backlog)
            \subseteq s2.shown \cup Op!Range(s2.queue) \cup Op!Range(s2.backlog)
      BY <2>2, <2>3, <2>6
    <3> QED BY <1>1, <2>6, <3>1 DEF GapFree
  <2>8. Len(s2.queue) <= Retention
    BY <1>3, <2>3, <2>6, OperatorFacts
  <2> QED BY <1>1, <2>5, <2>6, <2>7, <2>8, ClientStep
<1>4. Len(s.queue) \in Nat
  BY <1>1 DEF Subscriptions
<1> QED BY <1>2, <1>3, <1>4, OperatorFacts

LEMMA TakeKeeps ==
    ASSUME OperatorIInv, NEW u \in Subscribers, Op!Take(u)
    PROVE  OperatorIInv'
<1> DEFINE s == sub[u]
           e == Head(s.queue)
           q == Tail(s.queue)
           s2 == [s EXCEPT !.queue = Tail(@), !.shown = @ \cup {Head(s.queue)}]
<1>1. /\ s \in Subscriptions /\ Len(s.queue) <= Retention /\ s.queue # <<>>
      /\ sub' = [sub EXCEPT ![u] = s2]
      /\ UNCHANGED <<rows, queue, pending, emitted, accepted, failed>>
      /\ GapFree(s, rows)
  BY OperatorState DEF Op!Take, OperatorIInv, ClientsInv
<1> HIDE DEF s
<1>2. s.queue \in Seq(OpEvents)
  BY <1>1 DEF Subscriptions
<1>3. /\ e \in OpEvents /\ q \in Seq(OpEvents) /\ Len(q) = Len(s.queue) - 1
      /\ Len(s.queue) \in Nat
      /\ Op!Range(s.queue) \subseteq {e} \cup Op!Range(q)
  BY <1>1, <1>2, TailFact
<1>4. s2 = [s EXCEPT !.queue = q, !.shown = @ \cup {e}]
  OBVIOUS
<1> HIDE DEF s2, e, q
<1>5. /\ s2 \in Subscriptions /\ s2.queue = q /\ s2.backlog = s.backlog
      /\ s2.shown = s.shown \cup {e} /\ s2.after = s.after /\ s2.at = s.at
      /\ s2.registered = s.registered /\ s2.missed = s.missed
  BY <1>1, <1>3, <1>4 DEF Subscriptions
<1>6. GapFree(s2, rows)
  BY <1>1, <1>3, <1>5 DEF GapFree
<1>7. Len(s2.queue) <= Retention
  BY <1>1, <1>3, <1>5, OperatorFacts
<1> QED BY <1>1, <1>5, <1>6, <1>7, ClientStep

LEMMA CloseSubscriptionKeeps ==
    ASSUME OperatorIInv, NEW u \in Subscribers, Op!CloseSubscription(u)
    PROVE  OperatorIInv'
<1>1. /\ sub' = [sub EXCEPT ![u] = Op!Unsubscribed]
      /\ UNCHANGED <<rows, queue, pending, emitted, accepted, failed>>
  BY DEF Op!CloseSubscription
<1>2. Op!Unsubscribed.at # "backlog" /\ Len(Op!Unsubscribed.queue) <= Retention
  BY UnsubscribedFact, OperatorFacts
<1> QED BY <1>1, <1>2, UnsubscribedFact, ResetKeeps

(* An accepted event e is in the queue q, failed, below the window of h, or its sequence
   holds a row of r: its own or one of another accepted event. *)
Accounted(e, q, f, h, r, acc) ==
    \/ e \in Op!Range(q) \/ e \in f \/ e.seq + Retention <= h
    \/ e.seq \in DOMAIN r /\ (r[e.seq] = e.event \/ \E g \in acc :
          g # e /\ g.seq = e.seq /\ g.event = r[e.seq])

LEMMA LostIsUnaccounted ==
    /\ Op!LostOnlyToReuse <=>
         \A e \in accepted : Accounted(e, queue, failed, Water, rows, accepted)
    /\ Op!LostOnlyToReuse' <=>
         \A e \in accepted' : Accounted(e, queue', failed', Water', rows', accepted')
<1>1. Op!LostOnlyToReuse <=>
         \A e \in accepted : Accounted(e, queue, failed, Water, rows, accepted)
  BY WatermarkIsTop DEF Op!LostOnlyToReuse, Accounted
<1>2. Op!HighWatermark' = Water'
  BY DEF Op!HighWatermark, Water, Top
<1>3. Op!LostOnlyToReuse' <=>
         \A e \in accepted' : Accounted(e, queue', failed', Water', rows', accepted')
  BY <1>2 DEF Op!LostOnlyToReuse, Accounted, Op!Range
<1> QED BY <1>1, <1>3

LEMMA GapsAreClientsPrimed ==
    Op!NoSilentGap' <=> \A u \in Subscribers : GapFree(sub'[u], rows')
BY DEF Op!NoSilentGap, GapFree, Op!Range

(* A step that changes the queue and leaves the rows alone. *)
LEMMA QueueStep ==
    ASSUME OperatorIInv, UNCHANGED <<rows, pending, emitted, accepted>>,
           queue' \in Seq(OpEvents \cup {Op!Sentinel}), Len(queue') <= QueueSize,
           \A v \in Op!Range(queue') : v = Op!Sentinel \/ v \in accepted,
           \A v \in accepted : v \in Op!Range(queue) => v \in Op!Range(queue') \cup failed',
           failed \subseteq failed',
           sub' \in [Subscribers -> Subscriptions],
           \A u \in Subscribers : GapFree(sub'[u], rows) /\ Len(sub'[u].queue) <= Retention
    PROVE  OperatorIInv'
<1>1. RowsInv'
  BY DEF OperatorIInv, RowsInv, Water, Top
<1>2. \A i \in 1..Len(queue') : queue'[i] = Op!Sentinel \/ queue'[i] \in accepted
  BY RangeFact
<1>3. EventsInv'
  BY <1>2 DEF OperatorIInv, EventsInv, Water, Top, Op!Sentinel
<1>4. ClientsInv'
  BY DEF ClientsInv
<1>5. Op!NoSilentGap'
  BY GapsAreClientsPrimed
<1>6. Water' = Water
  BY DEF Water, Top
<1>7. ASSUME NEW e \in accepted' PROVE Accounted(e, queue', failed', Water', rows', accepted')
  <2>1. e \in accepted /\ Accounted(e, queue, failed, Water, rows, accepted)
    BY LostIsUnaccounted DEF OperatorIInv
  <2>2. e \in Op!Range(queue) => e \in Op!Range(queue') \cup failed'
    BY <2>1
  <2> QED BY <1>6, <2>1, <2>2 DEF Accounted
<1>8. Op!LostOnlyToReuse'
  BY <1>7, LostIsUnaccounted
<1> QED BY <1>1, <1>3, <1>4, <1>5, <1>8 DEF OperatorIInv

(* What is queued is accepted, or the sentinel. *)
LEMMA QueuedFact ==
    ASSUME OperatorIInv, NEW v \in Op!Range(queue)
    PROVE  v = Op!Sentinel \/ v \in accepted
<1>1. PICK i \in 1..Len(queue) : v = queue[i]
  BY OperatorState, RangeFact
<1> QED BY <1>1 DEF OperatorIInv, EventsInv

(* The worker takes the head of the queue. *)
LEMMA HeadFact ==
    ASSUME OperatorIInv, queue # <<>>, NEW q, q = Tail(queue), NEW e, e = Head(queue)
    PROVE  /\ q \in Seq(OpEvents \cup {Op!Sentinel}) /\ Len(q) <= QueueSize
           /\ \A v \in Op!Range(q) : v = Op!Sentinel \/ v \in accepted
           /\ e = Op!Sentinel \/ e \in accepted
           /\ Op!Range(queue) \subseteq {e} \cup Op!Range(q)
<1> DEFINE T == OpEvents \cup {Op!Sentinel}
<1>1. queue \in Seq(T) /\ Len(queue) \in Nat /\ Len(queue) <= QueueSize
  BY OperatorState
<1> HIDE DEF T
<1>2. /\ q \in Seq(T) /\ Len(q) = Len(queue) - 1 /\ e \in Op!Range(queue)
      /\ Op!Range(queue) \subseteq {e} \cup Op!Range(q)
      /\ Op!Range(q) \subseteq Op!Range(queue)
  BY <1>1, TailFact
<1>3. Len(q) <= QueueSize
  BY <1>1, <1>2, OperatorFacts
<1> QED BY <1>2, <1>3, QueuedFact DEF T

LEMMA ProjectFailsKeeps == OperatorIInv /\ Op!ProjectFails => OperatorIInv'
<1> SUFFICES ASSUME OperatorIInv, Op!ProjectFails PROVE OperatorIInv'
  OBVIOUS
<1> DEFINE e == Head(queue)
           q == Tail(queue)
<1>1. /\ queue # <<>> /\ queue' = q /\ failed' = failed \cup {e}
      /\ UNCHANGED <<rows, pending, emitted, accepted, sub>>
  BY DEF Op!ProjectFails
<1>2. /\ q \in Seq(OpEvents \cup {Op!Sentinel}) /\ Len(q) <= QueueSize
      /\ \A v \in Op!Range(q) : v = Op!Sentinel \/ v \in accepted
      /\ Op!Range(queue) \subseteq {e} \cup Op!Range(q)
  BY <1>1, HeadFact
<1> HIDE DEF e, q
<1>3. /\ sub' \in [Subscribers -> Subscriptions]
      /\ \A u \in Subscribers : GapFree(sub'[u], rows) /\ Len(sub'[u].queue) <= Retention
  BY <1>1, OperatorState DEF OperatorIInv, ClientsInv
<1>4. \A v \in accepted : v \in Op!Range(queue) => v \in Op!Range(queue') \cup failed'
  BY <1>1, <1>2
<1> QED BY <1>1, <1>2, <1>3, <1>4, QueueStep

LEMMA StopKeeps == OperatorIInv /\ Op!Stop => OperatorIInv'
<1> SUFFICES ASSUME OperatorIInv, Op!Stop PROVE OperatorIInv'
  OBVIOUS
<1> DEFINE e == Head(queue)
           q == Tail(queue)
<1>1. /\ queue # <<>> /\ queue' = q /\ e = Op!Sentinel
      /\ UNCHANGED <<rows, pending, emitted, accepted, failed, sub>>
  BY DEF Op!Stop
<1>2. /\ q \in Seq(OpEvents \cup {Op!Sentinel}) /\ Len(q) <= QueueSize
      /\ \A v \in Op!Range(q) : v = Op!Sentinel \/ v \in accepted
      /\ Op!Range(queue) \subseteq {e} \cup Op!Range(q)
  BY <1>1, HeadFact
<1> HIDE DEF e, q
<1>3. /\ sub' \in [Subscribers -> Subscriptions]
      /\ \A u \in Subscribers : GapFree(sub'[u], rows) /\ Len(sub'[u].queue) <= Retention
  BY <1>1, OperatorState DEF OperatorIInv, ClientsInv
<1>4. Op!Sentinel \notin accepted
  <2>1. Op!Sentinel.seq = 0
    BY DEF Op!Sentinel
  <2> QED BY <2>1, OperatorState DEF OpEvents
<1>5. \A v \in accepted : v \in Op!Range(queue) => v \in Op!Range(queue') \cup failed'
  BY <1>1, <1>2, <1>4
<1> QED BY <1>1, <1>2, <1>3, <1>5, QueueStep

LEMMA CloseModelKeeps == OperatorIInv /\ Op!Close => OperatorIInv'
<1> SUFFICES ASSUME OperatorIInv, Op!Close PROVE OperatorIInv'
  OBVIOUS
<1> DEFINE T == OpEvents \cup {Op!Sentinel}
<1>1. /\ queue' = IF Len(queue) < QueueSize THEN Append(queue, Op!Sentinel) ELSE queue
      /\ sub' = [u \in Subscribers |-> [sub[u] EXCEPT !.registered = FALSE]]
      /\ UNCHANGED <<rows, pending, emitted, accepted, failed>>
  BY DEF Op!Close
<1>2. queue \in Seq(T) /\ Len(queue) \in Nat /\ Len(queue) <= QueueSize /\ Op!Sentinel \in T
  BY OperatorState
<1> HIDE DEF T
<1>3. /\ queue' \in Seq(T) /\ Len(queue') <= QueueSize
      /\ Op!Range(queue') \subseteq Op!Range(queue) \cup {Op!Sentinel}
      /\ Op!Range(queue) \subseteq Op!Range(queue')
  <2>1. CASE Len(queue) < QueueSize
    <3>1. queue' = Append(queue, Op!Sentinel)
      BY <1>1, <2>1
    <3>2. /\ queue' \in Seq(T) /\ Len(queue') = Len(queue) + 1
          /\ Op!Range(queue') = Op!Range(queue) \cup {Op!Sentinel}
      BY <1>2, <3>1, AppendFact
    <3> QED BY <1>2, <2>1, <3>2, OperatorFacts
  <2>2. CASE ~(Len(queue) < QueueSize)
    <3>1. queue' = queue
      BY <1>1, <2>2
    <3> QED BY <1>2, <3>1
  <2> QED BY <2>1, <2>2
<1>4. \A v \in Op!Range(queue') : v = Op!Sentinel \/ v \in accepted
  BY <1>3, QueuedFact
<1>5. ASSUME NEW u \in Subscribers
      PROVE  /\ sub'[u] \in Subscriptions /\ GapFree(sub'[u], rows)
             /\ Len(sub'[u].queue) <= Retention
  <2> DEFINE s == sub[u]
             s2 == [s EXCEPT !.registered = FALSE]
  <2>1. s \in Subscriptions /\ Len(s.queue) <= Retention /\ sub'[u] = s2
    BY <1>1, OperatorState DEF OperatorIInv, ClientsInv
  <2> HIDE DEF s
  <2>2. s2 \in Subscriptions /\ s2.registered = FALSE /\ s2.queue = s.queue
    BY <2>1 DEF Subscriptions
  <2> HIDE DEF s2
  <2>3. GapFree(s2, rows)
    BY <2>2 DEF GapFree
  <2> QED BY <2>1, <2>2, <2>3
<1>6. sub' \in [Subscribers -> Subscriptions]
  <2>1. sub' = [u \in Subscribers |-> sub'[u]]
    BY <1>1
  <2> QED BY <1>5, <2>1
<1>7. \A v \in accepted : v \in Op!Range(queue) => v \in Op!Range(queue') \cup failed'
  BY <1>3
<1>8. failed \subseteq failed' /\ UNCHANGED <<rows, pending, emitted, accepted>>
  BY <1>1
<1> QED BY <1>3, <1>4, <1>5, <1>6, <1>7, <1>8, QueueStep DEF T

LEMMA AllocateKeeps ==
    ASSUME OperatorIInv, NEW m \in Emitters, Op!AllocateSequence(m)
    PROVE  OperatorIInv'
<1>1. /\ emitted < MaxEvents /\ pending' = [pending EXCEPT ![m] = Water + 1]
      /\ UNCHANGED <<rows, queue, emitted, accepted, failed, sub>>
  BY WatermarkIsTop DEF Op!AllocateSequence
<1>2. Water \in Nat /\ emitted \in Nat /\ Water <= emitted /\ pending \in [Emitters -> Nat]
  BY OperatorState
<1>3. Water' = Water
  BY <1>1 DEF Water, Top
<1> DEFINE n == Water + 1
<1>4. n \in Nat /\ n <= Water + 1 /\ n <= emitted + 1 /\ n <= MaxEvents
  BY <1>1, <1>2, OperatorFacts
<1>5. pending' = [pending EXCEPT ![m] = n]
  BY <1>1
<1> HIDE DEF n
<1>6. pending' \in [Emitters -> Nat]
  BY <1>2, <1>4, <1>5
<1>7. \A a \in Emitters : /\ pending'[a] <= Water + 1 /\ pending'[a] <= emitted + 1
                          /\ pending'[a] <= MaxEvents
  <2>1. \A a \in Emitters : /\ pending[a] <= Water + 1 /\ pending[a] <= emitted + 1
                            /\ pending[a] <= MaxEvents
    BY DEF OperatorIInv, EventsInv
  <2>2. \A a \in Emitters : pending'[a] = IF a = m THEN n ELSE pending[a]
    BY <1>2, <1>5
  <2> QED BY <1>4, <2>1, <2>2
<1>8. EventsInv'
  BY <1>1, <1>3, <1>6, <1>7 DEF OperatorIInv, EventsInv, Op!Sentinel
<1>9. RowsInv' /\ ClientsInv'
  BY <1>1, <1>3 DEF OperatorIInv, RowsInv, ClientsInv
<1>10. Op!NoSilentGap' /\ Op!LostOnlyToReuse'
  BY <1>1 DEF OperatorIInv, Op!NoSilentGap, Op!LostOnlyToReuse, Op!HighWatermark, Op!Range
<1> QED BY <1>8, <1>9, <1>10 DEF OperatorIInv

LEMMA PublishKeeps ==
    ASSUME OperatorIInv, NEW m \in Emitters, Op!Publish(m)
    PROVE  OperatorIInv'
<1> DEFINE n == emitted + 1
           s == pending[m]
           e == [seq |-> s, event |-> n]
           T == OpEvents \cup {Op!Sentinel}
<1>1. /\ s > 0 /\ emitted < MaxEvents /\ pending' = [pending EXCEPT ![m] = 0]
      /\ emitted' = n
      /\ IF Len(queue) < QueueSize
         THEN queue' = Append(queue, e) /\ accepted' = accepted \cup {e}
         ELSE UNCHANGED <<queue, accepted>>
      /\ UNCHANGED <<rows, failed, sub>>
  BY DEF Op!Publish
<1>2. /\ Water \in Nat /\ emitted \in Nat /\ Water <= emitted /\ pending \in [Emitters -> Nat]
      /\ accepted \in SUBSET OpEvents
      /\ queue \in Seq(T) /\ Len(queue) \in Nat /\ Len(queue) <= QueueSize
  BY OperatorState
<1>3. Water' = Water
  BY <1>1 DEF Water, Top
<1>4. /\ n \in Nat \ {0} /\ n <= MaxEvents /\ emitted <= n
      /\ s \in Nat \ {0} /\ s <= Water + 1 /\ s <= n
  BY <1>1, <1>2, OperatorFacts DEF OperatorIInv, EventsInv
<1>5. e \in OpEvents /\ e.seq = s /\ e.event = n
  BY <1>4 DEF OpEvents
<1>6. e \in T
  BY <1>5
<1> HIDE DEF n, s, e, T
<1>7. /\ queue' \in Seq(T) /\ Len(queue') <= QueueSize
      /\ accepted' \in SUBSET OpEvents /\ accepted \subseteq accepted'
      /\ Op!Range(queue) \subseteq Op!Range(queue')
      /\ \A a \in accepted' : a \in accepted \/ (a = e /\ e \in Op!Range(queue'))
      /\ \A v \in Op!Range(queue') : v = Op!Sentinel \/ v \in accepted'
  <2>1. CASE Len(queue) < QueueSize
    <3>1. queue' = Append(queue, e) /\ accepted' = accepted \cup {e}
      BY <1>1, <2>1
    <3>2. /\ queue' \in Seq(T) /\ Len(queue') = Len(queue) + 1
          /\ Op!Range(queue') = Op!Range(queue) \cup {e}
      BY <1>2, <1>6, <3>1, AppendFact
    <3>3. Len(queue') <= QueueSize
      BY <1>2, <2>1, <3>2, OperatorFacts
    <3> QED BY <1>2, <1>5, <3>1, <3>2, <3>3, QueuedFact
  <2>2. CASE ~(Len(queue) < QueueSize)
    <3>1. queue' = queue /\ accepted' = accepted
      BY <1>1, <2>2
    <3> QED BY <1>2, <3>1, QueuedFact
  <2> QED BY <2>1, <2>2
<1>8. \A a \in accepted' : a.seq <= n /\ a.event <= n /\ a.seq <= Water + 1
  <2>1. ASSUME NEW a \in accepted PROVE a.seq <= n /\ a.event <= n /\ a.seq <= Water + 1
    <3>1. a.seq <= emitted /\ a.event <= emitted /\ a.seq <= Water + 1
      BY DEF OperatorIInv, EventsInv
    <3>2. a.seq \in Nat /\ a.event \in Nat
      BY <1>2 DEF OpEvents
    <3> QED BY <1>2, <1>4, <3>1, <3>2
  <2>2. n <= n
    BY <1>4
  <2> QED BY <1>4, <1>5, <1>7, <2>1, <2>2
<1>9. \A i \in 1..Len(queue') : queue'[i] = Op!Sentinel \/ queue'[i] \in accepted'
  BY <1>7, RangeFact
<1>10. pending' \in [Emitters -> Nat]
  BY <1>1, <1>2
<1>11. \A a \in Emitters : /\ pending'[a] <= Water + 1 /\ pending'[a] <= n + 1
                           /\ pending'[a] <= MaxEvents
  <2>1. ASSUME NEW a \in Emitters
        PROVE  /\ pending'[a] <= Water + 1 /\ pending'[a] <= n + 1
               /\ pending'[a] <= MaxEvents
    <3>1. /\ pending[a] <= Water + 1 /\ pending[a] <= emitted + 1
          /\ pending[a] <= MaxEvents /\ pending[a] \in Nat
      BY <1>2 DEF OperatorIInv, EventsInv
    <3>2. pending'[a] = IF a = m THEN 0 ELSE pending[a]
      BY <1>1, <1>2
    <3> QED BY <1>2, <1>4, <3>1, <3>2, OperatorFacts
  <2> QED BY <2>1
<1>12. emitted' \in 0..MaxEvents
  BY <1>1, <1>4, OperatorFacts
<1>13. EventsInv'
  BY <1>1, <1>3, <1>7, <1>8, <1>9, <1>10, <1>11, <1>12 DEF EventsInv, T, Op!Sentinel
<1>14. RowsInv'
  <2>1. Water \in 0..n
    BY <1>2, <1>4
  <2> QED BY <1>1, <1>3, <1>7, <2>1 DEF OperatorIInv, RowsInv
<1>15. ClientsInv' /\ Op!NoSilentGap'
  BY <1>1 DEF OperatorIInv, ClientsInv, Op!NoSilentGap, Op!Range
<1>16. ASSUME NEW a \in accepted' PROVE Accounted(a, queue', failed', Water', rows', accepted')
  <2>1. CASE a \in accepted
    <3>1. Accounted(a, queue, failed, Water, rows, accepted)
      BY <2>1, LostIsUnaccounted DEF OperatorIInv
    <3> QED BY <1>1, <1>3, <1>7, <3>1 DEF Accounted
  <2>2. CASE a = e /\ e \in Op!Range(queue')
    BY <2>2 DEF Accounted
  <2> QED BY <1>7, <2>1, <2>2
<1>17. Op!LostOnlyToReuse'
  BY <1>16, LostIsUnaccounted
<1> QED BY <1>13, <1>14, <1>15, <1>17 DEF OperatorIInv

(* The worker stores the head of the queue and pushes it to the clients. *)
LEMMA ProjectKeeps == OperatorIInv /\ Op!Project => OperatorIInv'
<1> SUFFICES ASSUME OperatorIInv, Op!Project PROVE OperatorIInv'
  OBVIOUS
<1> DEFINE e == Head(queue)
           q == Tail(queue)
           h == Water
           n == IF e.seq = h + 1 THEN h + 1 ELSE h
           T == OpEvents \cup {Op!Sentinel}
<1>1. /\ queue # <<>> /\ e # Op!Sentinel /\ queue' = q /\ rows' = Op!Stored(e)
      /\ sub' = [u \in Subscribers |-> Op!Pushed(sub[u], e)]
      /\ UNCHANGED <<pending, emitted, accepted, failed>>
  BY DEF Op!Project
<1>2. /\ q \in Seq(T) /\ Len(q) <= QueueSize
      /\ \A v \in Op!Range(q) : v = Op!Sentinel \/ v \in accepted
      /\ e = Op!Sentinel \/ e \in accepted
      /\ Op!Range(queue) \subseteq {e} \cup Op!Range(q)
  BY <1>1, HeadFact
<1> HIDE DEF e, q
<1>3. /\ h \in Nat /\ emitted \in Nat /\ h <= emitted /\ DOMAIN rows = Window(h)
      /\ accepted \in SUBSET OpEvents
  BY OperatorState
<1>4. e \in accepted /\ e \in OpEvents /\ e.seq <= h + 1 /\ e.seq <= emitted
  BY <1>1, <1>2, <1>3 DEF OperatorIInv, EventsInv
<1>5. e.seq \in Nat \ {0} /\ e.event \in Nat \ {0} /\ e = [seq |-> e.seq, event |-> e.event]
  BY <1>4 DEF OpEvents
<1>6. n \in Nat /\ n <= emitted /\ h <= n
  BY <1>3, <1>4, <1>5
<1>7. /\ DOMAIN rows' = Window(n)
      /\ \A k \in Window(n) : rows'[k] = IF k = h + 1 THEN e.event ELSE rows[k]
      /\ \A k \in Window(n) : k # h + 1 => k \in DOMAIN rows
  BY <1>1, <1>3, <1>4, StoredFact
<1>8. Water' = n
  <2>1. Water' = Top(DOMAIN rows')
    BY DEF Water, Top
  <2> HIDE DEF n
  <2> QED BY <1>6, <1>7, <2>1, WindowTop
<1>9. \A k \in Window(n) : k = h + 1 => e.seq = k
  BY <1>3, <1>5, WindowTop
<1> HIDE DEF n, h, T
<1>10. ASSUME NEW k \in DOMAIN rows'
       PROVE  \/ k \in DOMAIN rows /\ rows'[k] = rows[k]
              \/ k = e.seq /\ rows'[k] = e.event
  BY <1>7, <1>9
<1>11. ASSUME NEW k \in DOMAIN rows' PROVE [seq |-> k, event |-> rows'[k]] \in accepted
  <2>1. CASE k \in DOMAIN rows /\ rows'[k] = rows[k]
    BY <2>1 DEF OperatorIInv, RowsInv
  <2>2. CASE k = e.seq /\ rows'[k] = e.event
    BY <1>4, <1>5, <2>2
  <2> QED BY <1>10, <2>1, <2>2
<1>12. RowsInv'
  <2>1. Water' \in 0..emitted'
    BY <1>1, <1>3, <1>6, <1>8
  <2> QED BY <1>1, <1>7, <1>8, <1>11, <2>1 DEF RowsInv, Window
<1>13. \A i \in 1..Len(q) : q[i] = Op!Sentinel \/ q[i] \in accepted
  BY <1>2, RangeFact
<1>14. EventsInv'
  <2>1. \A a \in accepted : a.seq <= Water' + 1
    <3>1. ASSUME NEW a \in accepted PROVE a.seq <= n + 1
      <4>1. a.seq \in Nat /\ a.seq <= h + 1
        BY <1>3 DEF OpEvents, OperatorIInv, EventsInv, h
      <4> QED BY <1>3, <1>6, <4>1
    <3> QED BY <1>8, <3>1
  <2>2. \A a \in Emitters : pending[a] <= Water' + 1
    <3>1. ASSUME NEW a \in Emitters PROVE pending[a] <= n + 1
      <4>1. pending[a] \in Nat /\ pending[a] <= h + 1
        BY DEF OperatorIInv, EventsInv, h
      <4> QED BY <1>3, <1>6, <4>1
    <3> QED BY <1>8, <3>1
  <2>3. /\ emitted \in 0..MaxEvents /\ accepted \in SUBSET OpEvents
        /\ \A a \in accepted : a.seq <= emitted /\ a.event <= emitted
        /\ pending \in [Emitters -> Nat]
        /\ \A a \in Emitters : pending[a] <= emitted + 1 /\ pending[a] <= MaxEvents
    BY DEF OperatorIInv, EventsInv
  <2> QED BY <1>1, <1>2, <1>13, <2>1, <2>2, <2>3 DEF EventsInv, T, Op!Sentinel
<1>15. ASSUME NEW u \in Subscribers
       PROVE  /\ sub'[u] \in Subscriptions /\ Len(sub'[u].queue) <= Retention
              /\ GapFree(sub'[u], rows')
  <2> DEFINE s == sub[u]
  <2>1. /\ s \in Subscriptions /\ Len(s.queue) <= Retention /\ GapFree(s, rows)
        /\ sub'[u] = Op!Pushed(s, e)
    BY <1>1, OperatorState DEF OperatorIInv, ClientsInv
  <2> HIDE DEF s
  <2>2. CASE ~s.registered
    <3>1. sub'[u] = s
      BY <2>1, <2>2 DEF Op!Pushed
    <3> QED BY <2>1, <2>2, <3>1 DEF GapFree
  <2>3. CASE s.registered /\ Len(s.queue) < Retention
    <3> DEFINE r == Append(s.queue, e)
               s2 == [s EXCEPT !.queue = r]
    <3>1. s.queue \in Seq(OpEvents)
      BY <2>1 DEF Subscriptions
    <3>2. /\ r \in Seq(OpEvents) /\ Len(r) = Len(s.queue) + 1 /\ Len(s.queue) \in Nat
          /\ Op!Range(r) = Op!Range(s.queue) \cup {e}
      BY <1>4, <3>1, AppendFact
    <3>3. sub'[u] = s2
      BY <2>1, <2>3 DEF Op!Pushed
    <3> HIDE DEF r
    <3>4. /\ s2 \in Subscriptions /\ s2.queue = r /\ s2.backlog = s.backlog
          /\ s2.shown = s.shown /\ s2.after = s.after /\ s2.at = s.at
          /\ s2.registered = s.registered /\ s2.missed = s.missed
      BY <2>1, <3>2 DEF Subscriptions
    <3> HIDE DEF s2
    <3>5. Len(r) <= Retention
      BY <2>3, <3>2, OperatorFacts
    <3>6. GapFree(s2, rows')
      <4> SUFFICES ASSUME s2.registered, s2.at = "backlog", ~s2.missed,
                          NEW k \in DOMAIN rows', k > s2.after
                   PROVE  [seq |-> k, event |-> rows'[k]] \in
                            s2.shown \cup Op!Range(s2.queue) \cup Op!Range(s2.backlog)
        BY DEF GapFree
      <4>1. CASE k \in DOMAIN rows /\ rows'[k] = rows[k]
        <5>1. [seq |-> k, event |-> rows[k]] \in
                 s.shown \cup Op!Range(s.queue) \cup Op!Range(s.backlog)
          BY <2>1, <3>4, <4>1 DEF GapFree
        <5> QED BY <3>2, <3>4, <4>1, <5>1
      <4>2. CASE k = e.seq /\ rows'[k] = e.event
        BY <1>5, <3>2, <3>4, <4>2
      <4> QED BY <1>10, <4>1, <4>2
    <3> QED BY <3>3, <3>4, <3>5, <3>6
  <2>4. CASE s.registered /\ ~(Len(s.queue) < Retention)
    <3> DEFINE s2 == [s EXCEPT !.missed = TRUE]
    <3>1. sub'[u] = s2
      BY <2>1, <2>4 DEF Op!Pushed
    <3>2. s2 \in Subscriptions /\ s2.queue = s.queue /\ s2.missed = TRUE
      BY <2>1 DEF Subscriptions
    <3> HIDE DEF s2
    <3> QED BY <2>1, <3>1, <3>2 DEF GapFree
  <2> QED BY <2>2, <2>3, <2>4
<1>16. ClientsInv'
  <2>1. sub' = [u \in Subscribers |-> sub'[u]]
    BY <1>1
  <2>2. sub' \in [Subscribers -> Subscriptions]
    BY <1>15, <2>1
  <2> QED BY <1>15, <2>2 DEF ClientsInv
<1>17. Op!NoSilentGap'
  BY <1>15, GapsAreClientsPrimed
<1>18. ASSUME NEW a \in accepted' PROVE Accounted(a, queue', failed', Water', rows', accepted')
  <2>1. a \in accepted /\ Accounted(a, queue, failed, h, rows, accepted)
    BY <1>1, LostIsUnaccounted DEF OperatorIInv, h
  <2>2. a.seq \in Nat \ {0}
    BY <1>3, <2>1 DEF OpEvents
  <2>3. CASE a.seq + Retention <= n
    BY <1>8, <2>3 DEF Accounted
  <2>4. CASE a.seq + Retention > n
    <3>1. ~(a.seq + Retention <= h)
      BY <1>3, <1>6, <2>2, <2>4, OperatorFacts
    <3>2. CASE a \in Op!Range(q) \/ a \in failed
      BY <1>1, <3>2 DEF Accounted
    <3>3. CASE a = e
      <4>1. e.seq \in 1..n
        BY <1>3, <1>4, <1>5, <1>6 DEF n
      <4>2. e.seq \in DOMAIN rows'
        BY <1>7, <2>4, <3>3, <4>1 DEF Window
      <4>3. CASE rows'[e.seq] = e.event
        BY <3>3, <4>2, <4>3 DEF Accounted
      <4>4. CASE rows'[e.seq] # e.event
        <5> DEFINE g == [seq |-> e.seq, event |-> rows'[e.seq]]
        <5>1. g \in accepted' /\ g.seq = e.seq /\ g.event = rows'[e.seq]
          BY <1>1, <1>11, <4>2
        <5>2. g # e
          BY <4>4, <5>1
        <5> HIDE DEF g
        <5> QED BY <3>3, <4>2, <5>1, <5>2 DEF Accounted
      <4> QED BY <4>3, <4>4
    <3>4. CASE a.seq \in DOMAIN rows /\ (rows[a.seq] = a.event \/ \E g \in accepted :
                  g # a /\ g.seq = a.seq /\ g.event = rows[a.seq])
      <4>1. a.seq \in 1..h
        BY <1>3, <3>4, WindowTop
      <4>2. a.seq \in Window(n)
        BY <1>3, <1>6, <2>2, <2>4, <4>1 DEF Window
      <4>3. a.seq \in DOMAIN rows' /\ a.seq # h + 1
        BY <1>3, <1>7, <4>1, <4>2
      <4>4. rows'[a.seq] = rows[a.seq]
        BY <1>7, <4>2, <4>3
      <4> QED BY <1>1, <3>4, <4>3, <4>4 DEF Accounted
    <3> QED BY <1>2, <2>1, <3>1, <3>2, <3>3, <3>4 DEF Accounted
  <2>5. a.seq + Retention <= n \/ a.seq + Retention > n
    BY <1>6, <2>2, OperatorFacts
  <2> QED BY <2>3, <2>4, <2>5
<1>19. Op!LostOnlyToReuse'
  BY <1>18, LostIsUnaccounted
<1> QED BY <1>12, <1>14, <1>16, <1>17, <1>19 DEF OperatorIInv
(* Every step of the read model keeps its invariant. *)
LEMMA OperatorNextKeeps == OperatorIInv /\ [Op!Next]_(Op!vars) => OperatorIInv'
<1> SUFFICES ASSUME OperatorIInv, [Op!Next]_(Op!vars) PROVE OperatorIInv'
  OBVIOUS
<1>1. ASSUME NEW m \in Emitters, Op!AllocateSequence(m) PROVE OperatorIInv'
  BY <1>1, AllocateKeeps
<1>2. ASSUME NEW m \in Emitters, Op!Publish(m) PROVE OperatorIInv'
  BY <1>2, PublishKeeps
<1>3. CASE Op!Project
  BY <1>3, ProjectKeeps
<1>4. CASE Op!ProjectFails
  BY <1>4, ProjectFailsKeeps
<1>5. CASE Op!Close
  BY <1>5, CloseModelKeeps
<1>6. CASE Op!Stop
  BY <1>6, StopKeeps
<1>7. ASSUME NEW u \in Subscribers, NEW after \in {0, Op!HighWatermark}, Op!Stream(u, after)
      PROVE  OperatorIInv'
  BY <1>7, StreamKeeps
<1>8. ASSUME NEW u \in Subscribers, Op!ReadBacklog(u) PROVE OperatorIInv'
  BY <1>8, ReadBacklogKeeps
<1>9. ASSUME NEW u \in Subscribers, Op!YieldBacklog(u) PROVE OperatorIInv'
  BY <1>9, YieldBacklogKeeps
<1>10. ASSUME NEW u \in Subscribers, Op!Take(u) PROVE OperatorIInv'
  BY <1>10, TakeKeeps
<1>11. ASSUME NEW u \in Subscribers, Op!CloseSubscription(u) PROVE OperatorIInv'
  BY <1>11, CloseSubscriptionKeeps
<1>12. CASE UNCHANGED Op!vars
  <2>1. UNCHANGED <<rows, queue, pending, emitted, accepted, failed, sub>>
    BY <1>12 DEF Op!vars
  <2>2. RowsInv' /\ EventsInv' /\ ClientsInv'
    BY <2>1 DEF OperatorIInv, RowsInv, EventsInv, ClientsInv, Water, Top
  <2>3. Op!NoSilentGap' /\ Op!LostOnlyToReuse'
    BY <2>1 DEF OperatorIInv, Op!NoSilentGap, Op!LostOnlyToReuse, Op!HighWatermark, Op!Range
  <2> QED BY <2>2, <2>3 DEF OperatorIInv
<1> QED
  BY <1>1, <1>2, <1>3, <1>4, <1>5, <1>6, <1>7, <1>8, <1>9, <1>10, <1>11, <1>12 DEF Op!Next

(* A new read model is empty. *)
LEMMA OperatorInitially == Op!Init => OperatorIInv
<1> SUFFICES ASSUME Op!Init PROVE OperatorIInv
  OBVIOUS
<1>1. /\ rows = <<>> /\ queue = <<>> /\ pending = [m \in Emitters |-> 0]
      /\ emitted = 0 /\ accepted = {}
      /\ sub = [u \in Subscribers |-> Op!Unsubscribed]
  BY DEF Op!Init
<1>2. DOMAIN rows = {}
  BY <1>1
<1>3. Water = 0 /\ Window(0) = {}
  <2>1. 1..0 = {}
    OBVIOUS
  <2> QED BY <1>2, <2>1 DEF Water, Top, Window
<1>4. RowsInv
  BY <1>1, <1>2, <1>3 DEF RowsInv
<1>5. EventsInv
  BY <1>1, <1>3, OperatorFacts DEF EventsInv
<1>6. ClientsInv
  BY <1>1, UnsubscribedFact, OperatorFacts DEF ClientsInv
<1>7. Op!NoSilentGap /\ Op!LostOnlyToReuse
  BY <1>1, <1>2 DEF Op!NoSilentGap, Op!LostOnlyToReuse
<1> QED BY <1>4, <1>5, <1>6, <1>7 DEF OperatorIInv

(* In every state the read model keeps its bounds, its sequences have no hole, a client
   that need not resync misses no stored event, and an accepted event is lost only to a
   failed projection, the retention or the reuse of its sequence (_run, _backlog). *)
THEOREM ReadModelLosesNothingSilently == Op!Spec => []OperatorInv
<1>1. ASSUME OperatorIInv PROVE OperatorInv
  <2>1. /\ Water \in Nat /\ emitted \in Nat /\ Water <= emitted /\ emitted <= MaxEvents
        /\ DOMAIN rows = Window(Water)
    BY <1>1, OperatorState
  <2>2. DOMAIN rows \subseteq 1..MaxEvents
    BY <2>1, OperatorFacts DEF Window
  <2>3. \A n \in DOMAIN rows : rows[n] \in 1..emitted
    <3>1. ASSUME NEW n \in DOMAIN rows PROVE rows[n] \in 1..emitted
      <4> DEFINE e == [seq |-> n, event |-> rows[n]]
      <4>1. e \in accepted /\ e.event = rows[n]
        BY <1>1 DEF OperatorIInv, RowsInv
      <4> HIDE DEF e
      <4>2. e.event \in Nat \ {0} /\ e.event <= emitted
        BY <1>1, <4>1 DEF OperatorIInv, EventsInv, OpEvents
      <4> QED BY <2>1, <4>1, <4>2
    <3> QED BY <3>1
  <2>4. Op!Cardinality(DOMAIN rows) <= Retention
    BY <2>1, WindowBounded, OperatorCounts
  <2>5. ASSUME NEW m \in Emitters PROVE pending[m] \in 0..(MaxEvents + 1)
    BY <1>1, OperatorFacts DEF OperatorIInv, EventsInv
  <2>6. Op!TypeOK
    BY <1>1, <2>2, <2>3, <2>4, <2>5 DEF Op!TypeOK, OperatorIInv, EventsInv, ClientsInv
  <2>7. Op!RowsContiguous
    <3>1. ASSUME NEW n \in DOMAIN rows, NEW k \in DOMAIN rows, NEW i \in n..k
          PROVE  i \in DOMAIN rows
      <4>1. /\ n \in 1..Water /\ k \in 1..Water /\ n + Retention > Water
        BY <2>1 DEF Window
      <4>2. i \in 1..Water /\ i + Retention > Water
        BY <2>1, <4>1, OperatorFacts
      <4> QED BY <2>1, <4>2 DEF Window
    <3> QED BY <3>1 DEF Op!RowsContiguous
  <2> QED BY <1>1, <2>6, <2>7 DEF OperatorInv, OperatorIInv
<1> QED BY <1>1, OperatorInitially, OperatorNextKeeps, PTL DEF Op!Spec

(***************************************************************************)
(* The telemetry store and its exporters                                   *)
(***************************************************************************)
(* A line is the event written there, or torn. *)
Lines(st) ==
    /\ st \in Seq(Events \cup {Malformed})
    /\ Len(st) <= Len(Written)
    /\ \A i \in 1..Len(st) : st[i] = Written[i] \/ st[i] = Malformed

(* The first n lines are torn or acknowledged. *)
Settled(n, st, ac) == \A i \in 1..n : st[i] \in ac \cup {Malformed}

(* A list of delivered keys, all acknowledged. *)
KeyList(ks, ac) ==
    /\ ks \in Seq(Events)
    /\ Len(ks) <= MaxDelivered
    /\ \A i, j \in 1..Len(ks) : ks[i] = ks[j] => i = j
    /\ \A i \in 1..Len(ks) : ks[i] \in ac

(* es are lines of st after the first n: in order, whole, and none left out. *)
Reads(es, n, st) ==
    /\ es \in Seq(Nat)
    /\ \A i \in 1..Len(es) : es[i] > n /\ es[i] <= Len(st) /\ st[es[i]] # Malformed
    /\ \A i, j \in 1..Len(es) : i < j => es[i] < es[j]
    /\ \A i \in 1..Len(es) : \A p \in 1..Len(st) :
          (p > n /\ p <= es[i] /\ st[p] # Malformed) =>
             \E j \in 1..Len(es) : j <= i /\ es[j] = p

Share(b, o) == Cardinality({i \in 1..Len(b) : Origin[b[i]] = o})

(* The events read that wait for a later batch. *)
Waiting(d, st) ==
    {st[d.entries[i]] : i \in 1..Len(d.entries)} \ (Range(d.delivered) \cup Range(d.batch))

Fair(d, st) ==
    \A e \in Waiting(d, st) : \A f \in Range(d.batch) :
        Share(d.batch, Origin[f]) <= Share(d.batch, Origin[e]) + 1

Drains ==
    [at : {"idle", "leased", "read", "sink", "keys", "cursor", "release"}, start : Nat,
     entries : Seq(Nat), delivered : Seq(Events), batch : Seq(Events), prefix : Nat]

(* What a drain holds of the store st when the events ac are acknowledged. *)
DrainOK(d, st, ac) ==
    /\ d \in Drains
    /\ d.start <= Len(st) /\ Settled(d.start, st, ac)
    /\ Reads(d.entries, d.start, st)
    /\ d.prefix <= Len(d.entries)
    /\ \A i \in 1..d.prefix : st[d.entries[i]] \in ac
    /\ d.at \notin {"keys", "cursor"} => d.prefix = 0
    /\ KeyList(d.delivered, ac)
    /\ d.at = "sink" => Fair(d, st)

(* The inductive invariant of the export. *)
ExportIInv ==
    /\ Lines(store)
    /\ cursor \in 0..Len(store) /\ Settled(cursor, store, acked)
    /\ lease \in {"none", "live", "expired"}
    /\ KeyList(keys, acked)
    /\ drain \in [Exporters -> Drains]
    /\ \A x \in Exporters : DrainOK(drain[x], store, acked)

LEMMA ExportFacts ==
    /\ BatchSize \in Nat \ {0} /\ MaxDelivered \in Nat \ {0}
    /\ Feed \in Seq(Events) /\ Cardinality(Events) = Len(Feed)
BY ExportAssumption DEF Events

(* What a sequence holds. *)
LEMMA HoldsFact ==
    ASSUME NEW T, NEW s \in Seq(T)
    PROVE  /\ Range(s) \subseteq T
           /\ \A i \in 1..Len(s) : s[i] \in Range(s)
           /\ \A v \in Range(s) : \E i \in 1..Len(s) : v = s[i]
BY DEF Range

(* No event is written twice. *)
LEMMA WrittenFact ==
    /\ Written \in Seq(Events) /\ Len(Written) \in Nat
    /\ \A i, j \in 1..Len(Written) : Written[i] = Written[j] => i = j
<1> DEFINE P == {k \in 1..Len(Feed) : Emittable(Feed[k])}
           D == 1..Len(Feed)
<1>1. Feed \in Seq(Events) /\ Len(Feed) \in Nat /\ Cardinality(Events) = Len(Feed)
  BY ExportFacts
<1>2. \A i, j \in 1..Len(Feed) : Feed[i] = Feed[j] => i = j
  <2>1. Feed \in Surjection(D, Events)
    <3>1. Feed \in [D -> Events]
      BY <1>1
    <3>2. \A e \in Events : \E i \in D : Feed[i] = e
      BY <1>1 DEF Events, Range
    <3> QED BY <3>1, <3>2 DEF Surjection
  <2>2. IsFiniteSet(D) /\ Cardinality(D) = Len(Feed)
    <3> DEFINE n == Len(Feed)
    <3>1. n \in Nat /\ 1 \in Int /\ n \in Int /\ D = 1..n
      BY <1>1
    <3> HIDE DEF n, D
    <3>2. /\ IsFiniteSet(1..n)
          /\ Cardinality(1..n) = IF 1 > n THEN 0 ELSE n - 1 + 1
      BY <3>1, FS_Interval
    <3>3. IsFiniteSet(D) /\ Cardinality(D) = n
      BY <3>1, <3>2
    <3> QED BY <3>3 DEF n
  <2>4. Feed \in Injection(D, Events)
    <3> HIDE DEF D
    <3> QED BY <1>1, <2>1, <2>2, FS_Surjection
  <2> QED BY <2>4 DEF Injection, IsInjective
<1>3. P \in SUBSET (1..Len(Feed)) /\ Written = Picked(Feed, P)
  BY DEF Written
<1> HIDE DEF P
<1>4. /\ Cardinality(P) \in Nat
      /\ Written \in Seq(Events) /\ Len(Written) = Cardinality(P)
      /\ \A n \in 1..Cardinality(P) : Nth(P, n) \in P /\ Written[n] = Feed[Nth(P, n)]
      /\ \A m, n \in 1..Cardinality(P) : m < n => Nth(P, m) < Nth(P, n)
  BY <1>1, <1>3, PickedFact
<1>5. ASSUME NEW i \in 1..Len(Written), NEW j \in 1..Len(Written), Written[i] = Written[j]
      PROVE  i = j
  <2> DEFINE p == Nth(P, i)
             q == Nth(P, j)
  <2>1. p \in 1..Len(Feed) /\ q \in 1..Len(Feed) /\ Written[i] = Feed[p] /\ Written[j] = Feed[q]
    BY <1>3, <1>4
  <2> HIDE DEF p, q
  <2>2. p = q /\ p \in Int
    <3>1. Feed[p] = Feed[q]
      BY <1>5, <2>1
    <3> QED BY <1>1, <1>2, <2>1, <3>1
  <2>3. Nth(P, i) = Nth(P, j) /\ Nth(P, i) \in Int
    BY <2>2 DEF p, q
  <2>4. ~(i < j) /\ ~(j < i)
    BY <1>4, <2>3
  <2> QED BY <1>4, <2>4
<1> QED BY <1>4, <1>5

(* _read_entries reads whole lines after the cursor in order and leaves none out. *)
LEMMA ReadEntriesFact ==
    ASSUME NEW T, store \in Seq(T), NEW from \in Nat, from <= Len(store)
    PROVE  Reads(ReadEntries(from), from, store)
<1> DEFINE good == {i \in from + 1..Len(store) : store[i] # Malformed}
           c == Cardinality(good)
           m == AtMost(4 * BatchSize, c)
           es == ReadEntries(from)
<1>1. Len(store) \in Nat
  OBVIOUS
<1>2. es = [n \in 1..m |-> Nth(good, n)]
  <2>1. ~(from > Len(store))
    BY <1>1
  <2> QED BY <2>1 DEF ReadEntries
<1>3. good \in SUBSET (1..Len(store)) /\ good \in SUBSET Int
  BY <1>1
<1>4. IsFiniteSet(good)
  <2>1. IsFiniteSet(1..Len(store))
    BY <1>1, FS_Interval
  <2> HIDE DEF good
  <2> QED BY <1>3, <2>1, FS_Subset
<1>5. \A p \in 1..Len(store) : p > from /\ store[p] # Malformed => p \in good
  BY <1>1
<1>6. \A p \in good : p \in Nat /\ p > from /\ p <= Len(store) /\ store[p] # Malformed
  BY <1>1
<1> HIDE DEF good
<1>7. /\ c \in Nat
      /\ \A n \in 1..c : Nth(good, n) \in good
      /\ \A k, n \in 1..c : k < n => Nth(good, k) < Nth(good, n)
      /\ \A i \in good : \E n \in 1..c : Nth(good, n) = i
  BY <1>3, <1>4, NthFact
<1>8. m \in Nat /\ m <= c
  BY <1>7, ExportFacts DEF AtMost
<1> HIDE DEF c, m, es
<1>9. es \in Seq(Nat) /\ Len(es) = m /\ \A n \in 1..m : es[n] = Nth(good, n) /\ n \in 1..c
  <2>1. \A n \in 1..m : n \in 1..c /\ Nth(good, n) \in Nat
    BY <1>6, <1>7, <1>8
  <2> QED BY <1>2, <1>8, <2>1
<1>10. \A i \in 1..Len(es) : es[i] > from /\ es[i] <= Len(store) /\ store[es[i]] # Malformed
  BY <1>6, <1>7, <1>9
<1>11. \A i, j \in 1..Len(es) : i < j => es[i] < es[j]
  BY <1>7, <1>9
<1>12. ASSUME NEW i \in 1..Len(es), NEW p \in 1..Len(store),
              p > from, p <= es[i], store[p] # Malformed
       PROVE  \E j \in 1..Len(es) : j <= i /\ es[j] = p
  <2>1. p \in good
    BY <1>5, <1>12
  <2>2. PICK j \in 1..c : Nth(good, j) = p
    BY <1>7, <2>1
  <2>3. i \in 1..m /\ i \in 1..c /\ es[i] = Nth(good, i) /\ es[i] \in Nat
    BY <1>6, <1>7, <1>9
  <2>4. ~(i < j)
    <3>1. i < j => es[i] < p
      BY <1>7, <2>2, <2>3
    <3> QED BY <1>12, <2>3, <3>1
  <2>5. j <= i /\ j \in 1..Len(es)
    BY <1>8, <1>9, <2>3, <2>4
  <2> QED BY <1>9, <2>2, <2>5
<1> QED BY <1>9, <1>10, <1>11, <1>12 DEF Reads, es

(* A whole line is the event written there, and no other line is. *)
LEMMA LineFact ==
    ASSUME Lines(store), NEW a \in 1..Len(store), store[a] # Malformed
    PROVE  /\ store[a] \in Events
           /\ \A b \in 1..Len(store) : store[b] = store[a] => b = a
<1>1. /\ Len(store) \in Nat /\ Len(store) <= Len(Written) /\ Len(Written) \in Nat
      /\ \A i \in 1..Len(store) : store[i] = Written[i] \/ store[i] = Malformed
  BY WrittenFact DEF Lines
<1>2. \A i \in 1..Len(store) : i \in 1..Len(Written)
  BY <1>1
<1>3. store[a] = Written[a] /\ Written[a] \in Events
  BY <1>1, <1>2, WrittenFact
<1>4. ASSUME NEW b \in 1..Len(store), store[b] = store[a] PROVE b = a
  <2>1. store[b] = Written[b] /\ Written[b] = Written[a]
    BY <1>1, <1>3, <1>4
  <2> QED BY <1>2, <2>1, WrittenFact
<1> QED BY <1>3, <1>4

(* The prefix of the entries that is delivered or acknowledged. *)
LEMMA ConsumedFact ==
    ASSUME NEW d, d.entries \in Seq(Nat), NEW ack
    PROVE  /\ Consumed(d, ack) \in 0..Len(d.entries)
           /\ \A i \in 1..Consumed(d, ack) :
                 store[d.entries[i]] \in Range(d.delivered) \cup ack
<1> DEFINE good(i) == store[d.entries[i]] \in Range(d.delivered) \cup ack
           done(n) == \A i \in 1..n : good(i)
           l == Len(d.entries)
           U == {i \in 1..l : ~good(i)}
<1>1. l \in Nat
  OBVIOUS
<1> HIDE DEF good
<1> DEFINE Stop(n) == done(n) /\ (n < l => ~done(n + 1))
<1>2. \E n \in 0..l : Stop(n)
  <2> HIDE DEF l
  <2>1. CASE U = {}
    <3>1. \A i \in 1..l : good(i)
      BY <2>1
    <3>2. Stop(l)
      BY <1>1, <3>1
    <3> QED BY <1>1, <3>2
  <2>2. CASE U # {}
    <3>1. U \in SUBSET Nat
      BY <1>1
    <3> HIDE DEF U
    <3>2. PICK m \in U : \A k \in U : m <= k
      BY <2>2, <3>1, LeastOf
    <3>3. m \in 1..l /\ ~good(m)
      BY <3>2 DEF U
    <3>4. \A i \in 1..(m - 1) : i \notin U /\ i \in 1..l
      BY <1>1, <3>1, <3>2, <3>3
    <3>5. \A i \in 1..(m - 1) : good(i)
      BY <3>4 DEF U
    <3>6. m - 1 \in 0..l /\ (m - 1) + 1 = m /\ m \in 1..m
      BY <1>1, <3>3
    <3>7. Stop(m - 1)
      BY <3>3, <3>5, <3>6
    <3> QED BY <3>6, <3>7
  <2> QED BY <2>1, <2>2
<1> DEFINE c == CHOOSE n \in 0..l : Stop(n)
<1>3. c \in 0..l /\ done(c)
  <2>1. c \in 0..l /\ Stop(c)
    <3> HIDE DEF Stop, l
    <3> QED BY <1>2
  <2> QED BY <2>1
<1>4. Consumed(d, ack) = c
  BY Zenon DEF Consumed, good
<1> HIDE DEF c
<1> QED BY <1>3, <1>4 DEF good

(* _save_keys keeps each key once, and only of acknowledged events. *)
LEMMA KeysAfterFact ==
    ASSUME Lines(store), NEW d, DrainOK(d, store, acked)
    PROVE  KeyList(KeysAfter(d), acked)
<1> DEFINE consumed == [i \in 1..d.prefix |-> store[d.entries[i]]]
           P == {i \in 1..d.prefix : consumed[i] \notin Range(d.delivered)}
           new == Picked(consumed, P)
           s == d.delivered \o new
           del == d.delivered
           l == Len(del)
<1>1. /\ d \in Drains /\ d.entries \in Seq(Nat) /\ d.prefix \in Nat
      /\ d.prefix <= Len(d.entries) /\ Len(d.entries) \in Nat /\ KeyList(del, acked)
      /\ Reads(d.entries, d.start, store) /\ d.start \in Nat
      /\ \A i \in 1..d.prefix : store[d.entries[i]] \in acked
  BY DEF DrainOK, Drains
<1>2. ASSUME NEW i \in 1..d.prefix
      PROVE  /\ i \in 1..Len(d.entries) /\ d.entries[i] \in 1..Len(store)
             /\ store[d.entries[i]] # Malformed /\ store[d.entries[i]] \in Events
  <2>1. i \in 1..Len(d.entries)
    BY <1>1
  <2>2. /\ d.entries[i] \in Nat /\ d.entries[i] > d.start /\ d.entries[i] <= Len(store)
        /\ store[d.entries[i]] # Malformed
    BY <1>1, <2>1 DEF Reads
  <2>3. d.entries[i] \in 1..Len(store)
    BY <1>1, <2>2 DEF Lines
  <2> QED BY <2>1, <2>2, <2>3, LineFact
<1>3. /\ consumed \in Seq(Events) /\ Len(consumed) = d.prefix
      /\ \A i \in 1..d.prefix : consumed[i] = store[d.entries[i]] /\ consumed[i] \in acked
  <2> DEFINE g(i) == store[d.entries[i]]
             n == d.prefix
  <2>1. n \in Nat /\ \A i \in 1..n : g(i) \in Events /\ g(i) \in acked
    BY <1>1, <1>2
  <2>2. consumed = [i \in 1..n |-> g(i)]
    OBVIOUS
  <2> HIDE DEF g, n, consumed
  <2>3. /\ consumed \in Seq(Events) /\ Len(consumed) = n
        /\ \A i \in 1..n : consumed[i] = g(i)
    BY <2>1, <2>2
  <2> QED BY <2>1, <2>3 DEF g, n
<1>4. ASSUME NEW i \in 1..d.prefix, NEW j \in 1..d.prefix, consumed[i] = consumed[j]
      PROVE  i = j
  <2>1. d.entries[i] = d.entries[j]
    BY <1>2, <1>3, <1>4, LineFact
  <2>2. i < j => d.entries[i] < d.entries[j]
    BY <1>1, <1>2 DEF Reads
  <2>3. j < i => d.entries[j] < d.entries[i]
    BY <1>1, <1>2 DEF Reads
  <2>4. d.entries[i] \in Nat /\ d.entries[j] \in Nat
    BY <1>1, <1>2
  <2> QED BY <1>1, <2>1, <2>2, <2>3, <2>4
<1> HIDE DEF consumed
<1>5. P \in SUBSET (1..Len(consumed))
  BY <1>3
<1>6. \A i \in P : consumed[i] \notin Range(del) /\ i \in 1..d.prefix
  BY <1>3
<1> HIDE DEF P
<1>7. /\ new \in Seq(Events) /\ Len(new) \in Nat
      /\ \A n \in 1..Len(new) : Nth(P, n) \in P /\ new[n] = consumed[Nth(P, n)]
      /\ \A m, n \in 1..Len(new) : m < n => Nth(P, m) < Nth(P, n)
  BY <1>3, <1>5, PickedFact
<1> HIDE DEF new
<1>8. \A n \in 1..Len(new) : new[n] \in acked /\ new[n] \notin Range(del)
  BY <1>3, <1>6, <1>7
<1>9. ASSUME NEW m \in 1..Len(new), NEW n \in 1..Len(new), new[m] = new[n] PROVE m = n
  <2>1. Nth(P, m) = Nth(P, n) /\ Nth(P, m) \in 1..d.prefix
    BY <1>4, <1>6, <1>7, <1>9
  <2>2. ~(m < n) /\ ~(n < m)
    BY <1>1, <1>7, <2>1
  <2> QED BY <1>7, <2>2
<1>10. /\ del \in Seq(Events) /\ l \in Nat
       /\ \A i, j \in 1..l : del[i] = del[j] => i = j
       /\ \A i \in 1..l : del[i] \in acked /\ del[i] \in Range(del)
  BY <1>1, HoldsFact DEF KeyList
<1> HIDE DEF del, l
<1>11. /\ s \in Seq(Events) /\ Len(s) = l + Len(new)
       /\ \A i \in 1..Len(s) : s[i] = IF i <= l THEN del[i] ELSE new[i - l]
  BY <1>7, <1>10 DEF del, l
<1> HIDE DEF s
<1>12. \A i \in 1..Len(s) : \/ i \in 1..l /\ s[i] = del[i]
                            \/ i - l \in 1..Len(new) /\ s[i] = new[i - l]
  BY <1>7, <1>10, <1>11
<1>13. \A i \in 1..Len(s) : s[i] \in acked
  BY <1>8, <1>10, <1>12
<1>14. ASSUME NEW i \in 1..Len(s), NEW j \in 1..Len(s), s[i] = s[j] PROVE i = j
  <2>1. CASE i \in 1..l /\ s[i] = del[i]
    <3>1. s[i] \in Range(del)
      BY <1>10, <2>1
    <3>2. j \in 1..l /\ s[j] = del[j]
      BY <1>8, <1>12, <1>14, <3>1
    <3> QED BY <1>10, <1>14, <2>1, <3>2
  <2>2. CASE i - l \in 1..Len(new) /\ s[i] = new[i - l]
    <3>1. s[i] \notin Range(del)
      BY <1>8, <2>2
    <3>2. j - l \in 1..Len(new) /\ s[j] = new[j - l]
      BY <1>10, <1>12, <1>14, <3>1
    <3>3. i - l = j - l
      BY <1>9, <1>14, <2>2, <3>2
    <3> QED BY <1>10, <1>11, <3>3
  <2> QED BY <1>12, <2>1, <2>2
<1>15. KeysAfter(d) = Bounded(s)
  BY DEF KeysAfter, s, new, P, consumed, del
<1>16. CASE Len(s) <= MaxDelivered
  <2>1. Bounded(s) = s
    BY <1>7, <1>10, <1>11, <1>16, ExportFacts DEF Bounded
  <2> QED BY <1>11, <1>13, <1>14, <1>15, <1>16, <2>1 DEF KeyList
<1>17. CASE Len(s) > MaxDelivered
  <2> DEFINE o == Len(s) - MaxDelivered
             r == SubSeq(s, o + 1, Len(s))
  <2>1. Len(s) \in Nat /\ MaxDelivered \in Nat /\ o \in Nat
    BY <1>11, <1>17, ExportFacts
  <2>2. Bounded(s) = r
    BY <1>17 DEF Bounded
  <2>3. /\ r \in Seq(Events) /\ Len(r) = MaxDelivered
        /\ \A i \in 1..MaxDelivered : r[i] = s[i + o]
    <3> DEFINE z == Len(s)
    <3>1. /\ z \in Nat /\ o + 1 \in 1..z + 1 /\ z - (o + 1) + 1 = MaxDelivered
          /\ o \in Nat
      BY <1>17, <2>1
    <3>2. \A i \in 1..MaxDelivered : (o + 1) + i - 1 = i + o
      BY <2>1, <3>1
    <3> HIDE DEF z, o
    <3>3. \A i \in 1..z : s[i] \in Events
      BY <1>11 DEF z
    <3>4. r = SubSeq(s, o + 1, z)
      BY DEF z
    <3> QED BY <1>11, <2>1, <3>1, <3>2, <3>4 DEF z
  <2>4. \A i \in 1..MaxDelivered : i + o \in 1..Len(s)
    BY <2>1
  <2> HIDE DEF r, o
  <2>5. \A i \in 1..MaxDelivered : r[i] \in acked
    BY <1>13, <2>3, <2>4
  <2>6. ASSUME NEW i \in 1..MaxDelivered, NEW j \in 1..MaxDelivered, r[i] = r[j]
        PROVE  i = j
    <3>1. i + o = j + o
      BY <1>14, <2>3, <2>4, <2>6
    <3> QED BY <2>1, <3>1
  <2>7. MaxDelivered <= MaxDelivered
    BY <2>1
  <2> QED BY <1>15, <2>2, <2>3, <2>5, <2>6, <2>7 DEF KeyList
<1> QED BY <1>11, <1>16, <1>17, ExportFacts

(* Rounds over the origins: o names the origin of each position of P. *)
Alike(P, o, j) == {k \in P : o[k] = o[j]}
Round(P, o, j) == Cardinality({k \in Alike(P, o, j) : k < j})
First(P, o, j) == CHOOSE k \in Alike(P, o, j) : \A l \in Alike(P, o, j) : k <= l
Earlier(P, o) ==
    {p \in P \X P : \/ Round(P, o, p[1]) < Round(P, o, p[2])
                    \/ Round(P, o, p[1]) = Round(P, o, p[2]) /\ First(P, o, p[1]) < First(P, o, p[2])}

(* An origin has one position in a round, so that rounds and first appearances
   put the positions in an order. *)
LEMMA RoundsFact ==
    ASSUME NEW P \in SUBSET Nat, IsFiniteSet(P), NEW o
    PROVE  /\ \A j \in P : Round(P, o, j) \in Nat
           /\ \A j, k \in P : o[j] = o[k] /\ Round(P, o, j) = Round(P, o, k) => j = k
           /\ StrictOrder(P, Earlier(P, o))
           /\ \A j, k \in P : <<k, j>> \in Earlier(P, o) => Round(P, o, k) <= Round(P, o, j)
<1> DEFINE Before(j) == {k \in Alike(P, o, j) : k < j}
           R == Earlier(P, o)
           r(j) == Round(P, o, j)
           h(j) == First(P, o, j)
<1>1. ASSUME NEW j \in P
      PROVE  IsFiniteSet(Before(j)) /\ r(j) = Cardinality(Before(j)) /\ r(j) \in Nat
  <2>1. Before(j) \in SUBSET P
    BY DEF Alike
  <2>2. r(j) = Cardinality(Before(j))
    BY DEF Round
  <2> HIDE DEF Before, r
  <2>3. IsFiniteSet(Before(j))
    BY <2>1, FS_Subset
  <2> QED BY <2>2, <2>3, FS_CardinalityType
<1>2. ASSUME NEW j \in P, NEW k \in P, o[j] = o[k], k < j PROVE r(k) < r(j)
  <2>1. Before(k) \in SUBSET Before(j) /\ k \in Before(j) /\ k \notin Before(k)
    <3>1. j \in Nat /\ k \in Nat
      OBVIOUS
    <3>2. ASSUME NEW l \in Before(k) PROVE l \in Before(j)
      <4>1. l \in P /\ o[l] = o[k] /\ l < k /\ l \in Nat
        BY DEF Alike
      <4>2. l < j
        BY <1>2, <3>1, <4>1
      <4> QED BY <1>2, <4>1, <4>2 DEF Alike
    <3>3. k \in Before(j) /\ k \notin Before(k)
      BY <1>2, <3>1 DEF Alike
    <3> QED BY <3>2, <3>3
  <2>2. r(j) \in Nat /\ r(k) \in Nat
    BY <1>1
  <2>3. /\ IsFiniteSet(Before(j)) /\ r(j) = Cardinality(Before(j))
        /\ r(k) = Cardinality(Before(k))
    BY <1>1
  <2> HIDE DEF Before, r
  <2>4. /\ Cardinality(Before(k)) <= Cardinality(Before(j))
        /\ Cardinality(Before(k)) # Cardinality(Before(j))
    BY <2>1, <2>3, FS_Subset
  <2> QED BY <2>2, <2>3, <2>4
<1>3. ASSUME NEW j \in P, NEW k \in P, o[j] = o[k], r(j) = r(k) PROVE j = k
  <2>1. r(j) \in Nat /\ r(k) \in Nat
    BY <1>1
  <2>2. ~(j < k) /\ ~(k < j)
    <3> HIDE DEF r
    <3> QED BY <1>2, <1>3, <2>1
  <2> QED BY <2>2
<1>4. ASSUME NEW j \in P PROVE h(j) \in P /\ o[h(j)] = o[j]
  <2> DEFINE A == Alike(P, o, j)
  <2>1. A \in SUBSET Nat /\ j \in A /\ A \in SUBSET P /\ \A k \in A : o[k] = o[j]
    BY DEF Alike
  <2> HIDE DEF A
  <2>2. \E k \in A : \A l \in A : k <= l
    BY <2>1, LeastOf
  <2>3. h(j) = CHOOSE k \in A : \A l \in A : k <= l
    BY DEF First, A
  <2> HIDE DEF h
  <2>4. h(j) \in A
    BY <2>2, <2>3
  <2> QED BY <2>1, <2>4
<1>5. \A j, k \in P : <<k, j>> \in R <=> (r(k) < r(j) \/ (r(k) = r(j) /\ h(k) < h(j)))
  BY DEF Earlier
<1> HIDE DEF R, r, h, Before
<1>6. ASSUME NEW j \in P, NEW k \in P, r(j) = r(k), h(j) = h(k) PROVE j = k
  BY <1>3, <1>4, <1>6
<1>7. \A j \in P : r(j) \in Nat /\ h(j) \in Nat
  BY <1>1, <1>4
<1>8. StrictOrder(P, R)
  <2>1. \A j \in P : <<j, j>> \notin R
    BY <1>5, <1>7
  <2>2. ASSUME NEW x \in P, NEW y \in P, NEW z \in P, <<x, y>> \in R, <<y, z>> \in R
        PROVE  <<x, z>> \in R
    <3>1. r(x) < r(y) \/ (r(x) = r(y) /\ h(x) < h(y))
      BY <1>5, <2>2
    <3>2. r(y) < r(z) \/ (r(y) = r(z) /\ h(y) < h(z))
      BY <1>5, <2>2
    <3>3. r(x) < r(z) \/ (r(x) = r(z) /\ h(x) < h(z))
      BY <1>7, <3>1, <3>2
    <3> QED BY <1>5, <3>3
  <2>3. ASSUME NEW x \in P, NEW y \in P, x # y PROVE <<x, y>> \in R \/ <<y, x>> \in R
    <3>1. r(x) # r(y) \/ h(x) # h(y)
      BY <1>6, <2>3
    <3>2. \/ r(x) < r(y) \/ (r(x) = r(y) /\ h(x) < h(y))
          \/ r(y) < r(x) \/ (r(y) = r(x) /\ h(y) < h(x))
      BY <1>7, <3>1
    <3> QED BY <1>5, <3>2
  <2> QED BY <2>1, <2>2, <2>3 DEF StrictOrder
<1>9. \A j, k \in P : <<k, j>> \in R => r(k) <= r(j)
  BY <1>5, <1>7
<1> QED BY <1>3, <1>7, <1>8, <1>9 DEF R, r

(* The places of a batch of m that go to positions of the origin a. *)
PlacesOf(m, pos, o, a) == {n \in 1..m : o[pos[n]] = a}

(* Of the positions a batch of m places takes in that order: if j waits, no origin has
   more than one place over that of j. *)
LEMMA SharesFact ==
    ASSUME NEW P \in SUBSET Nat, IsFiniteSet(P), NEW o,
           NEW m \in Nat, m <= Cardinality(P), NEW pos \in [1..m -> P],
           \A n \in 1..m : Rank(P, Earlier(P, o), pos[n]) = n - 1,
           NEW i \in P,
           NEW j \in P, Rank(P, Earlier(P, o), j) >= m
    PROVE  Cardinality(PlacesOf(m, pos, o, o[i])) <= Cardinality(PlacesOf(m, pos, o, o[j])) + 1
<1> DEFINE R == Earlier(P, o)
           t(k) == Rank(P, R, k)
           rd(k) == Round(P, o, k)
           Places(a) == PlacesOf(m, pos, o, a)
           W == {k \in Alike(P, o, j) : t(k) >= m}
<1>1. /\ \A k \in P : rd(k) \in Nat
      /\ \A k, l \in P : o[k] = o[l] /\ rd(k) = rd(l) => k = l
      /\ StrictOrder(P, R)
      /\ \A k, l \in P : <<l, k>> \in R => rd(l) <= rd(k)
  BY RoundsFact
<1>2. /\ Cardinality(P) \in Nat
      /\ \A k \in P : t(k) \in 0..(Cardinality(P) - 1)
      /\ \A k, l \in P : <<k, l>> \in R => t(k) < t(l)
  <2> HIDE DEF R
  <2> QED BY <1>1, RankFact
<1>3. \A k \in P : t(k) \in Nat
  BY <1>2
<1>4. \A n \in 1..m : pos[n] \in P /\ t(pos[n]) = n - 1
  OBVIOUS
<1>5. t(j) >= m
  OBVIOUS
<1> HIDE DEF R, t, rd
<1>6. ASSUME NEW k \in P, NEW l \in P, t(k) = t(l) PROVE k = l
  <2>1. ~(t(k) < t(l)) /\ ~(t(l) < t(k))
    BY <1>3, <1>6
  <2> QED BY <1>1, <1>2, <2>1 DEF StrictOrder
<1>7. \A k, l \in P : t(k) < t(l) => rd(k) <= rd(l)
  <2> SUFFICES ASSUME NEW k \in P, NEW l \in P, t(k) < t(l) PROVE <<k, l>> \in R
    BY <1>1
  <2>1. k # l
    BY <1>3
  <2>2. <<k, l>> \in R \/ <<l, k>> \in R
    BY <1>1, <2>1 DEF StrictOrder
  <2> QED BY <1>2, <1>3, <2>2
<1>8. PICK w \in W : \A k \in W : w <= k
  <2>1. W \in SUBSET Nat /\ j \in W
    BY <1>5 DEF Alike
  <2> HIDE DEF W
  <2> QED BY <2>1, LeastOf
<1>9. w \in P /\ o[w] = o[j] /\ t(w) >= m
  BY <1>8 DEF Alike
<1>10. \A k \in P : o[k] = o[j] /\ k < w => t(k) < m
  BY <1>3, <1>8, <1>9 DEF Alike
<1>11. \A a : IsFiniteSet(Places(a)) /\ Cardinality(Places(a)) \in Nat
  <2> TAKE a
  <2>1. IsFiniteSet(1..m)
    BY FS_Interval
  <2>2. Places(a) \in SUBSET (1..m)
    BY DEF PlacesOf
  <2> HIDE DEF Places
  <2>3. IsFiniteSet(Places(a))
    BY <2>1, <2>2, FS_Subset
  <2> QED BY <2>3, FS_CardinalityType
<1>12. \A a : \A n : n \in Places(a) <=> n \in 1..m /\ o[pos[n]] = a
  BY DEF PlacesOf
<1> HIDE DEF W, Places
(* Every earlier position of the waiting origin has its place. *)
<1>13. rd(w) <= Cardinality(Places(o[j]))
  <2> DEFINE B == {k \in Alike(P, o, w) : k < w}
             g == [k \in B |-> t(k) + 1]
  <2>1. rd(w) = Cardinality(B)
    BY DEF rd, Round
  <2>2. \A k \in B : k \in P /\ o[k] = o[j] /\ k < w
    BY <1>9 DEF Alike
  <2> HIDE DEF B
  <2>3. ASSUME NEW k \in B PROVE t(k) + 1 \in Places(o[j])
    <3>1. t(k) \in Nat /\ t(k) < m /\ k \in P
      BY <1>3, <1>10, <2>2
    <3>2. t(k) + 1 \in 1..m /\ (t(k) + 1) - 1 = t(k)
      BY <3>1
    <3>3. t(pos[t(k) + 1]) = t(k) /\ pos[t(k) + 1] \in P
      BY <1>4, <3>2
    <3>4. pos[t(k) + 1] = k
      BY <1>6, <3>1, <3>3
    <3> QED BY <1>12, <2>2, <3>2, <3>4
  <2>4. ASSUME NEW k \in B, NEW l \in B, t(k) + 1 = t(l) + 1 PROVE k = l
    <3>1. t(k) \in Nat /\ t(l) \in Nat
      BY <1>3, <2>2
    <3>2. t(k) = t(l)
      BY <2>4, <3>1
    <3> QED BY <1>6, <2>2, <3>2
  <2>5. g \in Injection(B, Places(o[j]))
    BY <2>3, <2>4 DEF Injection, IsInjective
  <2> HIDE DEF g
  <2>6. Cardinality(B) <= Cardinality(Places(o[j]))
    BY <1>11, <2>5, FS_Injection
  <2> QED BY <2>1, <2>6
(* A place is of a round no later than that of w, and an origin has one in each. *)
<1>14. Cardinality(Places(o[i])) <= rd(w) + 1
  <2> DEFINE q == rd(w)
             T == 0..q
             g == [n \in Places(o[i]) |-> rd(pos[n])]
  <2>1. q \in Nat
    BY <1>1, <1>9
  <2>2. ASSUME NEW n \in Places(o[i]) PROVE n \in Nat /\ pos[n] \in P /\ o[pos[n]] = o[i] /\ rd(pos[n]) \in T
    <3>1. n \in 1..m /\ pos[n] \in P /\ o[pos[n]] = o[i]
      BY <1>4, <1>12
    <3>2. t(pos[n]) = n - 1 /\ n - 1 < m
      BY <1>4, <3>1
    <3>3. t(pos[n]) < t(w)
      BY <1>3, <1>9, <3>1, <3>2
    <3>4. rd(pos[n]) <= rd(w) /\ rd(pos[n]) \in Nat
      BY <1>1, <1>7, <1>9, <3>1, <3>3
    <3> QED BY <2>1, <3>1, <3>4
  <2>3. ASSUME NEW n \in Places(o[i]), NEW k \in Places(o[i]), rd(pos[n]) = rd(pos[k])
        PROVE  n = k
    <3>1. pos[n] = pos[k]
      BY <1>1, <2>2, <2>3
    <3>2. n \in 1..m /\ k \in 1..m
      BY <1>12
    <3>3. n - 1 = k - 1
      BY <1>4, <3>1, <3>2
    <3> QED BY <3>2, <3>3
  <2> HIDE DEF q
  <2>4. IsFiniteSet(T) /\ Cardinality(T) = q + 1
    <3>1. /\ IsFiniteSet(0..q)
          /\ Cardinality(0..q) = IF 0 > q THEN 0 ELSE q - 0 + 1
      BY <2>1, FS_Interval
    <3> QED BY <2>1, <3>1
  <2> HIDE DEF T
  <2>5. g \in Injection(Places(o[i]), T)
    BY <2>2, <2>3 DEF Injection, IsInjective
  <2> HIDE DEF g
  <2>6. Cardinality(Places(o[i])) <= Cardinality(T)
    BY <2>4, <2>5, FS_Injection
  <2> QED BY <2>4, <2>6 DEF q
<1>15. rd(w) \in Nat
  BY <1>1, <1>9
<1>16. Cardinality(Places(o[i])) <= Cardinality(Places(o[j])) + 1
  BY <1>11, <1>13, <1>14, <1>15
<1> QED BY <1>16 DEF Places

(* _fair_batch's turns are the ranks of that order. *)
LEMMA TurnFact ==
    ASSUME NEW es, NEW P, NEW i \in P
    PROVE  Turn(es, P, i) = Rank(P, Earlier(P, [k \in P |-> Origin[store[es[k]]]]), i)
<1> DEFINE o == [k \in P |-> Origin[store[es[k]]]]
           origin(j) == Origin[store[es[j]]]
           same(j) == {k \in P : origin(k) = origin(j)}
           round(j) == Cardinality({k \in same(j) : k < j})
           first(j) == CHOOSE k \in same(j) : \A l \in same(j) : k <= l
           before(j) == \/ round(j) < round(i)
                        \/ round(j) = round(i) /\ first(j) < first(i)
<1>1. Turn(es, P, i) = Cardinality({j \in P : before(j)})
  BY DEF Turn
<1>2. \A j \in P : o[j] = origin(j)
  OBVIOUS
<1> HIDE DEF o, origin
<1>3. \A j \in P : same(j) = Alike(P, o, j)
  BY <1>2 DEF Alike
<1> HIDE DEF same
<1>4. \A j \in P : round(j) = Round(P, o, j) /\ first(j) = First(P, o, j)
  BY <1>3 DEF Round, First
<1> HIDE DEF round, first
<1>5. \A j \in P : <<j, i>> \in Earlier(P, o) <=> before(j)
  BY <1>4 DEF Earlier
<1> HIDE DEF before
<1>6. {j \in P : before(j)} = {j \in P : <<j, i>> \in Earlier(P, o)}
  BY <1>5
<1> QED BY <1>1, <1>6 DEF Rank, o

(* No two positions have the same turn. *)
LEMMA TurnsDiffer ==
    ASSUME NEW P \in SUBSET Nat, IsFiniteSet(P), NEW o, NEW i \in P, NEW j \in P,
           Rank(P, Earlier(P, o), i) = Rank(P, Earlier(P, o), j)
    PROVE  i = j
<1> DEFINE R == Earlier(P, o)
<1>1. StrictOrder(P, R)
  BY RoundsFact
<1> HIDE DEF R
<1>2. /\ Cardinality(P) \in Nat
      /\ \A x \in P : Rank(P, R, x) \in 0..(Cardinality(P) - 1)
      /\ \A x, y \in P : <<x, y>> \in R => Rank(P, R, x) < Rank(P, R, y)
  BY <1>1, RankFact
<1>3. Rank(P, R, i) \in Nat /\ Rank(P, R, i) = Rank(P, R, j)
  BY <1>2 DEF R
<1>4. ~(Rank(P, R, i) < Rank(P, R, j)) /\ ~(Rank(P, R, j) < Rank(P, R, i))
  BY <1>3
<1> QED BY <1>1, <1>2, <1>4 DEF StrictOrder

(* A batch is of events, and shared out fairly. *)
LEMMA FairBatchFact ==
    ASSUME Lines(store), KeyList(keys, acked),
           NEW n \in Nat, NEW es, Reads(es, n, store)
    PROVE  /\ FairBatch(es, keys) \in Seq(Events)
           /\ \A d : d.entries = es /\ d.delivered = keys /\ d.batch = FairBatch(es, keys)
                       => Fair(d, store)
<1> DEFINE P == {i \in 1..Len(es) : store[es[i]] \notin Range(keys)}
           o == [k \in P |-> Origin[store[es[k]]]]
           c == Cardinality(P)
           m == AtMost(BatchSize, c)
           t(k) == Rank(P, Earlier(P, o), k)
           pos == [p \in 1..m |-> CHOOSE i \in P : t(i) = p - 1]
           b == FairBatch(es, keys)
<1>1. es \in Seq(Nat) /\ Len(es) \in Nat
  BY DEF Reads
<1>2. ASSUME NEW i \in 1..Len(es)
      PROVE  es[i] \in 1..Len(store) /\ store[es[i]] # Malformed /\ store[es[i]] \in Events
  <2>1. es[i] \in Nat /\ es[i] > n /\ es[i] <= Len(store) /\ store[es[i]] # Malformed
    BY <1>1 DEF Reads
  <2>2. es[i] \in 1..Len(store)
    BY <2>1 DEF Lines
  <2> QED BY <2>1, <2>2, LineFact
<1>3. P \in SUBSET Nat /\ P \in SUBSET (1..Len(es)) /\ IsFiniteSet(P)
  <2>1. P \in SUBSET Nat /\ P \in SUBSET (1..Len(es))
    BY <1>1
  <2>2. IsFiniteSet(1..Len(es))
    BY <1>1, FS_Interval
  <2> HIDE DEF P
  <2> QED BY <2>1, <2>2, FS_Subset
<1>4. \A i \in 1..Len(es) : store[es[i]] \notin Range(keys) => i \in P
  OBVIOUS
<1>5. b = [p \in 1..m |-> store[es[CHOOSE i \in P : Turn(es, P, i) = p - 1]]]
  BY DEF FairBatch
<1>6. \A i \in P : Turn(es, P, i) = t(i)
  <2> HIDE DEF P
  <2> QED BY TurnFact
<1> HIDE DEF P
<1>7. \A i \in P : o[i] = Origin[store[es[i]]]
  OBVIOUS
<1> HIDE DEF o
<1>8. /\ c \in Nat /\ \A i \in P : t(i) \in 0..(c - 1)
      /\ \A p \in 0..(c - 1) : \E i \in P : t(i) = p
  <2>1. StrictOrder(P, Earlier(P, o))
    BY <1>3, RoundsFact
  <2> QED BY <1>3, <2>1, RankFact
<1> HIDE DEF t, c
<1>9. m \in Nat /\ m <= c
  BY <1>8, ExportFacts DEF AtMost
<1> HIDE DEF m
<1>10. \A p \in 1..m : (CHOOSE i \in P : Turn(es, P, i) = p - 1) = (CHOOSE i \in P : t(i) = p - 1)
  BY <1>6
<1>11. ASSUME NEW p \in 1..m PROVE pos[p] \in P /\ t(pos[p]) = p - 1
  <2>1. \E i \in P : t(i) = p - 1
    <3>1. p - 1 \in 0..(c - 1)
      BY <1>8, <1>9
    <3> QED BY <1>8, <3>1
  <2>2. pos[p] = CHOOSE i \in P : t(i) = p - 1
    OBVIOUS
  <2> HIDE DEF pos
  <2> QED BY <2>1, <2>2
<1>12. \A p \in 1..m : b[p] = store[es[pos[p]]]
  <2> DEFINE g(p) == CHOOSE i \in P : Turn(es, P, i) = p - 1
  <2>1. b = [p \in 1..m |-> store[es[g(p)]]]
    BY <1>5
  <2>2. \A p \in 1..m : pos[p] = g(p)
    BY <1>10
  <2> HIDE DEF g, pos
  <2> QED BY <2>1, <2>2
<1>13. pos \in [1..m -> P]
  <2>1. pos = [p \in 1..m |-> pos[p]]
    OBVIOUS
  <2> HIDE DEF pos
  <2> QED BY <1>11, <2>1
<1>14. DOMAIN b = 1..m
  <2> DEFINE g(p) == store[es[CHOOSE i \in P : Turn(es, P, i) = p - 1]]
  <2>1. b = [p \in 1..m |-> g(p)]
    BY <1>5
  <2> HIDE DEF g, b
  <2> QED BY <2>1
<1>15. b = [p \in 1..m |-> b[p]]
  <2> DEFINE g(p) == store[es[CHOOSE i \in P : Turn(es, P, i) = p - 1]]
  <2>1. b = [p \in 1..m |-> g(p)]
    BY <1>5
  <2> HIDE DEF g, b
  <2> QED BY <2>1
<1> HIDE DEF pos, b
<1>16. \A p \in 1..m : b[p] \in Events /\ pos[p] \in 1..Len(es)
  BY <1>2, <1>3, <1>11, <1>12
<1>17. b \in Seq(Events) /\ Len(b) = m
  BY <1>9, <1>15, <1>16
<1>18. ASSUME NEW d, d.entries = es, d.delivered = keys, d.batch = b
       PROVE  Fair(d, store)
  <2> SUFFICES ASSUME NEW e \in Waiting(d, store), NEW f \in Range(b)
               PROVE  Share(b, Origin[f]) <= Share(b, Origin[e]) + 1
    BY <1>18 DEF Fair
  <2>1. PICK j \in 1..Len(es) : e = store[es[j]] /\ e \notin Range(keys) /\ e \notin Range(b)
    BY <1>18 DEF Waiting
  <2>2. PICK q \in 1..m : f = b[q]
    BY <1>14 DEF Range
  <2> DEFINE i == pos[q]
  <2>3. i \in P /\ f = store[es[i]] /\ o[i] = Origin[f]
    BY <1>7, <1>11, <1>12, <2>2
  <2>4. j \in P /\ o[j] = Origin[e]
    BY <1>4, <1>7, <2>1
  <2>5. t(j) >= m
    <3> SUFFICES ASSUME t(j) < m PROVE FALSE
      BY <1>8, <1>9, <2>4
    <3>1. t(j) \in Nat
      BY <1>8, <2>4
    <3>2. t(j) + 1 \in 1..m /\ (t(j) + 1) - 1 = t(j)
      BY <1>9, <3>1
    <3>3. pos[t(j) + 1] \in P /\ t(pos[t(j) + 1]) = t(j)
      BY <1>11, <3>2
    <3>4. pos[t(j) + 1] = j
      BY <1>3, <2>4, <3>3, TurnsDiffer DEF t
    <3>5. e = b[t(j) + 1]
      BY <1>12, <2>1, <3>2, <3>4
    <3> QED BY <1>17, <2>1, <3>2, <3>5, HoldsFact
  <2> HIDE DEF i
  <2>6. Cardinality(PlacesOf(m, pos, o, o[i])) <= Cardinality(PlacesOf(m, pos, o, o[j])) + 1
    <3>1. m <= Cardinality(P)
      BY <1>9 DEF c
    <3>2. \A p \in 1..m : Rank(P, Earlier(P, o), pos[p]) = p - 1
      BY <1>11 DEF t
    <3>3. Rank(P, Earlier(P, o), j) >= m
      BY <2>5 DEF t
    <3>4. P \in SUBSET Nat /\ IsFiniteSet(P) /\ m \in Nat /\ i \in P /\ j \in P
      BY <1>3, <1>9, <2>3, <2>4
    <3> QED BY <1>13, <3>1, <3>2, <3>3, <3>4, SharesFact
  <2>7. \A a : PlacesOf(m, pos, o, a) = {p \in 1..Len(b) : Origin[b[p]] = a}
    <3>1. \A p \in 1..m : o[pos[p]] = Origin[b[p]]
      BY <1>7, <1>11, <1>12
    <3> QED BY <1>17, <3>1 DEF PlacesOf
  <2>8. \A a : Share(b, a) = Cardinality(PlacesOf(m, pos, o, a))
    BY <2>7 DEF Share
  <2> QED BY <2>3, <2>4, <2>6, <2>8
<1> QED BY <1>17, <1>18 DEF b

(* What is settled or held stays so when lines are added and events acknowledged. *)
LEMMA MoreSettled ==
    ASSUME NEW ac, NEW ac2, ac \subseteq ac2, NEW st, NEW st2,
           NEW n \in Nat, \A i \in 1..n : st2[i] = st[i], Settled(n, st, ac)
    PROVE  Settled(n, st2, ac2)
BY DEF Settled

LEMMA MoreAcknowledged ==
    ASSUME NEW ac, NEW ac2, ac \subseteq ac2, NEW ks, KeyList(ks, ac)
    PROVE  KeyList(ks, ac2)
BY DEF KeyList

LEMMA DrainFrame ==
    ASSUME NEW st, Lines(st), NEW st2, Lines(st2), Len(st) <= Len(st2),
           \A i \in 1..Len(st) : st2[i] = st[i],
           NEW ac, NEW ac2, ac \subseteq ac2, NEW d, DrainOK(d, st, ac)
    PROVE  DrainOK(d, st2, ac2)
<1>1. Len(st) \in Nat /\ Len(st2) \in Nat
  BY DEF Lines
<1>2. /\ d \in Drains /\ d.start \in Nat /\ d.start <= Len(st) /\ Settled(d.start, st, ac)
      /\ Reads(d.entries, d.start, st) /\ d.entries \in Seq(Nat) /\ Len(d.entries) \in Nat
      /\ d.prefix \in Nat /\ d.prefix <= Len(d.entries)
  BY DEF DrainOK, Drains
<1>3. \A i \in 1..Len(d.entries) :
         d.entries[i] > d.start /\ d.entries[i] \in 1..Len(st) /\ st[d.entries[i]] # Malformed
  BY <1>1, <1>2 DEF Reads
<1>4. \A i \in 1..Len(d.entries) : st2[d.entries[i]] = st[d.entries[i]]
  BY <1>3
<1>5. Settled(d.start, st2, ac2)
  <2>1. \A i \in 1..d.start : st2[i] = st[i]
    BY <1>1, <1>2
  <2> QED BY <1>2, <2>1, MoreSettled
<1>6. Reads(d.entries, d.start, st2)
  <2>1. \A i \in 1..Len(d.entries) :
           d.entries[i] > d.start /\ d.entries[i] <= Len(st2) /\ st2[d.entries[i]] # Malformed
    BY <1>1, <1>3, <1>4
  <2>2. ASSUME NEW i \in 1..Len(d.entries), NEW p \in 1..Len(st2),
               p > d.start, p <= d.entries[i], st2[p] # Malformed
        PROVE  \E j \in 1..Len(d.entries) : j <= i /\ d.entries[j] = p
    <3>1. p \in 1..Len(st) /\ st[p] # Malformed
      BY <1>1, <1>3, <2>2
    <3> QED BY <1>2, <2>2, <3>1 DEF Reads
  <2>3. \A i, j \in 1..Len(d.entries) : i < j => d.entries[i] < d.entries[j]
    BY <1>2 DEF Reads
  <2> QED BY <1>2, <2>1, <2>2, <2>3 DEF Reads
<1>7. \A i \in 1..d.prefix : st2[d.entries[i]] \in ac2
  <2>1. \A i \in 1..d.prefix : i \in 1..Len(d.entries) /\ st[d.entries[i]] \in ac
    BY <1>2 DEF DrainOK
  <2> QED BY <1>4, <2>1
<1>8. KeyList(d.delivered, ac2)
  BY MoreAcknowledged DEF DrainOK
<1>9. d.at = "sink" => Fair(d, st2)
  <2>1. Waiting(d, st2) = Waiting(d, st)
    BY <1>4 DEF Waiting
  <2> QED BY <2>1 DEF DrainOK, Fair
<1>10. d.start <= Len(st2)
  BY <1>1, <1>2
<1>11. d.at \notin {"keys", "cursor"} => d.prefix = 0
  BY DEF DrainOK
<1> QED BY <1>2, <1>5, <1>6, <1>7, <1>8, <1>9, <1>10, <1>11 DEF DrainOK

(* A drain that holds nothing. *)
LEMMA EmptyOK ==
    ASSUME NEW st, Lines(st), NEW ac, NEW a \in {"idle", "leased", "read", "release"}
    PROVE  DrainOK([Idle EXCEPT !.at = a], st, ac)
<1> DEFINE d == [Idle EXCEPT !.at = a]
<1>1. /\ d \in Drains /\ d.at = a /\ d.start = 0 /\ d.entries = <<>> /\ d.delivered = <<>>
      /\ d.batch = <<>> /\ d.prefix = 0
  <2>1. d = [at |-> a, start |-> 0, entries |-> <<>>, delivered |-> <<>>,
             batch |-> <<>>, prefix |-> 0]
    BY DEF Idle
  <2>2. <<>> \in Seq(Nat) /\ <<>> \in Seq(Events)
    OBVIOUS
  <2> HIDE DEF d
  <2> QED BY <2>1, <2>2 DEF Drains
<1> HIDE DEF d
<1>2. Settled(0, st, ac)
  BY DEF Settled
<1>3. Reads(<<>>, 0, st)
  BY DEF Reads
<1>4. KeyList(<<>>, ac)
  BY ExportFacts DEF KeyList
<1>5. Len(st) \in Nat /\ 0 <= Len(st)
  BY DEF Lines
<1>6. d.at # "sink"
  BY <1>1
<1> QED BY <1>1, <1>2, <1>3, <1>4, <1>5, <1>6 DEF DrainOK, d

(* A step of one drain that adds no line. *)
LEMMA DrainStep ==
    ASSUME Lines(store), drain \in [Exporters -> Drains],
           \A y \in Exporters : DrainOK(drain[y], store, acked),
           NEW x \in Exporters, NEW e, drain' = [drain EXCEPT ![x] = e],
           store' = store, acked \subseteq acked', DrainOK(e, store, acked')
    PROVE  /\ drain' \in [Exporters -> Drains]
           /\ \A y \in Exporters : DrainOK(drain'[y], store', acked')
<1>1. e \in Drains
  BY DEF DrainOK
<1>2. drain' \in [Exporters -> Drains]
  BY <1>1
<1>3. ASSUME NEW y \in Exporters PROVE DrainOK(drain'[y], store', acked')
  <2>1. CASE y = x
    <3>1. drain'[y] = e
      BY <2>1
    <3> QED BY <3>1
  <2>2. CASE y # x
    <3>1. drain'[y] = drain[y] /\ DrainOK(drain[y], store, acked)
      BY <2>2
    <3>2. Len(store) <= Len(store) /\ \A i \in 1..Len(store) : store[i] = store[i]
      BY DEF Lines
    <3>3. DrainOK(drain[y], store, acked')
      BY <3>1, <3>2, DrainFrame
    <3> QED BY <3>1, <3>3
  <2> QED BY <2>1, <2>2
<1> QED BY <1>2, <1>3

(* What the invariant says of one drain. *)
LEMMA ExportState ==
    ExportIInv =>
      /\ Lines(store) /\ Len(store) \in Nat
      /\ cursor \in Nat /\ cursor <= Len(store) /\ Settled(cursor, store, acked)
      /\ KeyList(keys, acked) /\ lease \in {"none", "live", "expired"}
      /\ drain \in [Exporters -> Drains]
      /\ \A x \in Exporters : DrainOK(drain[x], store, acked) /\ drain[x] \in Drains
BY DEF ExportIInv, Lines

(* A step of one drain that leaves the lines, the cursor and the keys. *)
LEMMA QuietStep ==
    ASSUME ExportIInv, NEW x \in Exporters, NEW e, drain' = [drain EXCEPT ![x] = e],
           UNCHANGED <<store, cursor, keys>>, acked \subseteq acked',
           lease' \in {"none", "live", "expired"}, DrainOK(e, store, acked')
    PROVE  ExportIInv'
<1>1. /\ Lines(store) /\ Len(store) \in Nat
      /\ cursor \in Nat /\ cursor <= Len(store) /\ Settled(cursor, store, acked)
      /\ KeyList(keys, acked) /\ drain \in [Exporters -> Drains]
      /\ \A y \in Exporters : DrainOK(drain[y], store, acked)
  BY ExportState
<1>2. /\ drain' \in [Exporters -> Drains]
      /\ \A y \in Exporters : DrainOK(drain'[y], store', acked')
  BY <1>1, DrainStep
<1>3. KeyList(keys, acked') /\ Settled(cursor, store, acked')
  BY <1>1, MoreAcknowledged, MoreSettled
<1>4. Lines(store)' /\ (cursor \in 0..Len(store))'
  BY <1>1 DEF Lines
<1>5. KeyList(keys', acked') /\ Settled(cursor', store', acked')
  BY <1>3
<1> QED BY <1>2, <1>4, <1>5 DEF ExportIInv

LEMMA EmitKeeps == ExportIInv /\ Emit => ExportIInv'
<1> SUFFICES ASSUME ExportIInv, Emit PROVE ExportIInv'
  OBVIOUS
<1>1. /\ Lines(store) /\ Len(store) \in Nat
      /\ cursor \in Nat /\ cursor <= Len(store) /\ Settled(cursor, store, acked)
      /\ KeyList(keys, acked) /\ drain \in [Exporters -> Drains]
      /\ \A y \in Exporters : DrainOK(drain[y], store, acked)
  BY ExportState
<1>2. /\ UNCHANGED <<cursor, keys, lease, drain, acked>>
      /\ Len(store) + 1 \in 1..Len(Written)
      /\ store' = Append(store, Malformed) \/ store' = Append(store, Written[Len(store) + 1])
  BY <1>1, WrittenFact DEF Emit, Appended
<1> DEFINE w == Written[Len(store) + 1]
<1>3. w \in Events
  BY <1>2, WrittenFact
<1> HIDE DEF w
<1>4. PICK v \in {Malformed, w} : store' = Append(store, v)
  BY <1>2 DEF w
<1>5. store \in Seq(Events \cup {Malformed})
  BY <1>1 DEF Lines
<1>6. /\ store' \in Seq(Events \cup {Malformed}) /\ Len(store') = Len(store) + 1
      /\ \A i \in 1..Len(store) : store'[i] = store[i]
      /\ store'[Len(store) + 1] = v
  BY <1>3, <1>4, <1>5
<1>7. Lines(store')
  <2>1. ASSUME NEW i \in 1..Len(store') PROVE store'[i] = Written[i] \/ store'[i] = Malformed
    <3>1. CASE i = Len(store) + 1
      BY <1>4, <1>6, <3>1 DEF w
    <3>2. CASE i # Len(store) + 1
      <4>1. i \in 1..Len(store)
        BY <1>1, <1>6, <3>2
      <4> QED BY <1>1, <1>6, <4>1 DEF Lines
    <3> QED BY <3>1, <3>2
  <2>2. Len(store') <= Len(Written)
    BY <1>2, <1>6
  <2> QED BY <1>6, <2>1, <2>2 DEF Lines
<1>8. ASSUME NEW y \in Exporters PROVE DrainOK(drain'[y], store', acked')
  <2>1. Len(store) <= Len(store')
    BY <1>1, <1>6
  <2>2. DrainOK(drain[y], store', acked)
    BY <1>1, <1>6, <1>7, <2>1, DrainFrame
  <2> QED BY <1>2, <2>2
<1>9. Settled(cursor, store', acked)
  <2>1. \A i \in 1..cursor : store'[i] = store[i]
    BY <1>1, <1>6
  <2> QED BY <1>1, <2>1, MoreSettled
<1>10. cursor \in 0..Len(store')
  BY <1>1, <1>6
<1>11. KeyList(keys', acked') /\ Settled(cursor', store', acked') /\ cursor' \in 0..Len(store')
       /\ drain' \in [Exporters -> Drains] /\ lease' \in {"none", "live", "expired"}
  BY <1>1, <1>2, <1>9, <1>10, ExportState
<1> QED BY <1>7, <1>8, <1>11 DEF ExportIInv

LEMMA AcquireKeeps ==
    ASSUME NEW x \in Exporters PROVE ExportIInv /\ Acquire(x) => ExportIInv'
<1> SUFFICES ASSUME ExportIInv, Acquire(x) PROVE ExportIInv'
  OBVIOUS
<1> DEFINE d == drain[x]
           e == [d EXCEPT !.at = "leased"]
<1>1. DrainOK(d, store, acked) /\ d \in Drains /\ d.at = "idle"
  BY ExportState DEF Acquire
<1>2. /\ drain' = [drain EXCEPT ![x] = e] /\ lease' \in {"none", "live", "expired"}
      /\ UNCHANGED <<store, cursor, keys>> /\ acked \subseteq acked' /\ acked' = acked
  BY DEF Acquire
<1> HIDE DEF d
<1>3. /\ e \in Drains /\ e.start = d.start /\ e.entries = d.entries /\ e.prefix = d.prefix
      /\ e.delivered = d.delivered /\ e.batch = d.batch /\ e.at = "leased"
  BY <1>1 DEF Drains
<1> HIDE DEF e
<1>4. DrainOK(e, store, acked)
  BY <1>1, <1>3 DEF DrainOK
<1> QED BY <1>2, <1>4, QuietStep

LEMMA ReadCursorKeeps ==
    ASSUME NEW x \in Exporters PROVE ExportIInv /\ ReadCursor(x) => ExportIInv'
<1> SUFFICES ASSUME ExportIInv, ReadCursor(x) PROVE ExportIInv'
  OBVIOUS
<1> DEFINE d == drain[x]
           es == ReadEntries(cursor)
           a == IF es = <<>> THEN "cursor" ELSE "read"
           e == [d EXCEPT !.at = a, !.start = cursor, !.entries = es]
<1>1. /\ DrainOK(d, store, acked) /\ d \in Drains /\ d.at = "leased"
      /\ Lines(store) /\ cursor \in Nat /\ cursor <= Len(store)
      /\ Settled(cursor, store, acked) /\ lease \in {"none", "live", "expired"}
  BY ExportState DEF ReadCursor
<1>2. /\ drain' = [drain EXCEPT ![x] = e] /\ lease' = lease
      /\ UNCHANGED <<store, cursor, keys>> /\ acked \subseteq acked' /\ acked' = acked
  BY DEF ReadCursor
<1>3. Reads(es, cursor, store)
  <2>1. store \in Seq(Events \cup {Malformed})
    BY <1>1 DEF Lines
  <2> QED BY <1>1, <2>1, ReadEntriesFact
<1>4. a \in {"cursor", "read"}
  OBVIOUS
<1> HIDE DEF d, es, a
<1>5. es \in Seq(Nat) /\ Len(es) \in Nat
  BY <1>3 DEF Reads
<1>6. /\ e \in Drains /\ e.start = cursor /\ e.entries = es /\ e.prefix = d.prefix
      /\ e.delivered = d.delivered /\ e.batch = d.batch /\ e.at = a
  BY <1>1, <1>4, <1>5 DEF Drains
<1>7. d.prefix = 0 /\ KeyList(d.delivered, acked)
  BY <1>1 DEF DrainOK
<1> HIDE DEF e
<1>8. e.at # "sink" /\ e.prefix = 0 /\ e.prefix <= Len(e.entries)
      /\ \A i \in 1..e.prefix : store[e.entries[i]] \in acked
  BY <1>4, <1>5, <1>6, <1>7
<1>9. DrainOK(e, store, acked)
  BY <1>1, <1>3, <1>6, <1>7, <1>8 DEF DrainOK
<1> QED BY <1>1, <1>2, <1>9, QuietStep

(* A drain that gives up, and one that starts over, hold nothing. *)
LEMMA LeaveKeeps ==
    ASSUME ExportIInv, NEW x \in Exporters, Leave(x),
           UNCHANGED <<store, cursor, keys, lease>>, acked \subseteq acked'
    PROVE  ExportIInv'
<1> DEFINE e == [Idle EXCEPT !.at = "release"]
<1>1. DrainOK(e, store, acked')
  BY ExportState, EmptyOK
<1>2. drain' = [drain EXCEPT ![x] = e] /\ lease' \in {"none", "live", "expired"}
  BY ExportState DEF Leave
<1> HIDE DEF e
<1>3. UNCHANGED <<store, cursor, keys>>
  OBVIOUS
<1> QED BY <1>1, <1>2, <1>3, QuietStep

LEMMA IdleKeeps ==
    ASSUME ExportIInv, NEW x \in Exporters, drain' = [drain EXCEPT ![x] = Idle],
           UNCHANGED <<store, cursor, keys, acked>>, lease' \in {"none", "live", "expired"}
    PROVE  ExportIInv'
<1>1. Idle = [Idle EXCEPT !.at = "idle"]
  BY DEF Idle
<1>2. DrainOK([Idle EXCEPT !.at = "idle"], store, acked)
  BY ExportState, EmptyOK
<1>3. DrainOK(Idle, store, acked')
  BY <1>1, <1>2
<1>4. UNCHANGED <<store, cursor, keys>> /\ acked \subseteq acked'
  OBVIOUS
<1> QED BY <1>3, <1>4, QuietStep

LEMMA SendKeeps ==
    ASSUME NEW x \in Exporters PROVE ExportIInv /\ Send(x) => ExportIInv'
<1> SUFFICES ASSUME ExportIInv, Send(x) PROVE ExportIInv'
  OBVIOUS
<1> DEFINE d == drain[x]
           b == FairBatch(d.entries, keys)
           e == [d EXCEPT !.at = "sink", !.delivered = keys, !.batch = b]
<1>1. /\ DrainOK(d, store, acked) /\ d \in Drains /\ d.at = "read"
      /\ Lines(store) /\ KeyList(keys, acked) /\ lease \in {"none", "live", "expired"}
  BY ExportState DEF Send
<1>2. UNCHANGED <<store, cursor, keys, lease, acked>> /\ acked \subseteq acked'
  BY DEF Send
<1>3. CASE Leave(x)
  <2>1. UNCHANGED <<store, cursor, keys, lease>>
    BY <1>2
  <2> QED BY <1>2, <1>3, <2>1, LeaveKeeps
<1>4. CASE ~Leave(x)
  <2>1. drain' = [drain EXCEPT ![x] = e]
    BY <1>4 DEF Send
  <2>2. /\ b \in Seq(Events)
        /\ \A y : y.entries = d.entries /\ y.delivered = keys /\ y.batch = b => Fair(y, store)
    <3>1. Reads(d.entries, d.start, store) /\ d.start \in Nat
      BY <1>1 DEF DrainOK, Drains
    <3> QED BY <1>1, <3>1, FairBatchFact
  <2> HIDE DEF d, b
  <2>3. keys \in Seq(Events)
    BY <1>1 DEF KeyList
  <2>4. /\ e \in Drains /\ e.start = d.start /\ e.entries = d.entries /\ e.prefix = d.prefix
        /\ e.delivered = keys /\ e.batch = b /\ e.at = "sink"
    BY <1>1, <2>2, <2>3 DEF Drains
  <2> HIDE DEF e
  <2>5. Fair(e, store)
    BY <2>2, <2>4
  <2>6. DrainOK(e, store, acked)
    BY <1>1, <2>4, <2>5 DEF DrainOK
  <2>7. DrainOK(e, store, acked') /\ lease' \in {"none", "live", "expired"}
        /\ UNCHANGED <<store, cursor, keys>>
    BY <1>1, <1>2, <2>6
  <2> QED BY <1>2, <2>1, <2>7, QuietStep
<1> QED BY <1>3, <1>4

LEMMA SinkFailsKeeps ==
    ASSUME NEW x \in Exporters PROVE ExportIInv /\ SinkFails(x) => ExportIInv'
<1> SUFFICES ASSUME ExportIInv, SinkFails(x) PROVE ExportIInv'
  OBVIOUS
<1>1. Leave(x) /\ UNCHANGED <<store, cursor, keys, lease>> /\ acked \subseteq acked'
  BY DEF SinkFails
<1> QED BY <1>1, LeaveKeeps

LEMMA SinkAcknowledgesKeeps ==
    ASSUME NEW x \in Exporters, NEW ack
    PROVE  ExportIInv /\ SinkAcknowledges(x, ack) => ExportIInv'
<1> SUFFICES ASSUME ExportIInv, SinkAcknowledges(x, ack) PROVE ExportIInv'
  OBVIOUS
<1> DEFINE d == drain[x]
           n == Consumed(d, ack)
           e == [d EXCEPT !.at = "keys", !.batch = <<>>, !.prefix = n]
<1>1. /\ DrainOK(d, store, acked) /\ d \in Drains /\ d.at = "sink"
      /\ Lines(store) /\ lease \in {"none", "live", "expired"}
  BY ExportState DEF SinkAcknowledges
<1>2. /\ UNCHANGED <<store, cursor, keys, lease>> /\ acked' = acked \cup ack
      /\ acked \subseteq acked'
  BY DEF SinkAcknowledges
<1>3. CASE Leave(x)
  BY <1>2, <1>3, LeaveKeeps
<1>4. CASE ~Leave(x)
  <2>1. drain' = [drain EXCEPT ![x] = e]
    BY <1>4 DEF SinkAcknowledges
  <2>2. /\ n \in 0..Len(d.entries)
        /\ \A i \in 1..n : store[d.entries[i]] \in Range(d.delivered) \cup ack
    <3>1. d.entries \in Seq(Nat)
      BY <1>1 DEF Drains
    <3> QED BY <3>1, ConsumedFact
  <2> HIDE DEF d, n
  <2>3. KeyList(d.delivered, acked') /\ Range(d.delivered) \subseteq acked'
    <3>1. KeyList(d.delivered, acked) /\ d.delivered \in Seq(Events)
      BY <1>1 DEF DrainOK, Drains
    <3>2. KeyList(d.delivered, acked')
      BY <1>2, <3>1, MoreAcknowledged
    <3> QED BY <3>1, <3>2, HoldsFact DEF KeyList
  <2>4. Len(d.entries) \in Nat /\ n \in Nat /\ n <= Len(d.entries)
    <3>1. d.entries \in Seq(Nat)
      BY <1>1 DEF Drains
    <3> QED BY <2>2, <3>1
  <2>5. /\ e \in Drains /\ e.start = d.start /\ e.entries = d.entries /\ e.prefix = n
        /\ e.delivered = d.delivered /\ e.batch = <<>> /\ e.at = "keys"
    <3> DEFINE z == <<>>
    <3>1. z \in Seq(Events)
      OBVIOUS
    <3> HIDE DEF z
    <3>2. e = [d EXCEPT !.at = "keys", !.batch = z, !.prefix = n]
      BY DEF z
    <3> HIDE DEF e
    <3>3. /\ e \in Drains /\ e.start = d.start /\ e.entries = d.entries /\ e.prefix = n
          /\ e.delivered = d.delivered /\ e.batch = z /\ e.at = "keys"
      BY <1>1, <2>4, <3>1, <3>2 DEF Drains
    <3> QED BY <3>3 DEF z
  <2> HIDE DEF e
  <2>6. \A i \in 1..e.prefix : store[e.entries[i]] \in acked'
    BY <1>2, <2>2, <2>3, <2>5
  <2>7. Settled(d.start, store, acked')
    <3>1. Settled(d.start, store, acked) /\ d.start \in Nat
      BY <1>1 DEF DrainOK, Drains
    <3> QED BY <1>2, <3>1, MoreSettled
  <2>8. DrainOK(e, store, acked')
    BY <1>1, <2>3, <2>4, <2>5, <2>6, <2>7 DEF DrainOK
  <2>9. lease' \in {"none", "live", "expired"} /\ UNCHANGED <<store, cursor, keys>>
    BY <1>1, <1>2
  <2> QED BY <1>2, <2>1, <2>8, <2>9, QuietStep
<1> QED BY <1>3, <1>4

LEMMA SaveKeysKeeps ==
    ASSUME NEW x \in Exporters PROVE ExportIInv /\ SaveKeys(x) => ExportIInv'
<1> SUFFICES ASSUME ExportIInv, SaveKeys(x) PROVE ExportIInv'
  OBVIOUS
<1> DEFINE d == drain[x]
           e == [d EXCEPT !.at = "cursor", !.delivered = <<>>]
<1>1. /\ DrainOK(d, store, acked) /\ d \in Drains /\ d.at = "keys" /\ Lines(store)
      /\ drain \in [Exporters -> Drains]
      /\ \A y \in Exporters : DrainOK(drain[y], store, acked)
  BY ExportState DEF SaveKeys
<1>2. /\ drain' = [drain EXCEPT ![x] = e] /\ keys' = KeysAfter(d)
      /\ UNCHANGED <<store, cursor, lease, acked>>
  BY DEF SaveKeys
<1>3. KeyList(KeysAfter(d), acked)
  BY <1>1, KeysAfterFact
<1> HIDE DEF d
<1>4. /\ e \in Drains /\ e.start = d.start /\ e.entries = d.entries /\ e.prefix = d.prefix
      /\ e.delivered = <<>> /\ e.batch = d.batch /\ e.at = "cursor"
  <2> DEFINE z == <<>>
  <2>1. z \in Seq(Events)
    OBVIOUS
  <2> HIDE DEF z
  <2>2. e = [d EXCEPT !.at = "cursor", !.delivered = z]
    BY DEF z
  <2> HIDE DEF e
  <2>3. /\ e \in Drains /\ e.start = d.start /\ e.entries = d.entries /\ e.prefix = d.prefix
        /\ e.delivered = z /\ e.batch = d.batch /\ e.at = "cursor"
    BY <1>1, <2>1, <2>2 DEF Drains
  <2> QED BY <2>3 DEF z
<1> HIDE DEF e
<1>5. KeyList(<<>>, acked)
  BY ExportFacts DEF KeyList
<1>6. DrainOK(e, store, acked)
  BY <1>1, <1>4, <1>5 DEF DrainOK
<1>7. DrainOK(e, store, acked') /\ acked \subseteq acked' /\ store' = store
  BY <1>2, <1>6
<1>8. /\ drain' \in [Exporters -> Drains]
      /\ \A y \in Exporters : DrainOK(drain'[y], store', acked')
  BY <1>1, <1>2, <1>7, DrainStep
<1>9. /\ Lines(store') /\ cursor' \in 0..Len(store') /\ Settled(cursor', store', acked')
      /\ lease' \in {"none", "live", "expired"} /\ KeyList(keys', acked')
  BY <1>2, <1>3 DEF ExportIInv
<1> QED BY <1>8, <1>9 DEF ExportIInv

(* Up to the last consumed entry nothing is left out, and every entry is acknowledged. *)
LEMMA SaveCursorKeeps ==
    ASSUME NEW x \in Exporters PROVE ExportIInv /\ SaveCursor(x) => ExportIInv'
<1> SUFFICES ASSUME ExportIInv, SaveCursor(x) PROVE ExportIInv'
  OBVIOUS
<1> DEFINE d == drain[x]
           e == [Idle EXCEPT !.at = "release"]
           c == IF d.prefix = 0 THEN d.start ELSE d.entries[d.prefix]
<1>1. /\ DrainOK(d, store, acked) /\ d \in Drains /\ Lines(store) /\ Len(store) \in Nat
      /\ drain \in [Exporters -> Drains]
      /\ \A y \in Exporters : DrainOK(drain[y], store, acked)
  BY ExportState
<1>2. /\ drain' = [drain EXCEPT ![x] = e] /\ cursor' = c
      /\ UNCHANGED <<store, keys, lease, acked>>
  BY DEF SaveCursor, Leave
<1> HIDE DEF d
<1>3. /\ d.start \in Nat /\ d.start <= Len(store) /\ Settled(d.start, store, acked)
      /\ Reads(d.entries, d.start, store) /\ d.prefix \in Nat /\ d.prefix <= Len(d.entries)
      /\ \A i \in 1..d.prefix : store[d.entries[i]] \in acked
      /\ d.entries \in Seq(Nat) /\ Len(d.entries) \in Nat
  BY <1>1 DEF DrainOK, Drains
<1>4. c \in 0..Len(store) /\ Settled(c, store, acked)
  <2>1. CASE d.prefix = 0
    BY <1>1, <1>3, <2>1
  <2>2. CASE d.prefix # 0
    <3> DEFINE k == d.prefix
    <3>1. k \in 1..Len(d.entries) /\ c = d.entries[k] /\ k \in Nat
      BY <1>3, <2>2
    <3> HIDE DEF c, k
    <3>2. c \in Nat /\ c > d.start /\ c <= Len(store)
      BY <1>3, <3>1 DEF Reads
    <3>3. ASSUME NEW p \in 1..c PROVE store[p] \in acked \cup {Malformed}
      <4>1. p \in 1..Len(store)
        BY <1>1, <3>2
      <4>2. CASE p <= d.start
        <5>1. p \in 1..d.start
          BY <1>3, <3>2, <4>2
        <5> QED BY <1>3, <5>1 DEF Settled
      <4>3. CASE p > d.start /\ store[p] # Malformed
        <5>1. PICK j \in 1..Len(d.entries) : j <= k /\ d.entries[j] = p
          BY <1>3, <3>1, <3>2, <4>1, <4>3 DEF Reads
        <5>2. j \in 1..d.prefix
          BY <1>3, <3>1, <5>1 DEF k
        <5> QED BY <1>3, <5>1, <5>2
      <4>4. p <= d.start \/ p > d.start
        BY <1>3, <3>2
      <4> QED BY <4>2, <4>3, <4>4
    <3> QED BY <1>1, <3>2, <3>3 DEF Settled
  <2> QED BY <2>1, <2>2
<1> HIDE DEF c
<1>5. DrainOK(e, store, acked)
  BY <1>1, EmptyOK
<1> HIDE DEF e
<1>6. DrainOK(e, store, acked') /\ acked \subseteq acked' /\ store' = store
  BY <1>2, <1>5
<1>7. /\ drain' \in [Exporters -> Drains]
      /\ \A y \in Exporters : DrainOK(drain'[y], store', acked')
  BY <1>1, <1>2, <1>6, DrainStep
<1>8. /\ Lines(store') /\ cursor' \in 0..Len(store') /\ Settled(cursor', store', acked')
      /\ lease' \in {"none", "live", "expired"} /\ KeyList(keys', acked')
  BY <1>2, <1>4 DEF ExportIInv
<1> QED BY <1>7, <1>8 DEF ExportIInv

LEMMA ExportNextKeeps == ExportIInv /\ [Next]_vars => ExportIInv'
<1> SUFFICES ASSUME ExportIInv, [Next]_vars PROVE ExportIInv'
  OBVIOUS
<1>1. CASE Emit
  BY <1>1, EmitKeeps
<1>2. CASE UNCHANGED <<store, cursor, keys, drain, acked>> /\ lease' \in {"none", "live", "expired"}
  <2>1. Lines(store)' /\ (cursor \in 0..Len(store))' /\ KeyList(keys', acked')
    BY <1>2 DEF ExportIInv
  <2>2. Settled(cursor', store', acked') /\ drain' \in [Exporters -> Drains]
        /\ \A y \in Exporters : DrainOK(drain'[y], store', acked')
    BY <1>2 DEF ExportIInv
  <2> QED BY <1>2, <2>1, <2>2 DEF ExportIInv
<1>3. CASE TearLine \/ ExpireLease \/ UNCHANGED vars
  <2>1. UNCHANGED <<store, cursor, keys, drain, acked>> /\ lease' \in {"none", "live", "expired"}
    BY <1>3, ExportState DEF TearLine, ExpireLease, vars
  <2> QED BY <1>2, <2>1
<1>4. ASSUME NEW x \in Exporters, Drain(x) PROVE ExportIInv'
  <2>1. CASE Release(x)
    <3>1. /\ drain' = [drain EXCEPT ![x] = Idle] /\ UNCHANGED <<store, cursor, keys, acked>>
          /\ lease' \in {"none", "live", "expired"}
      BY <2>1 DEF Release
    <3> QED BY <3>1, IdleKeeps
  <2> QED BY <1>4, <2>1, AcquireKeeps, ReadCursorKeeps, SendKeeps, SaveKeysKeeps,
             SaveCursorKeeps DEF Drain
<1>5. ASSUME NEW x \in Exporters, Crash(x) PROVE ExportIInv'
  <2>1. /\ drain' = [drain EXCEPT ![x] = Idle] /\ UNCHANGED <<store, cursor, keys, acked>>
        /\ lease' \in {"none", "live", "expired"}
    BY <1>5, ExportState DEF Crash
  <2> QED BY <2>1, IdleKeeps
<1> QED BY <1>1, <1>3, <1>4, <1>5, SinkFailsKeeps, SinkAcknowledgesKeeps DEF Next

LEMMA ExportInitially == Init => ExportIInv
<1> SUFFICES ASSUME Init PROVE ExportIInv
  OBVIOUS
<1>1. /\ store = <<>> /\ cursor = 0 /\ keys = <<>> /\ lease = "none" /\ acked = {}
      /\ drain = [x \in Exporters |-> Idle]
  BY DEF Init
<1>2. Lines(store)
  BY <1>1, WrittenFact DEF Lines
<1>3. DrainOK(Idle, store, acked)
  <2>1. Idle = [Idle EXCEPT !.at = "idle"]
    BY DEF Idle
  <2>2. DrainOK([Idle EXCEPT !.at = "idle"], store, acked)
    BY <1>2, EmptyOK
  <2> QED BY <2>1, <2>2
<1>4. Idle \in Drains
  BY <1>3 DEF DrainOK
<1>5. /\ drain \in [Exporters -> Drains]
      /\ \A x \in Exporters : DrainOK(drain[x], store, acked)
  BY <1>1, <1>3, <1>4
<1>6. KeyList(keys, acked) /\ Settled(cursor, store, acked) /\ cursor \in 0..Len(store)
  BY <1>1, ExportFacts DEF KeyList, Settled
<1> QED BY <1>1, <1>2, <1>5, <1>6 DEF ExportIInv

(* Keys without repetitions are as many as their places. *)
LEMMA DistinctKeys ==
    ASSUME KeyList(keys, acked)
    PROVE  Cardinality(Range(keys)) = Len(keys)
<1> DEFINE n == Len(keys)
           D == 1..n
<1>1. keys \in Seq(Events) /\ n \in Nat /\ 1 \in Int /\ n \in Int
  BY DEF KeyList
<1>2. IsFiniteSet(D) /\ Cardinality(D) = n
  <2> HIDE DEF n
  <2>1. /\ IsFiniteSet(1..n) /\ Cardinality(1..n) = IF 1 > n THEN 0 ELSE n - 1 + 1
    BY <1>1, FS_Interval
  <2> QED BY <1>1, <2>1
<1>3. keys \in [D -> Range(keys)]
  BY <1>1, HoldsFact
<1>4. keys \in Injection(D, Range(keys))
  BY <1>3 DEF Injection, IsInjective, KeyList
<1>5. keys \in Surjection(D, Range(keys))
  <2>1. \A v \in Range(keys) : \E i \in D : keys[i] = v
    BY <1>1, HoldsFact
  <2> QED BY <1>3, <2>1 DEF Surjection
<1> HIDE DEF D
<1>6. IsFiniteSet(Range(keys)) /\ Cardinality(D) = Cardinality(Range(keys))
  <2>1. IsFiniteSet(Range(keys))
    BY <1>2, <1>5, FS_Surjection
  <2> QED BY <1>2, <1>4, <1>5, <2>1, FS_Injection
<1> QED BY <1>2, <1>6

LEMMA ExportImplies == ExportIInv => ExportInv
<1> SUFFICES ASSUME ExportIInv PROVE ExportInv
  OBVIOUS
<1>1. /\ Lines(store) /\ Len(store) \in Nat /\ cursor \in 0..Len(store)
      /\ Settled(cursor, store, acked) /\ KeyList(keys, acked)
      /\ lease \in {"none", "live", "expired"}
      /\ \A x \in Exporters : DrainOK(drain[x], store, acked) /\ drain[x] \in Drains
  BY ExportState DEF ExportIInv
<1>2. ASSUME NEW x \in Exporters
      PROVE  /\ drain[x].prefix \in 0..Len(drain[x].entries)
             /\ \A i \in 1..Len(drain[x].entries) : store[drain[x].entries[i]] \in Events
  <2> DEFINE d == drain[x]
  <2>1. DrainOK(d, store, acked) /\ d \in Drains
    BY <1>1
  <2> HIDE DEF d
  <2>2. /\ d.prefix \in Nat /\ d.prefix <= Len(d.entries) /\ Len(d.entries) \in Nat
        /\ d.start \in Nat /\ Reads(d.entries, d.start, store) /\ d.entries \in Seq(Nat)
    BY <2>1 DEF DrainOK, Drains
  <2>3. ASSUME NEW i \in 1..Len(d.entries) PROVE store[d.entries[i]] \in Events
    <3>1. d.entries[i] \in 1..Len(store) /\ store[d.entries[i]] # Malformed
      BY <1>1, <2>2 DEF Reads
    <3> QED BY <1>1, <3>1, LineFact
  <2>4. d.prefix \in 0..Len(d.entries)
    BY <2>2
  <2> QED BY <2>3, <2>4 DEF d
<1>3. TypeOK
  BY <1>1, <1>2, DistinctKeys DEF TypeOK, Lines, KeyList
<1>4. NothingSkipped
  <2>1. Range(keys) \subseteq acked
    BY <1>1, HoldsFact DEF KeyList
  <2> QED BY <1>1, <2>1 DEF NothingSkipped, Settled
<1>5. BatchIsFair
  <2>1. \A x \in Exporters : drain[x].at = "sink" => Fair(drain[x], store)
    BY <1>1 DEF DrainOK
  <2> QED BY <2>1 DEF BatchIsFair, Fair, Waiting, Share
<1> QED BY <1>3, <1>4, <1>5 DEF ExportInv

(* However many exporters share the directory, wherever they stop or die: the cursor and
   the keys never pass an event no sink acknowledged, and every batch is fair to the
   origins that wait (runtime_contract/telemetry.py, _save_keys, _save_cursor, _fair_batch). *)
THEOREM ExportLosesNothing == Spec => []ExportInv
<1>1. Spec => []ExportIInv
  BY ExportInitially, ExportNextKeeps, PTL DEF Spec
<1> QED BY <1>1, ExportImplies, PTL

-----------------------------------------------------------------------------
(* What the run explores are behaviors of the three specifications, so that the theorems
   above hold of the run's specification as well. *)
LEMMA RunIsEach == StoresSpec => Ledger!Spec /\ Op!Spec /\ Registry!Spec
<1>1. StoresInit => Ledger!Init /\ Op!Init /\ Registry!Init
  BY DEF StoresInit
<1>2. [StoresNext]_<<part, ledger, readModel, registryVars>>
         => [Ledger!Next]_(Ledger!vars) /\ [Op!Next]_(Op!vars) /\ [Registry!Next]_(Registry!vars)
  BY DEF StoresNext, ledger, Ledger!vars, readModel, registryVars, Op!vars, Registry!vars
<1> QED BY <1>1, <1>2, PTL DEF StoresSpec, Ledger!Spec, Op!Spec, Registry!Spec

(* The run's specification keeps the invariants of all three stores. *)
THEOREM StoresAreSound ==
    StoresSpec => [](LedgerInv /\ OperatorInv /\ RegistryInv)
BY RunIsEach, LedgerCorrect, ReadModelLosesNothingSilently, RegistryKeepsItsSessions, PTL
=============================================================================
