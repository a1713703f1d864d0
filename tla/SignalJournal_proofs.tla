------------------------- MODULE SignalJournal_proofs -------------------------
(***************************************************************************)
(* Proofs about the delivery of behaviour signals: JournalInv holds and    *)
(* the session implements an exactly-once stream, for any number of        *)
(* signals, rows, batches, crashes and failed projections.                 *)
(*                                                                         *)
(* SignalInv is the inductive invariant: what the rows of the journal say  *)
(* (RowsInv), how memory follows from the rows it has applied (MemoryInv)  *)
(* and what the consumer holds (DeliveryInv).  A torn journal is only      *)
(* promised what a session still up keeps in memory.                       *)
(***************************************************************************)
EXTENDS SignalJournal, FiniteSetTheorems, WellFoundedInduction, TLAPS

(* The rows of acknowledgements. *)
AckRows == {k \in 1..Len(journal) : journal[k].kind = "ack"}
(* The item a signal row stands for. *)
ItemOf(r) == [cursor |-> r.cursor, envelope |-> CHOOSE e \in r.envelope : TRUE]
(* The item of row k. *)
Item(k) == ItemOf(journal[k])

(* The rows memory stands for. *)
Position == IF status = "replaying" THEN replayed ELSE Len(journal)
(* The signal rows among them. *)
Known == {k \in SignalRows : k <= Position}

(* A journal that is not torn has the signals of cursors 1, 2, 3, ... in order,
   each signal_id once; acknowledgements never decrease or overtake them. *)
RowsInv ==
    /\ \A k \in SignalRows : \E e \in Envelopes : journal[k].envelope = {e}
    /\ \A k \in 1..Len(journal) : journal[k].cursor <= Len(journal)
    /\ \A k \in AckRows : /\ journal[k].cursor <= consumed
                          /\ \E j \in SignalRows : j < k /\ journal[k].cursor <= journal[j].cursor
    /\ \A j, k \in AckRows : j < k => journal[j].cursor <= journal[k].cursor
    /\ ~Torn =>
          /\ \A j, k \in SignalRows : j < k =>
                /\ journal[j].cursor < journal[k].cursor
                /\ Item(j).envelope.id # Item(k).envelope.id
          /\ \A k \in SignalRows : \A c \in 1..(journal[k].cursor - 1) :
                \E j \in SignalRows : j < k /\ journal[j].cursor = c

(* The signals accepted so far are numbered without gaps. *)
NumberedInv ==
    /\ IsFiniteSet(Accepted)
    /\ ~Torn =>
          /\ \A i \in Accepted : i.cursor <= Cardinality(Accepted)
          /\ Cardinality(Accepted) # 0 => \E i \in Accepted : i.cursor = Cardinality(Accepted)

(* Memory follows from the rows applied; of a session that is up, the last signal
   row may be missing (its projection failed). *)
MemoryInv ==
    /\ status = "up" => replayed = 0
    /\ IsFiniteSet(window)
    /\ window \subseteq Accepted
    /\ \A e \in emitted : \E i \in Accepted : i.envelope = e
    /\ status # "refused" =>
          /\ cursor <= Position
          /\ \A k \in Known : journal[k].cursor <= cursor + (IF status = "up" THEN 1 ELSE 0)
          /\ cursor # 0 => \E k \in Known : journal[k].cursor = cursor
          /\ ackCursor # 0 => \E k \in AckRows : k <= Position /\ journal[k].cursor = ackCursor
          /\ \A e \in seen : \E k \in Known : Item(k).envelope = e
          /\ ~Torn => \A k \in Known : journal[k].cursor <= cursor =>
                /\ Item(k).envelope \in seen
                /\ journal[k].cursor > ackCursor => Item(k) \in window
    /\ status = "replaying" =>
          \A j, k \in Known : j # k => journal[j].cursor # journal[k].cursor

(* The consumer has committed a prefix of S, and its batch is the next piece. *)
Prefix(S) ==
    \A i \in S : /\ i.cursor <= consumed => i \in delivered
                 /\ \A b \in batch : consumed < i.cursor /\ i.cursor <= b.cursor => i \in batch

(* What the consumer holds was accepted, is in order, and of a session that is up
   is not ahead of its memory. *)
DeliveryInv ==
    /\ delivered \cup batch \subseteq Accepted
    /\ \A i \in delivered : i.cursor <= consumed
    /\ \A b \in batch : b.cursor > consumed
    /\ consumed # 0 => \E i \in Accepted : i.cursor = consumed
    /\ status = "up" =>
          /\ consumed <= cursor
          /\ \A i \in window \cup batch : i.cursor <= cursor
          /\ Prefix(window)
    /\ ~Torn => Prefix(Accepted)

(* The inductive invariant. *)
SignalInv == TypeOK /\ RowsInv /\ NumberedInv /\ MemoryInv /\ DeliveryInv /\ JournalInv
-----------------------------------------------------------------------------
(* The order of the naturals, as a relation. *)
Below == {p \in Nat \X Nat : p[1] < p[2]}

(* A bounded set of naturals has a largest element. *)
LEMMA LargestFact ==
    ASSUME NEW n \in Nat, NEW T \in SUBSET (1..n), T # {}
    PROVE  \E k \in T : \A j \in T : j <= k
<1> DEFINE U == {m \in Nat : \A j \in T : j <= m}
<1>1. n \in U
  OBVIOUS
<1>2. IsWellFoundedOn(Below, Nat)
  BY NatLessThanWellFounded DEF OpToRel, Below
<1>3. PICK m \in U : \A y \in U : <<y, m>> \notin Below
  <2> HIDE DEF U
  <2>1. U \subseteq Nat
    BY DEF U
  <2> QED BY <1>1, <1>2, <2>1, WFMin
<1>4. m # 0
  <2>1. PICK j \in T : j \in 1..n
    OBVIOUS
  <2> QED BY <1>3, <2>1
<1>5. m - 1 \in Nat /\ m - 1 < m
  BY <1>3, <1>4
<1>6. m - 1 \notin U
  BY <1>3, <1>5 DEF Below
<1>7. PICK j \in T : ~(j <= m - 1)
  BY <1>5, <1>6
<1>8. j = m
  BY <1>3, <1>5, <1>7
<1> QED BY <1>3, <1>7, <1>8

(* The rows of a journal. *)
LEMMA RowFacts ==
    ASSUME TypeOK
    PROVE  /\ journal \in Seq(Rows) /\ Len(journal) \in Nat
           /\ \A k \in 1..Len(journal) :
                 /\ journal[k].cursor \in Nat /\ journal[k].cursor # 0
                 /\ journal[k].kind \in {"signal", "ack"}
                 /\ k \in SignalRows \/ k \in AckRows
                 /\ ~(k \in SignalRows /\ k \in AckRows)
           /\ SignalRows \subseteq 1..Len(journal) /\ AckRows \subseteq 1..Len(journal)
           /\ cursor \in Nat /\ ackCursor \in Nat /\ ackCursor <= cursor /\ consumed \in Nat
           /\ replayed \in Nat /\ replayed <= Len(journal)
<1>1. journal \in Seq(Rows) /\ Len(journal) \in Nat
  BY DEF TypeOK
<1>2. ASSUME NEW k \in 1..Len(journal) PROVE journal[k] \in Rows
  BY <1>1
<1>3. \A k \in 1..Len(journal) : /\ journal[k].cursor \in Nat /\ journal[k].cursor # 0
                                 /\ journal[k].kind \in {"signal", "ack"}
  BY <1>2 DEF Rows
<1> QED BY <1>1, <1>3 DEF SignalRows, AckRows, TypeOK

(* What the signal rows stand for. *)
LEMMA ItemFacts ==
    ASSUME TypeOK, RowsInv
    PROVE  /\ Accepted = {Item(k) : k \in SignalRows}
           /\ \A k \in SignalRows :
                 /\ Item(k) \in Items /\ Item(k).cursor = journal[k].cursor
                 /\ Item(k).envelope \in Envelopes
                 /\ journal[k].envelope = {Item(k).envelope}
           /\ Accepted \subseteq Items
           /\ \A i \in Accepted : i.cursor \in Nat /\ i.cursor # 0
<1>1. Accepted = {Item(k) : k \in SignalRows}
  BY DEF Accepted, Item, ItemOf
<1>2. ASSUME NEW k \in SignalRows
      PROVE  /\ Item(k) \in Items /\ Item(k).cursor = journal[k].cursor
             /\ Item(k).envelope \in Envelopes
             /\ journal[k].envelope = {Item(k).envelope}
  <2>1. PICK e \in Envelopes : journal[k].envelope = {e}
    BY DEF RowsInv
  <2>2. (CHOOSE x \in journal[k].envelope : TRUE) = e
    BY <2>1
  <2>3. Item(k) = [cursor |-> journal[k].cursor, envelope |-> e]
    BY <2>2 DEF Item, ItemOf
  <2>4. journal[k].cursor \in Nat \ {0}
    BY RowFacts
  <2> QED BY <2>1, <2>3, <2>4 DEF Items
<1>3. Accepted \subseteq Items
  BY <1>1, <1>2
<1> QED BY <1>1, <1>2, <1>3 DEF Items

(* One more row, whatever its kind. *)
LEMMA AppendFacts ==
    ASSUME TypeOK, NEW r \in Rows, journal' = Append(journal, r)
    PROVE  /\ Len(journal') = Len(journal) + 1
           /\ \A k \in 1..Len(journal) : journal'[k] = journal[k] /\ Item(k)' = Item(k)
           /\ journal'[Len(journal) + 1] = r
           /\ SignalRows' = SignalRows \cup (IF r.kind = "signal" THEN {Len(journal) + 1} ELSE {})
           /\ AckRows' = AckRows \cup (IF r.kind = "ack" THEN {Len(journal) + 1} ELSE {})
<1>1. /\ Len(journal) \in Nat /\ Len(journal') = Len(journal) + 1
      /\ \A k \in 1..Len(journal) : journal'[k] = journal[k]
      /\ journal'[Len(journal) + 1] = r
  BY RowFacts
<1>2. \A k \in 1..Len(journal) : Item(k)' = Item(k)
  BY <1>1 DEF Item
<1>3. 1..(Len(journal) + 1) = (1..Len(journal)) \cup {Len(journal) + 1}
  BY <1>1
<1> QED BY <1>1, <1>2, <1>3 DEF SignalRows, AckRows

(* The steps that put a signal on the journal, and those that acknowledge. *)
SignalStep(e) == EmitSignal(e) \/ SignalNotProjected(e) \/ SignalCutShort(e)
(* A step that puts an acknowledgement on the journal. *)
AckStep == AcknowledgeSignals \/ AckNotProjected

(* A signal takes the next cursor, unless another one has it already. *)
LEMMA SignalStepFacts ==
    ASSUME TypeOK, RowsInv, NEW e \in Envelopes, SignalStep(e)
    PROVE  /\ status = "up" /\ Unseen(e) /\ UNCHANGED <<consumed, batch, delivered>>
           /\ Len(journal') = Len(journal) + 1
           /\ \A k \in 1..Len(journal) : journal'[k] = journal[k] /\ Item(k)' = Item(k)
           /\ journal'[Len(journal) + 1] = SignalRow(cursor + 1, e)
           /\ ItemOf(journal'[Len(journal) + 1]) = [cursor |-> cursor + 1, envelope |-> e]
           /\ SignalRows' = SignalRows \cup {Len(journal) + 1}
           /\ AckRows' = AckRows
           /\ Accepted' = Accepted \cup {[cursor |-> cursor + 1, envelope |-> e]}
           /\ journal' \in Seq(Rows)
           /\ ~Torn' => ~Torn /\ \A k \in SignalRows : journal[k].cursor # cursor + 1
<1> DEFINE r == SignalRow(cursor + 1, e)
           n == Len(journal) + 1
           item == [cursor |-> cursor + 1, envelope |-> e]
<1>1. /\ r \in Rows /\ r.kind = "signal" /\ r.cursor = cursor + 1 /\ r.envelope = {e}
      /\ SignalRows \subseteq 1..Len(journal) /\ Len(journal) \in Nat /\ journal \in Seq(Rows)
  BY RowFacts DEF SignalRow, Rows
<1>2. /\ status = "up" /\ Unseen(e) /\ UNCHANGED <<consumed, batch, delivered>>
      /\ journal' = Append(journal, r)
  BY DEF SignalStep, EmitSignal, SignalNotProjected, SignalCutShort, consumer
<1>3. /\ Len(journal') = n
      /\ \A k \in 1..Len(journal) : journal'[k] = journal[k] /\ Item(k)' = Item(k)
      /\ journal'[n] = r
      /\ SignalRows' = SignalRows \cup {n}
      /\ AckRows' = AckRows
  BY <1>1, <1>2, AppendFacts
<1>4. ItemOf(journal'[n]) = item
  <2>1. (CHOOSE x \in {e} : TRUE) = e
    OBVIOUS
  <2> QED BY <1>1, <1>3, <2>1 DEF ItemOf
<1>5. Accepted' = Accepted \cup {item}
  <2>1. Accepted' = {ItemOf(journal'[k]) : k \in SignalRows'}
    BY DEF Accepted, ItemOf
  <2>2. Accepted = {ItemOf(journal[k]) : k \in SignalRows}
    BY DEF Accepted, ItemOf
  <2> HIDE DEF n, item, r
  <2> QED BY <1>1, <1>3, <1>4, <2>1, <2>2
<1>6. journal' \in Seq(Rows)
  BY <1>1, <1>2
<1>7. ASSUME ~Torn' PROVE ~Torn /\ \A k \in SignalRows : journal[k].cursor # cursor + 1
  <2>1. \A k, m \in SignalRows' : k # m => journal'[k].cursor # journal'[m].cursor
    BY <1>7 DEF Torn
  <2>2. \A k \in SignalRows : k # n /\ k \in SignalRows' /\ journal'[k] = journal[k]
    BY <1>1, <1>3
  <2>3. n \in SignalRows' /\ journal'[n].cursor = cursor + 1
    BY <1>1, <1>3
  <2> HIDE DEF n
  <2> QED BY <2>1, <2>2, <2>3 DEF Torn
<1> QED BY <1>2, <1>3, <1>4, <1>5, <1>6, <1>7

(* An acknowledgement accepts no signal. *)
LEMMA AckStepFacts ==
    ASSUME TypeOK, RowsInv, AckStep
    PROVE  /\ status = "up" /\ status' = "up" /\ replayed' = replayed
           /\ consumed > ackCursor /\ consumed <= cursor
           /\ UNCHANGED <<consumed, batch, delivered, emitted, cursor, seen>>
           /\ Len(journal') = Len(journal) + 1
           /\ \A k \in 1..Len(journal) : journal'[k] = journal[k] /\ Item(k)' = Item(k)
           /\ journal'[Len(journal) + 1] = AckRow(consumed)
           /\ SignalRows' = SignalRows
           /\ AckRows' = AckRows \cup {Len(journal) + 1}
           /\ Accepted' = Accepted /\ Torn' = Torn
           /\ journal' \in Seq(Rows)
           /\ \/ ackCursor' = consumed /\ window' = {i \in window : i.cursor > consumed}
              \/ ackCursor' = ackCursor /\ window' = window
           /\ faults' \in 0..MaxFaults
<1> DEFINE r == AckRow(consumed)
           n == Len(journal) + 1
<1>1. /\ status = "up" /\ consumed > ackCursor /\ consumed <= cursor
      /\ status' = "up" /\ replayed' = replayed
      /\ UNCHANGED <<consumed, batch, delivered, emitted, cursor, seen>>
      /\ journal' = Append(journal, r)
      /\ \/ ackCursor' = consumed /\ window' = {i \in window : i.cursor > consumed}
         \/ ackCursor' = ackCursor /\ window' = window
  BY DEF AckStep, AcknowledgeSignals, AckNotProjected, Acknowledgeable, Prune, memory, consumer
<1>2. faults' \in 0..MaxFaults
  BY SignalAssumption DEF AckStep, AcknowledgeSignals, AckNotProjected, Fails, TypeOK
<1>3. r \in Rows /\ r.kind = "ack" /\ SignalRows \subseteq 1..Len(journal) /\ journal \in Seq(Rows)
  BY <1>1, RowFacts DEF AckRow, Rows
<1>4. /\ Len(journal') = n
      /\ \A k \in 1..Len(journal) : journal'[k] = journal[k] /\ Item(k)' = Item(k)
      /\ journal'[n] = r
      /\ SignalRows' = SignalRows
      /\ AckRows' = AckRows \cup {n}
  BY <1>1, <1>3, AppendFacts
<1>5. Accepted' = Accepted
  <2>1. Accepted' = {ItemOf(journal'[k]) : k \in SignalRows'}
    BY DEF Accepted, ItemOf
  <2>2. Accepted = {ItemOf(journal[k]) : k \in SignalRows}
    BY DEF Accepted, ItemOf
  <2> HIDE DEF n, r
  <2> QED BY <1>3, <1>4, <2>1, <2>2
<1>6. Torn' = Torn
  BY <1>3, <1>4 DEF Torn
<1>7. journal' \in Seq(Rows)
  BY <1>1, <1>3
<1> QED BY <1>1, <1>2, <1>4, <1>5, <1>6, <1>7
(* The journal is left alone. *)
LEMMA QuietFacts ==
    ASSUME journal' = journal
    PROVE  /\ SignalRows' = SignalRows /\ AckRows' = AckRows /\ Accepted' = Accepted
           /\ Torn' = Torn /\ \A k : Item(k)' = Item(k)
BY DEF SignalRows, AckRows, Accepted, Torn, Item

(* The consumer commits its batch and moves to the last cursor of it. *)
LEMMA CommitFacts ==
    ASSUME TypeOK, RowsInv, DeliveryInv, CommitBatch
    PROVE  /\ UNCHANGED <<journal, status, replayed, cursor, ackCursor, seen, window, emitted, faults>>
           /\ batch' = {} /\ delivered' = delivered \cup batch
           /\ consumed' \in Nat /\ consumed < consumed'
           /\ \A i \in batch : i.cursor <= consumed'
           /\ \E i \in batch : i.cursor = consumed'
<1> DEFINE T == {i.cursor : i \in batch}
<1>1. /\ UNCHANGED <<journal, status, replayed, cursor, ackCursor, seen, window, emitted, faults>>
      /\ batch' = {} /\ delivered' = delivered \cup batch /\ batch # {}
      /\ consumed' = CHOOSE c \in T : \A i \in batch : i.cursor <= c
  BY DEF CommitBatch, memory
<1>2. Len(journal) \in Nat /\ T \in SUBSET (1..Len(journal)) /\ T # {}
  <2>1. ASSUME NEW i \in batch PROVE i.cursor \in 1..Len(journal)
    <3>1. PICK k \in SignalRows : i = Item(k)
      BY ItemFacts DEF DeliveryInv
    <3>2. k \in 1..Len(journal) /\ Item(k).cursor = journal[k].cursor
      BY ItemFacts, RowFacts
    <3> QED BY <3>1, <3>2, RowFacts DEF RowsInv
  <2> QED BY <1>1, <2>1, RowFacts
<1>3. PICK c \in T : \A j \in T : j <= c
  <2> HIDE DEF T
  <2> QED BY <1>2, LargestFact
<1>4. \A i \in batch : i.cursor <= c
  BY <1>3
<1>5. consumed' \in T /\ \A i \in batch : i.cursor <= consumed'
  BY <1>1, <1>3, <1>4
<1>6. \E i \in batch : i.cursor = consumed'
  BY <1>5
<1>7. consumed' \in Nat /\ consumed < consumed'
  <2>1. consumed' \in 1..Len(journal)
    <3> HIDE DEF T
    <3> QED BY <1>2, <1>5
  <2>2. consumed' > consumed
    BY <1>6 DEF DeliveryInv
  <2> QED BY <1>2, <2>1, <2>2, RowFacts
<1> QED BY <1>1, <1>5, <1>6, <1>7

(* A replay applies the next row of the journal or refuses it. *)
LEMMA ReplayFacts ==
    ASSUME TypeOK, RowsInv, ReplaySignal \/ ReplayAck
    PROVE  /\ status = "replaying" /\ replayed < Len(journal) /\ replayed' = replayed + 1
           /\ UNCHANGED <<journal, status, consumed, batch, delivered, emitted, faults>>
           /\ replayed + 1 \in 1..Len(journal)
           /\ \/ /\ ReplaySignal
                 /\ replayed + 1 \in SignalRows /\ journal[replayed + 1].cursor = cursor + 1
                 /\ cursor' = cursor + 1 /\ ackCursor' = ackCursor
                 /\ seen' = seen \cup {ItemOf(journal[replayed + 1]).envelope}
                 /\ window' = window \cup {ItemOf(journal[replayed + 1])}
              \/ /\ ReplayAck
                 /\ replayed + 1 \in AckRows /\ journal[replayed + 1].cursor <= cursor
                 /\ ackCursor' = journal[replayed + 1].cursor
                 /\ cursor' = cursor /\ seen' = seen
                 /\ window' = {i \in window : i.cursor > journal[replayed + 1].cursor}
<1>1. /\ status = "replaying" /\ replayed < Len(journal) /\ replayed' = replayed + 1
      /\ UNCHANGED <<journal, status, consumed, batch, delivered, emitted, faults>>
  BY DEF ReplaySignal, ReplayAck, Replaying, consumer
<1>2. replayed + 1 \in 1..Len(journal)
  BY <1>1, RowFacts
<1>3. CASE ReplaySignal
  <2> DEFINE r == journal[replayed + 1]
  <2>1. r.kind = "signal" /\ r.cursor = cursor + 1 /\ \E e \in r.envelope : Publish(e)
    BY <1>3 DEF ReplaySignal, SignalRowFits, NextRow
  <2>2. replayed + 1 \in SignalRows
    BY <1>2, <2>1 DEF SignalRows
  <2>3. /\ r.envelope = {ItemOf(r).envelope} /\ ItemOf(r).cursor = r.cursor
        /\ ItemOf(r) = [cursor |-> r.cursor, envelope |-> ItemOf(r).envelope]
    BY <2>2, ItemFacts DEF Item, ItemOf
  <2>4. Publish(ItemOf(r).envelope)
    BY <2>1, <2>3
  <2> QED BY <1>1, <1>2, <1>3, <2>1, <2>2, <2>3, <2>4 DEF Publish
<1>4. CASE ReplayAck
  <2>1. /\ journal[replayed + 1].kind = "ack" /\ journal[replayed + 1].cursor <= cursor
        /\ Prune(journal[replayed + 1].cursor)
    BY <1>4 DEF ReplayAck, AckRowFits, NextRow
  <2>2. replayed + 1 \in AckRows
    BY <1>2, <2>1 DEF AckRows
  <2> QED BY <1>1, <1>2, <1>4, <2>1, <2>2 DEF Prune
<1> QED BY <1>3, <1>4

(* Steps that leave the journal and the consumer's cursor alone, except for the
   replay of a row. *)
LEMMA QuietStepFacts ==
    ASSUME TypeOK, PeekSignals \/ LoseBatch \/ Crash \/ ReplayRefused \/ Resumed
    PROVE  /\ UNCHANGED <<journal, consumed, delivered, emitted>>
           /\ faults' \in 0..MaxFaults
           /\ \/ UNCHANGED <<status, replayed, cursor, ackCursor, seen, window>>
              \/ /\ status' = "replaying" /\ replayed' = 0 /\ batch' = batch
                 /\ cursor' = 0 /\ ackCursor' = 0 /\ seen' = {} /\ window' = {}
              \/ /\ status = "replaying" /\ status' = "refused" /\ replayed' = replayed
                 /\ UNCHANGED <<cursor, ackCursor, seen, window, batch>>
              \/ /\ status = "replaying" /\ replayed = Len(journal) /\ status' = "up" /\ replayed' = 0
                 /\ UNCHANGED <<cursor, ackCursor, seen, window, batch>>
<1>1. CASE PeekSignals
  BY <1>1 DEF PeekSignals, memory, TypeOK
<1>2. CASE LoseBatch
  BY <1>2, SignalAssumption DEF LoseBatch, memory, Fails, TypeOK
<1>3. CASE Crash
  BY <1>3, SignalAssumption DEF Crash, EmptyMemory, consumer, Fails, TypeOK
<1>4. CASE ReplayRefused
  BY <1>4 DEF ReplayRefused, Replaying, memory, consumer, TypeOK
<1>5. CASE Resumed
  BY <1>5 DEF Resumed, memory, consumer, TypeOK
<1> QED BY <1>1, <1>2, <1>3, <1>4, <1>5

(* Every action keeps the types. *)
LEMMA TypeStep ==
    ASSUME TypeOK, RowsInv, DeliveryInv, [Next]_vars
    PROVE  TypeOK'
<1>1. CASE UNCHANGED vars
  BY <1>1 DEF vars, memory, consumer, TypeOK
<1>2. ASSUME NEW e \in Envelopes, SignalStep(e) PROVE TypeOK'
  <2>1. /\ journal' \in Seq(Rows) /\ Len(journal') = Len(journal) + 1
        /\ UNCHANGED <<consumed, batch, delivered>>
    BY <1>2, SignalStepFacts
  <2>2. /\ status' \in {"up", "replaying", "refused"} /\ replayed' = replayed
        /\ emitted' \in SUBSET Envelopes /\ faults' \in 0..MaxFaults
    BY <1>2, SignalAssumption DEF SignalStep, EmitSignal, SignalNotProjected, SignalCutShort, Fails, TypeOK
  <2>3. \/ UNCHANGED <<cursor, ackCursor, seen, window>>
        \/ cursor' = 0 /\ ackCursor' = 0 /\ seen' = {} /\ window' = {}
        \/ /\ cursor' = cursor + 1 /\ seen' = seen \cup {e} /\ ackCursor' = ackCursor
           /\ window' = window \cup {[cursor |-> cursor + 1, envelope |-> e]}
    BY <1>2 DEF SignalStep, EmitSignal, SignalNotProjected, SignalCutShort, Publish, EmptyMemory, memory
  <2>4. [cursor |-> cursor + 1, envelope |-> e] \in Items
    BY RowFacts DEF Items
  <2>5. cursor' \in Nat /\ ackCursor' \in 0..cursor' /\ replayed' \in 0..Len(journal')
    BY <2>1, <2>2, <2>3, RowFacts
  <2>6. seen' \in SUBSET Envelopes /\ window' \in SUBSET Items
    BY <2>3, <2>4 DEF TypeOK
  <2> QED BY <2>1, <2>2, <2>5, <2>6 DEF TypeOK
<1>3. CASE AckStep
  <2>1. replayed' \in 0..Len(journal') /\ ackCursor' \in 0..cursor' /\ window' \in SUBSET Items
    <3>1. ackCursor' \in 0..cursor /\ window' \in SUBSET Items
      BY <1>3, AckStepFacts, RowFacts DEF TypeOK
    <3> QED BY <1>3, <3>1, AckStepFacts, RowFacts
  <2> QED BY <1>3, <2>1, AckStepFacts DEF TypeOK
<1>4. CASE CommitBatch
  BY <1>4, CommitFacts DEF TypeOK
<1>5. CASE ReplaySignal \/ ReplayAck
  <2>1. replayed' \in 0..Len(journal')
    BY <1>5, ReplayFacts
  <2>2. cursor' \in Nat /\ ackCursor' \in 0..cursor'
    BY <1>5, ReplayFacts, RowFacts
  <2>3. seen' \in SUBSET Envelopes /\ window' \in SUBSET Items
    <3>1. CASE ReplaySignal
      <4>1. /\ seen' = seen \cup {ItemOf(journal[replayed + 1]).envelope}
            /\ window' = window \cup {ItemOf(journal[replayed + 1])}
            /\ replayed + 1 \in SignalRows
        <5>1. ~ReplayAck
          BY <3>1 DEF ReplaySignal, ReplayAck, SignalRowFits, AckRowFits
        <5> QED BY <1>5, <5>1, ReplayFacts
      <4>2. ItemOf(journal[replayed + 1]) \in Items /\ ItemOf(journal[replayed + 1]).envelope \in Envelopes
        BY <4>1, ItemFacts DEF Item
      <4> QED BY <4>1, <4>2 DEF TypeOK
    <3>2. CASE ReplayAck
      BY <3>2 DEF ReplayAck, Prune, TypeOK
    <3> QED BY <1>5, <3>1, <3>2
  <2> QED BY <1>5, <2>1, <2>2, <2>3, ReplayFacts DEF TypeOK
<1>6. CASE PeekSignals \/ LoseBatch \/ Crash \/ ReplayRefused \/ Resumed
  <2>1. batch' \in SUBSET Items
    <3>1. CASE PeekSignals
      BY <3>1 DEF PeekSignals, FirstOf, After, TypeOK
    <3>2. CASE ~PeekSignals
      BY <1>6, <3>2 DEF LoseBatch, Crash, ReplayRefused, Resumed, consumer, TypeOK
    <3> QED BY <3>1, <3>2
  <2>2. /\ status' \in {"up", "replaying", "refused"} /\ replayed' \in 0..Len(journal')
        /\ cursor' \in Nat /\ ackCursor' \in 0..cursor'
        /\ seen' \in SUBSET Envelopes /\ window' \in SUBSET Items
    BY <1>6, QuietStepFacts, RowFacts DEF TypeOK
  <2> QED BY <1>6, <2>1, <2>2, QuietStepFacts DEF TypeOK
<1> QED BY <1>1, <1>2, <1>3, <1>4, <1>5, <1>6 DEF Next, SignalStep, AckStep
-----------------------------------------------------------------------------
(* A session that is up has applied every row. *)
LEMMA KnownUp ==
    ASSUME TypeOK, status = "up"
    PROVE  Known = SignalRows /\ Position = Len(journal)
BY RowFacts DEF Known, Position

(* Every action keeps the rows of the journal in order. *)
LEMMA RowsStep ==
    ASSUME TypeOK, RowsInv, MemoryInv, DeliveryInv, [Next]_vars
    PROVE  RowsInv'
<1>0. /\ Len(journal) \in Nat /\ SignalRows \subseteq 1..Len(journal)
      /\ AckRows \subseteq 1..Len(journal) /\ cursor \in Nat /\ consumed \in Nat
      /\ \A k \in 1..Len(journal) : journal[k].cursor \in Nat /\ journal[k].cursor # 0
  BY RowFacts
<1>1. ASSUME journal' = journal, consumed' \in Nat, consumed <= consumed' PROVE RowsInv'
  <2>1. \A k \in AckRows' : /\ journal'[k].cursor <= consumed'
                            /\ \E j \in SignalRows' : j < k /\ journal'[k].cursor <= journal'[j].cursor
    <3>1. ASSUME NEW k \in AckRows' PROVE journal'[k].cursor <= consumed'
      <4>1. k \in AckRows /\ k \in 1..Len(journal) /\ journal[k].cursor <= consumed
        BY <1>0, <1>1, QuietFacts DEF RowsInv
      <4> QED BY <1>0, <1>1, <4>1
    <3> QED BY <1>1, <3>1, QuietFacts DEF RowsInv
  <2> QED BY <1>1, <2>1, QuietFacts DEF RowsInv
<1>2. ASSUME NEW e \in Envelopes, SignalStep(e) PROVE RowsInv'
  <2> DEFINE n == Len(journal) + 1
  <2>1. /\ status = "up" /\ consumed' = consumed /\ Len(journal') = n
        /\ \A k \in 1..Len(journal) : journal'[k] = journal[k] /\ Item(k)' = Item(k)
        /\ journal'[n] = SignalRow(cursor + 1, e)
        /\ ItemOf(journal'[n]) = [cursor |-> cursor + 1, envelope |-> e]
        /\ SignalRows' = SignalRows \cup {n}
        /\ AckRows' = AckRows
        /\ ~Torn' => ~Torn /\ \A k \in SignalRows : journal[k].cursor # cursor + 1
    BY <1>2, SignalStepFacts
  <2>2. journal'[n].envelope = {e} /\ journal'[n].cursor = cursor + 1 /\ n \in Nat
    BY <1>0, <2>1 DEF SignalRow
  <2>3. Known = SignalRows
    BY <2>1, KnownUp
  <2>4. /\ cursor <= Len(journal) /\ \A k \in SignalRows : journal[k].cursor <= cursor + 1
        /\ cursor # 0 => \E k \in SignalRows : journal[k].cursor = cursor
        /\ \A d \in seen : \E k \in SignalRows : Item(k).envelope = d
        /\ ~Torn => \A k \in SignalRows : journal[k].cursor <= cursor => Item(k).envelope \in seen
    BY <2>1, <2>3 DEF MemoryInv, Position
  <2>5. \A k \in SignalRows' : \E x \in Envelopes : journal'[k].envelope = {x}
    <3>1. ASSUME NEW k \in SignalRows PROVE \E x \in Envelopes : journal'[k].envelope = {x}
      BY <1>0, <2>1 DEF RowsInv
    <3> QED BY <2>1, <2>2, <3>1
  <2>6. \A k \in 1..Len(journal') : journal'[k].cursor <= Len(journal')
    <3>1. ASSUME NEW k \in 1..n PROVE journal'[k].cursor <= n
      <4>1. CASE k = n
        BY <1>0, <2>2, <2>4, <4>1
      <4>2. CASE k # n
        <5>1. k \in 1..Len(journal) /\ journal'[k] = journal[k] /\ journal[k].cursor <= Len(journal)
          BY <1>0, <2>1, <4>2 DEF RowsInv
        <5> QED BY <1>0, <5>1
      <4> QED BY <4>1, <4>2
    <3> QED BY <2>1, <3>1
  <2>7. ASSUME NEW k \in AckRows'
        PROVE  /\ journal'[k].cursor <= consumed'
               /\ \E j \in SignalRows' : j < k /\ journal'[k].cursor <= journal'[j].cursor
    <3>1. k \in AckRows /\ k \in 1..Len(journal)
      BY <1>0, <2>1
    <3>2. PICK j \in SignalRows : j < k /\ journal[k].cursor <= journal[j].cursor
      BY <3>1 DEF RowsInv
    <3>3. /\ journal'[k] = journal[k] /\ journal'[j] = journal[j] /\ j \in SignalRows'
      BY <1>0, <2>1, <3>1, <3>2
    <3> QED BY <2>1, <3>1, <3>2, <3>3 DEF RowsInv
  <2>8. \A j, k \in AckRows' : j < k => journal'[j].cursor <= journal'[k].cursor
    <3>1. \A k \in AckRows' : k \in AckRows /\ journal'[k] = journal[k]
      BY <1>0, <2>1
    <3> QED BY <3>1 DEF RowsInv
  <2>9. ASSUME ~Torn'
        PROVE  /\ \A j, k \in SignalRows' : j < k =>
                     /\ journal'[j].cursor < journal'[k].cursor
                     /\ ItemOf(journal'[j]).envelope.id # ItemOf(journal'[k]).envelope.id
               /\ \A k \in SignalRows' : \A c \in 1..(journal'[k].cursor - 1) :
                     \E j \in SignalRows' : j < k /\ journal'[j].cursor = c
    <3>1. ~Torn /\ \A k \in SignalRows : journal[k].cursor # cursor + 1
      BY <2>1, <2>9
    <3>2. ASSUME NEW k \in SignalRows
          PROVE  /\ k \in 1..Len(journal) /\ k < n /\ journal'[k] = journal[k]
                 /\ journal[k].cursor < cursor + 1
                 /\ ItemOf(journal'[k]).envelope.id # e.id
      <4>1. k \in 1..Len(journal) /\ k < n /\ journal'[k] = journal[k]
        BY <1>0, <2>1
      <4>2. journal[k].cursor \in Nat /\ journal[k].cursor <= cursor + 1 /\ journal[k].cursor # cursor + 1
        BY <1>0, <2>4, <3>1, <4>1
      <4>3. Item(k).envelope \in seen
        BY <1>0, <2>4, <3>1, <4>2
      <4>4. Item(k).envelope.id # e.id
        BY <1>2, <4>3, SignalStepFacts DEF Unseen
      <4> QED BY <1>0, <4>1, <4>2, <4>4 DEF Item
    <3>3. ItemOf(journal'[n]).envelope = e
      BY <2>1
    <3>4. ASSUME NEW j \in SignalRows', NEW k \in SignalRows', j < k
          PROVE  /\ journal'[j].cursor < journal'[k].cursor
                 /\ ItemOf(journal'[j]).envelope.id # ItemOf(journal'[k]).envelope.id
      <4>1. CASE k = n
        <5>1. j \in SignalRows
          BY <2>1, <2>2, <3>4, <4>1
        <5> HIDE DEF n
        <5> QED BY <2>2, <3>2, <3>3, <4>1, <5>1
      <4>2. CASE k # n
        <5>1. k \in SignalRows /\ j \in SignalRows
          <6>1. k \in SignalRows /\ k < n /\ k \in Nat
            BY <1>0, <2>1, <3>2, <4>2
          <6>2. j # n
            BY <1>0, <3>4, <6>1
          <6> QED BY <2>1, <6>1, <6>2
        <5> QED BY <3>1, <3>2, <3>4, <5>1 DEF RowsInv, Item
      <4> QED BY <4>1, <4>2
    <3>5. ASSUME NEW k \in SignalRows', NEW c \in 1..(journal'[k].cursor - 1)
          PROVE  \E j \in SignalRows' : j < k /\ journal'[j].cursor = c
      <4>1. CASE k = n
        <5>1. c \in 1..cursor /\ cursor # 0
          BY <1>0, <2>2, <3>5, <4>1
        <5>2. PICK m \in SignalRows : journal[m].cursor = cursor
          BY <2>4, <5>1
        <5>3. CASE c = cursor
          BY <2>1, <3>2, <4>1, <5>2, <5>3
        <5>4. CASE c # cursor
          <6>1. c \in 1..(journal[m].cursor - 1)
            BY <1>0, <5>1, <5>2, <5>4
          <6>2. PICK j \in SignalRows : j < m /\ journal[j].cursor = c
            BY <3>1, <6>1 DEF RowsInv
          <6> QED BY <2>1, <3>2, <4>1, <6>2
        <5> QED BY <5>3, <5>4
      <4>2. CASE k # n
        <5>1. k \in SignalRows /\ journal'[k] = journal[k]
          BY <2>1, <3>2, <4>2
        <5>2. PICK j \in SignalRows : j < k /\ journal[j].cursor = c
          BY <3>1, <3>5, <5>1 DEF RowsInv
        <5> QED BY <2>1, <3>2, <5>2
      <4> QED BY <4>1, <4>2
    <3> QED BY <3>4, <3>5
  <2> HIDE DEF n
  <2> QED BY <2>5, <2>6, <2>7, <2>8, <2>9 DEF RowsInv, Item
<1>3. CASE AckStep
  <2> DEFINE n == Len(journal) + 1
  <2>1. /\ status = "up" /\ consumed' = consumed /\ Len(journal') = n
        /\ consumed > ackCursor /\ consumed <= cursor
        /\ \A k \in 1..Len(journal) : journal'[k] = journal[k] /\ Item(k)' = Item(k)
        /\ journal'[n] = AckRow(consumed)
        /\ SignalRows' = SignalRows /\ AckRows' = AckRows \cup {n} /\ Torn' = Torn
    BY <1>3, AckStepFacts
  <2>2. journal'[n].cursor = consumed /\ n \in Nat
    BY <1>0, <2>1 DEF AckRow
  <2>3. /\ cursor <= Len(journal) /\ cursor # 0
        /\ \E k \in SignalRows : journal[k].cursor = cursor
    BY <2>1, RowFacts DEF MemoryInv, Position, Known
  <2>4. \A k \in SignalRows : k < n /\ journal'[k] = journal[k] /\ Item(k)' = Item(k)
    BY <1>0, <2>1
  <2>5. \A k \in 1..Len(journal') : journal'[k].cursor <= Len(journal')
    <3>1. ASSUME NEW k \in 1..n PROVE journal'[k].cursor <= n
      <4>1. CASE k = n
        BY <1>0, <2>1, <2>2, <2>3, <4>1
      <4>2. CASE k # n
        <5>1. k \in 1..Len(journal) /\ journal'[k] = journal[k] /\ journal[k].cursor <= Len(journal)
          BY <1>0, <2>1, <4>2 DEF RowsInv
        <5> QED BY <1>0, <5>1
      <4> QED BY <4>1, <4>2
    <3> QED BY <2>1, <3>1
  <2>6. ASSUME NEW k \in AckRows'
        PROVE  /\ journal'[k].cursor <= consumed'
               /\ \E j \in SignalRows' : j < k /\ journal'[k].cursor <= journal'[j].cursor
    <3>1. CASE k = n
      <4>1. PICK j \in SignalRows : journal[j].cursor = cursor
        BY <2>3
      <4>2. j < n /\ journal'[j].cursor = cursor /\ consumed <= consumed
        BY <1>0, <2>4, <4>1
      <4> HIDE DEF n
      <4> QED BY <2>1, <2>2, <3>1, <4>1, <4>2
    <3>2. CASE k # n
      <4>1. k \in AckRows /\ k \in 1..Len(journal) /\ journal'[k] = journal[k]
        BY <1>0, <2>1, <3>2
      <4>2. PICK j \in SignalRows : j < k /\ journal[k].cursor <= journal[j].cursor
        BY <4>1 DEF RowsInv
      <4> QED BY <2>1, <2>4, <4>1, <4>2 DEF RowsInv
    <3> QED BY <3>1, <3>2
  <2>7. ASSUME NEW j \in AckRows', NEW k \in AckRows', j < k
        PROVE  journal'[j].cursor <= journal'[k].cursor
    <3>1. j # n
      <4>1. k \in AckRows \cup {n}
        BY <2>1
      <4>2. Len(journal) \in Nat /\ \A i \in AckRows : i \in 1..Len(journal)
        BY <1>0 DEF AckRows
      <4> QED BY <2>7, <4>1, <4>2
    <3>2. j \in AckRows /\ j \in 1..Len(journal) /\ journal'[j] = journal[j]
      BY <1>0, <2>1, <3>1
    <3>3. CASE k = n
      BY <2>2, <3>2, <3>3 DEF RowsInv
    <3>4. CASE k # n
      <4>1. k \in AckRows /\ journal'[k] = journal[k]
        BY <1>0, <2>1, <3>4
      <4> QED BY <2>7, <3>2, <4>1 DEF RowsInv
    <3> QED BY <3>3, <3>4
  <2>8. \A k \in SignalRows' : \E x \in Envelopes : journal'[k].envelope = {x}
    BY <2>1, <2>4 DEF RowsInv
  <2>9. ~Torn' =>
          /\ \A j, k \in SignalRows' : j < k =>
                /\ journal'[j].cursor < journal'[k].cursor
                /\ ItemOf(journal'[j]).envelope.id # ItemOf(journal'[k]).envelope.id
          /\ \A k \in SignalRows' : \A c \in 1..(journal'[k].cursor - 1) :
                \E j \in SignalRows' : j < k /\ journal'[j].cursor = c
    BY <2>1, <2>4 DEF RowsInv, Item
  <2> HIDE DEF n
  <2> QED BY <2>5, <2>6, <2>7, <2>8, <2>9 DEF RowsInv, Item
<1>4. CASE UNCHANGED vars
  BY <1>0, <1>1, <1>4 DEF vars, consumer
<1>5. CASE CommitBatch
  <2>1. journal' = journal /\ consumed' \in Nat /\ consumed <= consumed'
    BY <1>0, <1>5, CommitFacts
  <2> QED BY <1>1, <2>1
<1>6. CASE ReplaySignal \/ ReplayAck
  BY <1>0, <1>1, <1>6, ReplayFacts
<1>7. CASE PeekSignals \/ LoseBatch \/ Crash \/ ReplayRefused \/ Resumed
  BY <1>0, <1>1, <1>7, QuietStepFacts
<1> QED BY <1>2, <1>3, <1>4, <1>5, <1>6, <1>7 DEF Next, SignalStep, AckStep

(* A session that is up knows every signal row but the last, and that one only
   if its projection failed; a new signal then tears the journal. *)
LEMMA NextCursor ==
    ASSUME TypeOK, RowsInv, NumberedInv, MemoryInv, ~Torn, status = "up",
           \A k \in SignalRows : journal[k].cursor # cursor + 1
    PROVE  /\ Cardinality(Accepted) = cursor
           /\ \A i \in Accepted : i.cursor <= cursor /\ i.envelope \in seen
<1>0. /\ cursor \in Nat /\ IsFiniteSet(Accepted) /\ Cardinality(Accepted) \in Nat
      /\ Accepted = {Item(k) : k \in SignalRows}
      /\ \A k \in SignalRows : Item(k).cursor = journal[k].cursor /\ journal[k].cursor \in Nat
  BY RowFacts, ItemFacts, FS_CardinalityType DEF NumberedInv
<1>1. Known = SignalRows
  BY KnownUp
<1>2. \A i \in Accepted : i.cursor \in Nat /\ i.cursor <= cursor /\ i.envelope \in seen
  <2>1. ASSUME NEW k \in SignalRows
        PROVE  Item(k).cursor \in Nat /\ Item(k).cursor <= cursor /\ Item(k).envelope \in seen
    <3>1. journal[k].cursor <= cursor + 1 /\ journal[k].cursor # cursor + 1
      BY <1>1 DEF MemoryInv
    <3>2. journal[k].cursor <= cursor
      BY <1>0, <3>1
    <3> QED BY <1>0, <1>1, <3>2 DEF MemoryInv
  <2> QED BY <1>0, <2>1
<1>3. cursor # 0 => \E i \in Accepted : i.cursor = cursor
  BY <1>0, <1>1 DEF MemoryInv
<1>4. /\ \A i \in Accepted : i.cursor <= Cardinality(Accepted)
      /\ Cardinality(Accepted) # 0 => \E i \in Accepted : i.cursor = Cardinality(Accepted)
  BY DEF NumberedInv
<1>5. cursor <= Cardinality(Accepted)
  BY <1>0, <1>3, <1>4
<1>6. Cardinality(Accepted) <= cursor
  BY <1>0, <1>2, <1>4
<1> QED BY <1>0, <1>2, <1>5, <1>6

(* Every action keeps the accepted signals numbered. *)
LEMMA NumberedStep ==
    ASSUME TypeOK, RowsInv, NumberedInv, MemoryInv, DeliveryInv, [Next]_vars
    PROVE  NumberedInv'
<1>1. ASSUME Accepted' = Accepted, Torn' = Torn PROVE NumberedInv'
  BY <1>1 DEF NumberedInv
<1>2. ASSUME NEW e \in Envelopes, SignalStep(e) PROVE NumberedInv'
  <2> DEFINE i == [cursor |-> cursor + 1, envelope |-> e]
  <2>1. /\ Accepted' = Accepted \cup {i} /\ status = "up"
        /\ ~Torn' => ~Torn /\ \A k \in SignalRows : journal[k].cursor # cursor + 1
    BY <1>2, SignalStepFacts
  <2>2. IsFiniteSet(Accepted)
    BY DEF NumberedInv
  <2>3. ASSUME ~Torn'
        PROVE  /\ \A x \in Accepted' : x.cursor <= Cardinality(Accepted')
               /\ \E x \in Accepted' : x.cursor = Cardinality(Accepted')
    <3>1. /\ Cardinality(Accepted) = cursor /\ cursor \in Nat
          /\ \A x \in Accepted : x.cursor \in Nat /\ x.cursor <= cursor
      BY <2>1, <2>3, NextCursor, RowFacts, ItemFacts
    <3>2. i \notin Accepted /\ i.cursor = cursor + 1
      BY <3>1
    <3> HIDE DEF i
    <3>3. Cardinality(Accepted') = cursor + 1
      BY <2>1, <2>2, <3>1, <3>2, FS_AddElement
    <3>4. ASSUME NEW x \in Accepted' PROVE x.cursor <= cursor + 1
      BY <2>1, <3>1, <3>2
    <3>5. i \in Accepted'
      BY <2>1
    <3> QED BY <3>2, <3>3, <3>4, <3>5
  <2>4. IsFiniteSet(Accepted')
    <3> HIDE DEF i
    <3> QED BY <2>1, <2>2, FS_AddElement
  <2> QED BY <2>3, <2>4 DEF NumberedInv
<1>3. CASE AckStep
  BY <1>1, <1>3, AckStepFacts
<1>4. ASSUME journal' = journal PROVE NumberedInv'
  BY <1>1, <1>4, QuietFacts
<1>5. CASE UNCHANGED vars
  BY <1>4, <1>5 DEF vars
<1>6. CASE CommitBatch
  BY <1>4, <1>6, CommitFacts
<1>7. CASE ReplaySignal \/ ReplayAck
  BY <1>4, <1>7, ReplayFacts
<1>8. CASE PeekSignals \/ LoseBatch \/ Crash \/ ReplayRefused \/ Resumed
  BY <1>4, <1>8, QuietStepFacts
<1> QED BY <1>2, <1>3, <1>5, <1>6, <1>7, <1>8 DEF Next, SignalStep, AckStep
-----------------------------------------------------------------------------
(* A session that starts to replay knows nothing yet. *)
LEMMA FreshMemory ==
    ASSUME TypeOK', status' = "replaying", replayed' = 0,
           cursor' = 0, ackCursor' = 0, seen' = {}, window' = {},
           \A e \in emitted' : \E i \in Accepted' : i.envelope = e
    PROVE  MemoryInv'
<1>1. Len(journal') \in Nat
  BY DEF TypeOK
<1>2. Position' = 0
  BY DEF Position
<1>3. Known' = {}
  BY <1>1, <1>2 DEF Known, SignalRows
<1>4. IsFiniteSet(window')
  BY FS_EmptySet
<1> QED BY <1>2, <1>3, <1>4 DEF MemoryInv

(* Every action keeps memory in agreement with the rows it has applied. *)
LEMMA MemoryStep ==
    ASSUME TypeOK, RowsInv, MemoryInv, DeliveryInv, [Next]_vars, TypeOK'
    PROVE  MemoryInv'
<1>0. /\ Len(journal) \in Nat /\ SignalRows \subseteq 1..Len(journal)
      /\ AckRows \subseteq 1..Len(journal) /\ cursor \in Nat /\ ackCursor \in Nat /\ consumed \in Nat
      /\ \A k \in 1..Len(journal) : journal[k].cursor \in Nat /\ journal[k].cursor # 0
      /\ Len(journal) < Len(journal) + 1 /\ Len(journal) <= Len(journal) + 1
      /\ replayed \in Nat /\ replayed <= Len(journal)
  BY RowFacts
<1>1. /\ IsFiniteSet(window) /\ window \subseteq Accepted
      /\ \A e \in emitted : \E i \in Accepted : i.envelope = e
  BY DEF MemoryInv
<1>2. ASSUME NEW e \in Envelopes, SignalStep(e) PROVE MemoryInv'
  <2> DEFINE n == Len(journal) + 1
             item == [cursor |-> cursor + 1, envelope |-> e]
  <2>1. /\ status = "up" /\ Len(journal') = n
        /\ \A k \in 1..Len(journal) : journal'[k] = journal[k] /\ Item(k)' = Item(k)
        /\ ItemOf(journal'[n]) = item
        /\ SignalRows' = SignalRows \cup {n} /\ AckRows' = AckRows
        /\ Accepted' = Accepted \cup {item}
        /\ ~Torn' => ~Torn /\ \A k \in SignalRows : journal[k].cursor # cursor + 1
    BY <1>2, SignalStepFacts
  <2>2. journal'[n].cursor = cursor + 1 /\ n \in Nat
    <3>1. journal'[n] = SignalRow(cursor + 1, e)
      BY <1>2, SignalStepFacts
    <3> QED BY <1>0, <3>1 DEF SignalRow
  <2>3. Known = SignalRows /\ Position = Len(journal) /\ replayed = 0
    BY <2>1, KnownUp DEF MemoryInv
  <2>4. /\ cursor <= Len(journal) /\ \A k \in SignalRows : journal[k].cursor <= cursor + 1
        /\ cursor # 0 => \E k \in SignalRows : journal[k].cursor = cursor
        /\ ackCursor # 0 => \E k \in AckRows : k <= Len(journal) /\ journal[k].cursor = ackCursor
        /\ \A d \in seen : \E k \in SignalRows : Item(k).envelope = d
        /\ ~Torn => \A k \in SignalRows : journal[k].cursor <= cursor =>
              /\ Item(k).envelope \in seen
              /\ journal[k].cursor > ackCursor => Item(k) \in window
    BY <2>1, <2>3 DEF MemoryInv
  <2>5. \A k \in SignalRows : /\ k \in 1..Len(journal) /\ k <= n /\ journal'[k] = journal[k]
                              /\ ItemOf(journal'[k]) = Item(k)
    BY <1>0, <2>1 DEF Item
  <2>6. \A k \in AckRows : k \in 1..Len(journal) /\ k <= n /\ journal'[k] = journal[k]
    BY <1>0, <2>1
  <2>7. ASSUME status' = "up"
        PROVE  Position' = n /\ Known' = SignalRows \cup {n}
    <3>1. Position' = n
      BY <2>1, <2>7 DEF Position
    <3>2. n <= n
      BY <2>2
    <3> QED BY <2>1, <2>5, <3>1, <3>2 DEF Known
  <2>8. ackCursor # 0 => \E k \in AckRows' : k <= n /\ journal'[k].cursor = ackCursor
    BY <2>1, <2>4, <2>6
  <2>9. ASSUME NEW d \in seen PROVE \E k \in SignalRows : ItemOf(journal'[k]).envelope = d
    BY <2>4, <2>5
  <2> HIDE DEF n, item
  <2>10. CASE EmitSignal(e)
    <3>1. /\ status' = "up" /\ replayed' = replayed /\ cursor' = cursor + 1
          /\ seen' = seen \cup {e} /\ window' = window \cup {item} /\ ackCursor' = ackCursor
          /\ emitted' = emitted \cup {e}
      BY <2>10 DEF EmitSignal, Publish, item
    <3>2. Position' = n /\ Known' = SignalRows \cup {n}
      BY <2>7, <3>1
    <3>3. /\ IsFiniteSet(window') /\ window' \subseteq Accepted'
      BY <1>1, <2>1, <3>1, FS_AddElement
    <3>4. item.envelope = e /\ item \in Accepted' /\ item.cursor = cursor + 1
      BY <2>1 DEF item
    <3>5. \A d \in emitted' : \E i \in Accepted' : i.envelope = d
      BY <1>1, <2>1, <3>1, <3>4
    <3>6. cursor' <= Position'
      BY <1>0, <2>4, <3>1, <3>2 DEF n
    <3>7. ASSUME NEW k \in Known' PROVE journal'[k].cursor <= cursor' + 1
      <4>1. CASE k \in SignalRows
        BY <1>0, <2>4, <2>5, <3>1, <4>1
      <4>2. CASE k = n
        BY <1>0, <2>2, <3>1, <4>2
      <4> QED BY <3>2, <4>1, <4>2
    <3>8. \E k \in Known' : journal'[k].cursor = cursor'
      BY <2>2, <3>1, <3>2
    <3>9. \A d \in seen' : \E k \in Known' : ItemOf(journal'[k]).envelope = d
      BY <2>1, <2>9, <3>1, <3>2, <3>4
    <3>10. ASSUME ~Torn', NEW k \in Known', journal'[k].cursor <= cursor'
           PROVE  /\ ItemOf(journal'[k]).envelope \in seen'
                  /\ journal'[k].cursor > ackCursor' => ItemOf(journal'[k]) \in window'
      <4>1. CASE k = n
        BY <2>1, <3>1, <3>4, <4>1
      <4>2. CASE k \in SignalRows
        <5>1. journal[k].cursor <= cursor
          BY <1>0, <2>1, <2>5, <3>1, <3>10, <4>2
        <5> QED BY <2>1, <2>4, <2>5, <3>1, <3>10, <4>2, <5>1
      <4> QED BY <3>2, <4>1, <4>2
    <3>11. ackCursor' # 0 => \E k \in AckRows' : k <= Position' /\ journal'[k].cursor = ackCursor'
      BY <2>8, <3>1, <3>2
    <3> QED BY <2>3, <3>1, <3>3, <3>5, <3>6, <3>7, <3>8, <3>9, <3>10, <3>11 DEF MemoryInv, Item
  <2>11. CASE SignalNotProjected(e)
    <3>1. status' = "up" /\ UNCHANGED <<replayed, cursor, ackCursor, seen, window, emitted>>
      BY <2>1, <2>11 DEF SignalNotProjected, memory
    <3>2. Position' = n /\ Known' = SignalRows \cup {n}
      BY <2>7, <3>1
    <3>3. /\ IsFiniteSet(window') /\ window' \subseteq Accepted'
          /\ \A d \in emitted' : \E i \in Accepted' : i.envelope = d
      BY <1>1, <2>1, <3>1
    <3>4. cursor' <= Position'
      BY <1>0, <2>4, <3>1, <3>2 DEF n
    <3>5. ASSUME NEW k \in Known' PROVE journal'[k].cursor <= cursor' + 1
      <4>1. CASE k \in SignalRows
        BY <1>0, <2>4, <2>5, <3>1, <4>1
      <4>2. CASE k = n
        BY <1>0, <2>2, <3>1, <4>2
      <4> QED BY <3>2, <4>1, <4>2
    <3>6. cursor' # 0 => \E k \in Known' : journal'[k].cursor = cursor'
      BY <2>4, <2>5, <3>1, <3>2
    <3>7. \A d \in seen' : \E k \in Known' : ItemOf(journal'[k]).envelope = d
      BY <2>9, <3>1, <3>2
    <3>8. ASSUME ~Torn', NEW k \in Known', journal'[k].cursor <= cursor'
          PROVE  /\ ItemOf(journal'[k]).envelope \in seen'
                 /\ journal'[k].cursor > ackCursor' => ItemOf(journal'[k]) \in window'
      <4>1. k # n
        BY <1>0, <2>2, <3>1, <3>8
      <4>2. k \in SignalRows /\ journal[k].cursor <= cursor
        BY <2>5, <3>1, <3>2, <3>8, <4>1
      <4> QED BY <2>1, <2>4, <2>5, <3>1, <3>8, <4>2
    <3>9. ackCursor' # 0 => \E k \in AckRows' : k <= Position' /\ journal'[k].cursor = ackCursor'
      BY <2>8, <3>1, <3>2
    <3> QED BY <2>3, <3>1, <3>3, <3>4, <3>5, <3>6, <3>7, <3>8, <3>9 DEF MemoryInv, Item
  <2>12. CASE SignalCutShort(e)
    <3>1. /\ status' = "replaying" /\ replayed' = 0 /\ cursor' = 0 /\ ackCursor' = 0
          /\ seen' = {} /\ window' = {} /\ emitted' = emitted
      BY <2>3, <2>12 DEF SignalCutShort, EmptyMemory
    <3>2. \A d \in emitted' : \E i \in Accepted' : i.envelope = d
      BY <1>1, <2>1, <3>1
    <3> QED BY <3>1, <3>2, FreshMemory
  <2> QED BY <1>2, <2>10, <2>11, <2>12 DEF SignalStep
<1>3. CASE AckStep
  <2> DEFINE n == Len(journal) + 1
  <2>1. /\ status = "up" /\ status' = "up" /\ Len(journal') = n /\ replayed' = replayed
        /\ \A k \in 1..Len(journal) : journal'[k] = journal[k] /\ Item(k)' = Item(k)
        /\ SignalRows' = SignalRows /\ AckRows' = AckRows \cup {n}
        /\ Accepted' = Accepted /\ Torn' = Torn
        /\ UNCHANGED <<emitted, cursor, seen>> /\ consumed > ackCursor
        /\ \/ ackCursor' = consumed /\ window' = {i \in window : i.cursor > consumed}
           \/ ackCursor' = ackCursor /\ window' = window
    BY <1>3, AckStepFacts
  <2>2. journal'[n].cursor = consumed /\ n \in Nat /\ n <= n
    BY <1>0, <1>3, AckStepFacts DEF AckRow
  <2>3. Known = SignalRows /\ Position = Len(journal)
    BY <2>1, KnownUp
  <2>4. Position' = n /\ Known' = SignalRows
    <3>1. Position' = n
      BY <2>1 DEF Position
    <3>2. \A k \in SignalRows : k <= n
      BY <1>0
    <3> QED BY <2>1, <3>1, <3>2 DEF Known
  <2>5. \A k \in SignalRows : journal'[k] = journal[k] /\ ItemOf(journal'[k]) = Item(k)
    BY <1>0, <2>1 DEF Item
  <2>6. IsFiniteSet(window') /\ window' \subseteq Accepted'
    <3>1. window' \subseteq window
      BY <2>1
    <3> QED BY <1>1, <2>1, <3>1, FS_Subset
  <2>7. cursor' <= Position'
    BY <1>0, <2>1, <2>3, <2>4 DEF MemoryInv
  <2>8. ackCursor' # 0 => \E k \in AckRows' : k <= Position' /\ journal'[k].cursor = ackCursor'
    <3>1. CASE ackCursor' = consumed
      BY <2>1, <2>2, <2>4, <3>1
    <3>2. CASE ackCursor' = ackCursor
      <4>1. ackCursor # 0 => \E k \in AckRows : journal[k].cursor = ackCursor
        BY <2>1 DEF MemoryInv
      <4>2. \A k \in AckRows : k \in AckRows' /\ k <= n /\ journal'[k] = journal[k]
        BY <1>0, <2>1
      <4> QED BY <2>4, <3>2, <4>1, <4>2
    <3> QED BY <2>1, <3>1, <3>2
  <2>9. /\ \A k \in Known' : journal'[k].cursor <= cursor' + 1
        /\ cursor' # 0 => \E k \in Known' : journal'[k].cursor = cursor'
        /\ \A d \in seen' : \E k \in Known' : ItemOf(journal'[k]).envelope = d
    <3>1. /\ \A k \in SignalRows : journal[k].cursor <= cursor + 1
          /\ cursor # 0 => \E k \in SignalRows : journal[k].cursor = cursor
          /\ \A d \in seen : \E k \in SignalRows : Item(k).envelope = d
      BY <2>1, <2>3 DEF MemoryInv
    <3> QED BY <2>1, <2>4, <2>5, <3>1
  <2>10. ASSUME ~Torn', NEW k \in Known', journal'[k].cursor <= cursor'
         PROVE  /\ ItemOf(journal'[k]).envelope \in seen'
                /\ journal'[k].cursor > ackCursor' => ItemOf(journal'[k]) \in window'
    <3>1. /\ k \in SignalRows /\ journal'[k] = journal[k] /\ ItemOf(journal'[k]) = Item(k)
          /\ journal[k].cursor <= cursor /\ journal[k].cursor \in Nat
      BY <1>0, <2>1, <2>4, <2>5, <2>10
    <3>2. Item(k).envelope \in seen /\ (journal[k].cursor > ackCursor => Item(k) \in window)
      BY <2>1, <2>3, <2>10, <3>1 DEF MemoryInv
    <3>3. Item(k).cursor = journal[k].cursor
      BY <3>1, ItemFacts
    <3> QED BY <1>0, <2>1, <3>1, <3>2, <3>3
  <2>11. (status = "up" => replayed = 0) /\ \A e \in emitted' : \E i \in Accepted' : i.envelope = e
    BY <1>1, <2>1 DEF MemoryInv
  <2> HIDE DEF n
  <2> QED BY <2>1, <2>6, <2>7, <2>8, <2>9, <2>10, <2>11 DEF MemoryInv, Item
<1>4. ASSUME UNCHANGED <<journal, status, replayed, cursor, ackCursor, seen, window, emitted>>
      PROVE  MemoryInv'
  <2>1. Position' = Position
    BY <1>4 DEF Position
  <2>2. Known' = Known
    BY <1>4, <2>1, QuietFacts DEF Known
  <2> QED BY <1>4, <2>1, <2>2, QuietFacts DEF MemoryInv
<1>5. CASE UNCHANGED vars
  BY <1>4, <1>5 DEF vars, memory
<1>6. CASE CommitBatch
  BY <1>4, <1>6, CommitFacts
<1>7. CASE ReplaySignal \/ ReplayAck
  <2> DEFINE n == replayed + 1
  <2>0. /\ SignalRows' = SignalRows /\ AckRows' = AckRows /\ Accepted' = Accepted /\ Torn' = Torn
        /\ \A k : Item(k)' = Item(k)
        /\ UNCHANGED <<journal, status, emitted>> /\ status = "replaying" /\ replayed' = n
        /\ n \in Nat /\ n \in 1..Len(journal)
    BY <1>0, <1>7, ReplayFacts, QuietFacts
  <2>1. Position = replayed /\ Position' = n
    BY <2>0 DEF Position
  <2>2. /\ cursor <= replayed
        /\ \A k \in Known : journal[k].cursor <= cursor
        /\ cursor # 0 => \E k \in Known : journal[k].cursor = cursor
        /\ ackCursor # 0 => \E k \in AckRows : k <= replayed /\ journal[k].cursor = ackCursor
        /\ \A e \in seen : \E k \in Known : Item(k).envelope = e
        /\ ~Torn => \A k \in Known : journal[k].cursor <= cursor =>
              /\ Item(k).envelope \in seen
              /\ journal[k].cursor > ackCursor => Item(k) \in window
        /\ \A j, k \in Known : j # k => journal[j].cursor # journal[k].cursor
    <3>1. \A k \in Known : journal[k].cursor \in Nat
      BY <1>0 DEF Known
    <3> QED BY <1>0, <2>0, <2>1, <3>1 DEF MemoryInv
  <2>3. CASE /\ n \in SignalRows /\ journal[n].cursor = cursor + 1
             /\ cursor' = cursor + 1 /\ ackCursor' = ackCursor
             /\ seen' = seen \cup {ItemOf(journal[n]).envelope}
             /\ window' = window \cup {ItemOf(journal[n])}
    <3>1. Known' = Known \cup {n}
      <4>1. \A k \in SignalRows : k <= n <=> k <= replayed \/ k = n
        BY <1>0
      <4> HIDE DEF n
      <4> QED BY <2>0, <2>1, <2>3, <4>1 DEF Known
    <3>2. n \notin Known /\ \A k \in Known : journal[k].cursor \in Nat
      BY <1>0, <2>1 DEF Known
    <3>3. Item(n) = ItemOf(journal[n]) /\ Item(n) \in Accepted /\ Item(n).cursor = cursor + 1
      BY <2>3, ItemFacts DEF Item
    <3>4. IsFiniteSet(window') /\ window' \subseteq Accepted'
      <4> HIDE DEF n
      <4> QED BY <1>1, <2>0, <2>3, <3>3, FS_AddElement
    <3>5. cursor' <= Position'
      BY <1>0, <2>1, <2>2, <2>3
    <3>6. \A k \in Known' : journal[k].cursor <= cursor'
      BY <1>0, <2>2, <2>3, <3>1, <3>2
    <3>7. \E k \in Known' : journal[k].cursor = cursor'
      BY <2>3, <3>1
    <3>8. \A e \in seen' : \E k \in Known' : Item(k).envelope = e
      <4> HIDE DEF n
      <4> QED BY <2>2, <2>3, <3>1, <3>3
    <3>9. ASSUME ~Torn, NEW k \in Known', journal[k].cursor <= cursor'
          PROVE  Item(k).envelope \in seen' /\ (journal[k].cursor > ackCursor' => Item(k) \in window')
      <4>1. CASE k = n
        BY <2>3, <3>3, <4>1
      <4>2. CASE k \in Known
        BY <2>2, <2>3, <3>9, <4>2
      <4> QED BY <3>1, <4>1, <4>2
    <3>10. \A j, k \in Known' : j # k => journal[j].cursor # journal[k].cursor
      <4>1. \A k \in Known : journal[k].cursor < cursor + 1
        BY <1>0, <2>2, <3>2
      <4>2. \A k \in Known : journal[k].cursor # journal[n].cursor
        BY <1>0, <2>3, <3>2, <4>1
      <4> HIDE DEF n
      <4> QED BY <2>2, <3>1, <4>2
    <3>11. ackCursor' # 0 => \E k \in AckRows : k <= Position' /\ journal[k].cursor = ackCursor'
      <4>1. \A k \in AckRows : k <= replayed => k <= n
        BY <1>0
      <4> QED BY <2>1, <2>2, <2>3, <4>1
    <3>12. cursor' + 0 = cursor'
      BY <1>0, <2>3
    <3> HIDE DEF n
    <3> QED BY <1>1, <2>0, <3>4, <3>5, <3>6, <3>7, <3>8, <3>9, <3>10, <3>11, <3>12 DEF MemoryInv
  <2>4. CASE /\ n \in AckRows /\ journal[n].cursor <= cursor
             /\ ackCursor' = journal[n].cursor /\ cursor' = cursor /\ seen' = seen
             /\ window' = {i \in window : i.cursor > journal[n].cursor}
    <3>1. Known' = Known
      <4>1. n \notin SignalRows
        BY <2>0, <2>4, RowFacts
      <4>2. \A k \in SignalRows : k # n => (k <= replayed <=> k <= n)
        BY <1>0
      <4> QED BY <2>0, <2>1, <4>1, <4>2 DEF Known
    <3>2. IsFiniteSet(window') /\ window' \subseteq Accepted'
      <4>1. window' \subseteq window
        BY <2>4
      <4> QED BY <1>1, <2>0, <4>1, FS_Subset
    <3>3. cursor' <= Position'
      BY <1>0, <2>1, <2>2, <2>4
    <3>4. ackCursor' # 0 => \E k \in AckRows : k <= Position' /\ journal[k].cursor = ackCursor'
      BY <2>0, <2>1, <2>4
    <3>5. ackCursor <= journal[n].cursor
      <4>1. CASE ackCursor # 0
        <5>1. PICK k \in AckRows : k <= replayed /\ journal[k].cursor = ackCursor
          BY <2>2, <4>1
        <5>2. k < n
          BY <1>0, <5>1
        <5> QED BY <2>4, <5>1, <5>2 DEF RowsInv
      <4>2. CASE ackCursor = 0
        BY <1>0, <2>0, <4>2
      <4> QED BY <4>1, <4>2
    <3>6. ASSUME ~Torn, NEW k \in Known, journal[k].cursor <= cursor
          PROVE  Item(k).envelope \in seen' /\ (journal[k].cursor > ackCursor' => Item(k) \in window')
      <4>1. Item(k).envelope \in seen /\ (journal[k].cursor > ackCursor => Item(k) \in window)
        BY <2>2, <3>6
      <4>2. Item(k).cursor = journal[k].cursor /\ journal[k].cursor \in Nat /\ journal[n].cursor \in Nat
        BY <1>0, <2>0, ItemFacts DEF Known
      <4> QED BY <1>0, <2>4, <3>5, <4>1, <4>2
    <3>7. cursor' + 0 = cursor'
      BY <1>0, <2>4
    <3> HIDE DEF n
    <3> QED BY <1>1, <2>0, <2>2, <2>4, <3>1, <3>2, <3>3, <3>4, <3>6, <3>7 DEF MemoryInv
  <2> QED BY <1>7, <2>3, <2>4, ReplayFacts
<1>8. CASE PeekSignals \/ LoseBatch \/ Crash \/ ReplayRefused \/ Resumed
  <2>0. /\ SignalRows' = SignalRows /\ AckRows' = AckRows /\ Accepted' = Accepted /\ Torn' = Torn
        /\ \A k : Item(k)' = Item(k)
        /\ UNCHANGED <<journal, emitted>>
    BY <1>8, QuietStepFacts, QuietFacts
  <2>1. CASE UNCHANGED <<status, replayed, cursor, ackCursor, seen, window>>
    BY <1>4, <2>0, <2>1
  <2>2. CASE /\ status' = "replaying" /\ replayed' = 0
             /\ cursor' = 0 /\ ackCursor' = 0 /\ seen' = {} /\ window' = {}
    BY <1>1, <2>0, <2>2, FreshMemory
  <2>3. CASE status' = "refused" /\ window' = window
    BY <1>1, <2>0, <2>3 DEF MemoryInv
  <2>4. CASE /\ status = "replaying" /\ replayed = Len(journal) /\ status' = "up" /\ replayed' = 0
             /\ UNCHANGED <<cursor, ackCursor, seen, window>>
    <3>1. Position' = Position
      BY <2>0, <2>4 DEF Position
    <3>2. Known' = Known
      BY <2>0, <3>1 DEF Known
    <3>3. \A k \in Known : journal[k].cursor <= cursor + 1
      <4>1. \A k \in Known : journal[k].cursor <= cursor + 0 /\ journal[k].cursor \in Nat
        BY <1>0, <2>4 DEF MemoryInv, Known
      <4> QED BY <1>0, <4>1
    <3> QED BY <1>1, <2>0, <2>4, <3>1, <3>2, <3>3 DEF MemoryInv
  <2> QED BY <1>8, <2>1, <2>2, <2>3, <2>4, QuietStepFacts
<1> QED BY <1>2, <1>3, <1>5, <1>6, <1>7, <1>8 DEF Next, SignalStep, AckStep
-----------------------------------------------------------------------------
(* A batch is a prefix of what is after the consumer's cursor. *)
LEMMA FirstOfPrefix ==
    ASSUME NEW S, IsFiniteSet(S), \A s \in S : s.cursor \in Nat,
           NEW i \in S, NEW b \in FirstOf(S), i.cursor <= b.cursor
    PROVE  i \in FirstOf(S)
<1> DEFINE I == {k \in S : k.cursor < i.cursor}
           B == {k \in S : k.cursor < b.cursor}
<1>1. b \in S /\ Cardinality(B) < MaxBatch
  BY DEF FirstOf
<1>2. I \subseteq B /\ B \subseteq S
  BY <1>1
<1>3. IsFiniteSet(B)
  <2> HIDE DEF B
  <2> QED BY <1>2, FS_Subset
<1>4. IsFiniteSet(I) /\ Cardinality(I) <= Cardinality(B)
  <2> HIDE DEF B, I
  <2> QED BY <1>2, <1>3, FS_Subset
<1>5. Cardinality(I) \in Nat /\ Cardinality(B) \in Nat /\ MaxBatch \in Nat
  <2> HIDE DEF B, I
  <2> QED BY <1>3, <1>4, FS_CardinalityType, SignalAssumption
<1>6. Cardinality(I) < MaxBatch
  <2> HIDE DEF B, I
  <2> QED BY <1>1, <1>4, <1>5
<1> QED BY <1>6 DEF FirstOf

(* A journal that was replayed to its end is not torn, and memory has all of it. *)
LEMMA ReplayedAll ==
    ASSUME TypeOK, RowsInv, MemoryInv, status = "replaying", replayed = Len(journal)
    PROVE  /\ ~Torn
           /\ \A i \in Accepted : /\ i.cursor <= cursor
                                  /\ i.cursor > ackCursor => i \in window
           /\ ackCursor <= consumed
<1>0. /\ Len(journal) \in Nat /\ SignalRows \subseteq 1..Len(journal) /\ cursor \in Nat
      /\ ackCursor \in Nat /\ consumed \in Nat
      /\ \A k \in 1..Len(journal) : journal[k].cursor \in Nat
  BY RowFacts
<1>1. Position = Len(journal) /\ Known = SignalRows
  <2>1. Position = Len(journal)
    BY DEF Position
  <2> QED BY <1>0, <2>1 DEF Known
<1>2. ~Torn
  BY <1>1 DEF MemoryInv, Torn
<1>3. ASSUME NEW k \in SignalRows
      PROVE  Item(k).cursor <= cursor /\ (Item(k).cursor > ackCursor => Item(k) \in window)
  <2>1. journal[k].cursor <= cursor + 0 /\ journal[k].cursor \in Nat /\ Item(k).cursor = journal[k].cursor
    BY <1>0, <1>1, ItemFacts DEF MemoryInv
  <2>2. journal[k].cursor <= cursor
    BY <1>0, <2>1
  <2> QED BY <1>1, <1>2, <2>1, <2>2 DEF MemoryInv
<1>4. ackCursor <= consumed
  BY <1>0 DEF MemoryInv, RowsInv
<1> QED BY <1>2, <1>3, <1>4, ItemFacts

(* Every action keeps what the consumer holds a prefix of the stream. *)
LEMMA DeliveryStep ==
    ASSUME TypeOK, RowsInv, MemoryInv, DeliveryInv, [Next]_vars
    PROVE  DeliveryInv'
<1>0. /\ cursor \in Nat /\ consumed \in Nat /\ ackCursor \in Nat
      /\ \A i \in Accepted : i.cursor \in Nat
      /\ window \subseteq Accepted /\ batch \subseteq Accepted /\ delivered \subseteq Accepted
  BY RowFacts, ItemFacts DEF MemoryInv, DeliveryInv
<1>1. /\ \A i \in delivered : i.cursor <= consumed
      /\ \A b \in batch : b.cursor > consumed
      /\ consumed # 0 => \E i \in Accepted : i.cursor = consumed
      /\ status = "up" =>
            /\ consumed <= cursor
            /\ \A i \in window \cup batch : i.cursor <= cursor
            /\ Prefix(window)
      /\ ~Torn => Prefix(Accepted)
  BY DEF DeliveryInv
<1>2. ASSUME NEW S, UNCHANGED <<consumed, delivered, batch>>, Prefix(S)
      PROVE  \A i \in S :
                /\ i.cursor <= consumed' => i \in delivered'
                /\ \A b \in batch' : consumed' < i.cursor /\ i.cursor <= b.cursor => i \in batch'
  BY <1>2 DEF Prefix
<1>3. ASSUME NEW e \in Envelopes, SignalStep(e) PROVE DeliveryInv'
  <2> DEFINE item == [cursor |-> cursor + 1, envelope |-> e]
  <2>1. /\ status = "up" /\ UNCHANGED <<consumed, batch, delivered>>
        /\ Accepted' = Accepted \cup {item}
        /\ ~Torn' => ~Torn
    BY <1>3, SignalStepFacts
  <2>2. item.cursor = cursor + 1
    OBVIOUS
  <2> HIDE DEF item
  <2>3. /\ ~(item.cursor <= consumed)
        /\ \A b \in batch : ~(item.cursor <= b.cursor)
    <3>1. \A b \in batch : b.cursor \in Nat /\ b.cursor <= cursor
      BY <1>0, <1>1, <2>1
    <3> QED BY <1>0, <1>1, <2>1, <2>2, <3>1
  <2>4. ~Torn' => Prefix(Accepted)'
    BY <1>1, <1>2, <2>1, <2>3 DEF Prefix
  <2>5. ASSUME status' = "up"
        PROVE  /\ consumed' <= cursor'
               /\ \A i \in window' \cup batch' : i.cursor <= cursor'
               /\ Prefix(window)'
    <3>1. \/ cursor' = cursor + 1 /\ window' = window \cup {item}
          \/ cursor' = cursor /\ window' = window
      BY <1>3, <2>5 DEF SignalStep, EmitSignal, SignalNotProjected, SignalCutShort, Publish, memory, item
    <3>2. consumed' <= cursor'
      BY <1>0, <1>1, <2>1, <3>1
    <3>3. ASSUME NEW i \in window' \cup batch' PROVE i.cursor <= cursor'
      <4>1. CASE i = item
        BY <1>0, <1>1, <2>1, <2>2, <2>3, <3>1, <3>3, <4>1
      <4>2. CASE i \in window \cup batch
        <5>1. i.cursor \in Nat /\ i.cursor <= cursor
          BY <1>0, <1>1, <2>1, <4>2
        <5> QED BY <1>0, <3>1, <5>1
      <4> QED BY <2>1, <3>1, <3>3, <4>1, <4>2
    <3>4. Prefix(window)'
      BY <1>1, <1>2, <2>1, <2>3, <3>1 DEF Prefix
    <3> QED BY <3>2, <3>3, <3>4
  <2> QED BY <1>0, <1>1, <2>1, <2>4, <2>5 DEF DeliveryInv
<1>4. CASE AckStep
  <2>1. /\ status = "up" /\ UNCHANGED <<consumed, batch, delivered, cursor>>
        /\ Accepted' = Accepted /\ Torn' = Torn /\ window' \subseteq window
    BY <1>4, AckStepFacts
  <2>2. Prefix(window)' /\ (~Torn' => Prefix(Accepted)')
    BY <1>1, <1>2, <2>1 DEF Prefix
  <2> QED BY <1>0, <1>1, <2>1, <2>2 DEF DeliveryInv
<1>5. CASE CommitBatch
  <2>1. /\ UNCHANGED <<journal, status, cursor, window>> /\ batch' = {} /\ delivered' = delivered \cup batch
        /\ consumed' \in Nat /\ consumed < consumed' /\ \A i \in batch : i.cursor <= consumed'
        /\ \E i \in batch : i.cursor = consumed'
        /\ Accepted' = Accepted /\ Torn' = Torn
    BY <1>5, CommitFacts, QuietFacts
  <2>2. ASSUME NEW S \in SUBSET Accepted, Prefix(S) PROVE \A i \in S : i.cursor <= consumed' => i \in delivered'
    BY <1>0, <2>1, <2>2 DEF Prefix
  <2>3. \A i \in delivered' : i.cursor <= consumed'
    <3>1. \A i \in delivered : i.cursor \in Nat /\ i.cursor <= consumed
      BY <1>0, <1>1
    <3> QED BY <1>0, <2>1, <3>1
  <2>4. status' = "up" => consumed' <= cursor'
    BY <1>0, <1>1, <2>1
  <2>5. (status' = "up" => Prefix(window)') /\ (~Torn' => Prefix(Accepted)')
    BY <1>0, <1>1, <2>1, <2>2 DEF Prefix
  <2>6. consumed' # 0 => \E i \in Accepted' : i.cursor = consumed'
    BY <1>0, <2>1
  <2> QED BY <1>0, <1>1, <2>1, <2>3, <2>4, <2>5, <2>6 DEF DeliveryInv
<1>6. ASSUME UNCHANGED <<journal, consumed, delivered, batch>>,
             status' = "up" =>
                /\ consumed <= cursor'
                /\ \A i \in window' \cup batch : i.cursor <= cursor'
                /\ Prefix(window')
      PROVE  DeliveryInv'
  <2>1. Accepted' = Accepted /\ Torn' = Torn
    BY <1>6, QuietFacts
  <2>2. (status' = "up" => Prefix(window)') /\ (~Torn' => Prefix(Accepted)')
    BY <1>1, <1>2, <1>6, <2>1 DEF Prefix
  <2> QED BY <1>0, <1>1, <1>6, <2>1, <2>2 DEF DeliveryInv
<1>7. CASE UNCHANGED vars
  BY <1>1, <1>6, <1>7 DEF vars, memory, consumer
<1>8. CASE ReplaySignal \/ ReplayAck
  BY <1>6, <1>8, ReplayFacts
<1>9. CASE Crash \/ ReplayRefused
  BY <1>6, <1>9 DEF Crash, ReplayRefused, consumer
<1>10. CASE Resumed
  <2>1. /\ status = "replaying" /\ replayed = Len(journal)
        /\ UNCHANGED <<journal, consumed, delivered, batch, cursor, window>>
    BY <1>10 DEF Resumed, memory, consumer
  <2>2. ~Torn /\ \A i \in Accepted : i.cursor <= cursor
    BY <2>1, ReplayedAll
  <2>3. consumed <= cursor
    BY <1>0, <1>1, <2>2
  <2>4. Prefix(window)
    BY <1>0, <1>1, <2>2 DEF Prefix
  <2> QED BY <1>0, <1>6, <2>1, <2>2, <2>3, <2>4
<1>11. CASE LoseBatch
  <2>1. UNCHANGED <<journal, status, consumed, delivered, cursor, window>> /\ batch' = {}
    BY <1>11 DEF LoseBatch, memory
  <2>2. Accepted' = Accepted /\ Torn' = Torn
    BY <2>1, QuietFacts
  <2>3. (status' = "up" => Prefix(window)') /\ (~Torn' => Prefix(Accepted)')
    BY <1>1, <2>1, <2>2 DEF Prefix
  <2> QED BY <1>0, <1>1, <2>1, <2>2, <2>3 DEF DeliveryInv
<1>12. CASE PeekSignals
  <2>1. /\ UNCHANGED <<journal, status, consumed, delivered, cursor, window>> /\ status = "up"
        /\ consumed >= ackCursor /\ batch' = FirstOf(After(consumed))
    BY <1>12 DEF PeekSignals, memory
  <2>2. Accepted' = Accepted /\ Torn' = Torn
    BY <2>1, QuietFacts
  <2>3. IsFiniteSet(After(consumed)) /\ After(consumed) \subseteq window
    <3>1. After(consumed) \subseteq window
      BY DEF After
    <3> QED BY <3>1, FS_Subset DEF MemoryInv
  <2>4. batch' \subseteq After(consumed) /\ \A b \in batch' : b \in window /\ b.cursor > consumed
    BY <2>1 DEF FirstOf, After
  <2>5. ASSUME NEW i \in window, NEW b \in batch', consumed < i.cursor, i.cursor <= b.cursor
        PROVE  i \in batch'
    <3>1. i \in After(consumed)
      BY <1>0, <2>5 DEF After
    <3>2. \A s \in After(consumed) : s.cursor \in Nat
      BY <1>0, <2>3
    <3> QED BY <2>1, <2>3, <2>5, <3>1, <3>2, FirstOfPrefix
  <2>6. ASSUME ~Torn, NEW i \in Accepted, consumed < i.cursor, i.cursor <= cursor PROVE i \in window
    <3>1. PICK k \in SignalRows : i = Item(k) /\ Item(k).cursor = journal[k].cursor
      BY ItemFacts
    <3>2. k \in Known
      BY <2>1, KnownUp
    <3> QED BY <1>0, <2>1, <2>6, <3>1, <3>2 DEF MemoryInv
  <2>7. ~Torn => \A i \in Accepted : \A b \in batch' :
                    consumed < i.cursor /\ i.cursor <= b.cursor => i \in batch'
    <3>1. ASSUME ~Torn, NEW i \in Accepted, NEW b \in batch', consumed < i.cursor, i.cursor <= b.cursor
          PROVE  i \in batch'
      <4>1. b.cursor <= cursor /\ b.cursor \in Nat /\ i.cursor \in Nat
        BY <1>0, <1>1, <2>1, <2>4
      <4>2. i.cursor <= cursor
        BY <1>0, <3>1, <4>1
      <4> QED BY <2>5, <2>6, <3>1, <4>2
    <3> QED BY <3>1
  <2>8. Prefix(window)' /\ (~Torn' => Prefix(Accepted)')
    BY <1>1, <2>1, <2>2, <2>5, <2>7 DEF Prefix
  <2> QED BY <1>0, <1>1, <2>1, <2>2, <2>4, <2>8 DEF DeliveryInv
<1> QED BY <1>3, <1>4, <1>5, <1>7, <1>8, <1>9, <1>10, <1>11, <1>12 DEF Next, SignalStep, AckStep
-----------------------------------------------------------------------------
(* The next row of a journal that is not torn can be replayed. *)
LEMMA NextRowFits ==
    ASSUME TypeOK, RowsInv, MemoryInv, Replaying, ~Torn
    PROVE  SignalRowFits(NextRow) \/ AckRowFits(NextRow)
<1> DEFINE n == replayed + 1
<1>0. /\ Len(journal) \in Nat /\ SignalRows \subseteq 1..Len(journal) /\ AckRows \subseteq 1..Len(journal)
      /\ cursor \in Nat /\ ackCursor \in Nat /\ replayed \in Nat
      /\ \A k \in 1..Len(journal) : journal[k].cursor \in Nat /\ journal[k].cursor # 0
      /\ status = "replaying" /\ n \in 1..Len(journal) /\ n \in Nat
  BY RowFacts DEF Replaying
<1>1. Position = replayed
  BY <1>0 DEF Position
<1>2. /\ \A k \in Known : journal[k].cursor <= cursor
      /\ cursor # 0 => \E k \in Known : journal[k].cursor = cursor
      /\ ackCursor # 0 => \E k \in AckRows : k <= replayed /\ journal[k].cursor = ackCursor
      /\ \A e \in seen : \E k \in Known : Item(k).envelope = e
      /\ Known \subseteq SignalRows
  <2>1. \A k \in Known : journal[k].cursor <= cursor + 0 /\ journal[k].cursor \in Nat
    BY <1>0 DEF MemoryInv, Known
  <2>2. \A k \in Known : journal[k].cursor <= cursor
    BY <1>0, <2>1
  <2> QED BY <1>0, <1>1, <2>2 DEF MemoryInv, Known
<1>3. \A k \in SignalRows : k < n <=> k \in Known
  BY <1>0, <1>1 DEF Known
<1>4. CASE n \in SignalRows
  <2>1. journal[n].cursor > cursor
    <3>1. CASE cursor = 0
      BY <1>0, <3>1
    <3>2. CASE cursor # 0
      <4>1. PICK k \in Known : journal[k].cursor = cursor
        BY <1>2, <3>2
      <4>2. k \in SignalRows /\ k < n
        BY <1>2, <1>3, <4>1
      <4>3. journal[k].cursor < journal[n].cursor
        BY <1>4, <4>2 DEF RowsInv
      <4> QED BY <1>0, <4>1, <4>3
    <3> QED BY <3>1, <3>2
  <2>2. journal[n].cursor = cursor + 1
    <3>1. SUFFICES ASSUME journal[n].cursor # cursor + 1 PROVE FALSE
      OBVIOUS
    <3>2. cursor + 1 \in 1..(journal[n].cursor - 1)
      BY <1>0, <2>1, <3>1
    <3>3. PICK j \in SignalRows : j < n /\ journal[j].cursor = cursor + 1
      BY <1>4, <3>2 DEF RowsInv
    <3>4. journal[j].cursor <= cursor
      BY <1>2, <1>3, <3>3
    <3> QED BY <1>0, <3>3, <3>4
  <2>3. ASSUME NEW e \in journal[n].envelope PROVE Unseen(e)
    <3>1. e = Item(n).envelope
      BY <1>4, <2>3, ItemFacts
    <3>2. ASSUME NEW s \in seen PROVE s.id # e.id
      <4>1. PICK k \in Known : Item(k).envelope = s
        BY <1>2
      <4>2. k \in SignalRows /\ k < n
        BY <1>2, <1>3, <4>1
      <4>3. Item(k).envelope.id # Item(n).envelope.id
        BY <1>4, <4>2 DEF RowsInv
      <4> QED BY <3>1, <4>1, <4>3
    <3> QED BY <3>2 DEF Unseen
  <2>4. journal[n].kind = "signal"
    BY <1>4 DEF SignalRows
  <2> QED BY <2>2, <2>3, <2>4 DEF SignalRowFits, NextRow
<1>5. CASE n \in AckRows
  <2>1. ackCursor <= journal[n].cursor
    <3>1. CASE ackCursor = 0
      BY <1>0, <3>1
    <3>2. CASE ackCursor # 0
      <4>1. PICK k \in AckRows : k <= replayed /\ journal[k].cursor = ackCursor
        BY <1>2, <3>2
      <4>2. k < n
        BY <1>0, <4>1
      <4> QED BY <1>5, <4>1, <4>2 DEF RowsInv
    <3> QED BY <3>1, <3>2
  <2>2. journal[n].cursor <= cursor
    <3>1. PICK j \in SignalRows : j < n /\ journal[n].cursor <= journal[j].cursor
      BY <1>5 DEF RowsInv
    <3>2. journal[j].cursor <= cursor /\ j \in 1..Len(journal)
      BY <1>0, <1>2, <1>3, <3>1
    <3> QED BY <1>0, <3>1, <3>2
  <2>3. journal[n].kind = "ack"
    BY <1>5 DEF AckRows
  <2> QED BY <2>1, <2>2, <2>3 DEF AckRowFits, NextRow
<1> QED BY <1>0, <1>4, <1>5, RowFacts

(* Every action keeps the journal replayable and what it owes the consumer. *)
LEMMA JournalStep ==
    ASSUME TypeOK, RowsInv, MemoryInv, DeliveryInv, JournalInv, [Next]_vars, TypeOK'
    PROVE  JournalInv'
<1>1. (status = "refused" => Torn) /\ NoSignalLost
  BY DEF JournalInv, RefusedOnlyIfTorn
<1>2. ASSUME status' = "refused" PROVE Torn'
  <2>1. CASE ReplayRefused
    <3>1. journal' = journal
      BY <2>1 DEF ReplayRefused
    <3>2. Torn
      BY <2>1, NextRowFits DEF ReplayRefused
    <3> QED BY <3>1, <3>2, QuietFacts
  <2>2. CASE ~ReplayRefused
    <3>1. status = "refused" /\ journal' = journal
      BY <1>2, <2>2 DEF Next, vars, EmitSignal, SignalNotProjected, SignalCutShort, PeekSignals,
         CommitBatch, LoseBatch, AcknowledgeSignals, AckNotProjected, Crash, ReplaySignal, ReplayAck, Resumed,
         Replaying
    <3> QED BY <1>1, <3>1, QuietFacts
  <2> QED BY <2>1, <2>2
<1>3. ASSUME status' = "up", NEW e \in emitted' PROVE \E i \in delivered' \cup window' : i.envelope = e
  <2>1. ASSUME status = "up", e \in emitted, delivered \subseteq delivered',
               \A i \in window : i \in window' \/ i \in delivered'
        PROVE  \E i \in delivered' \cup window' : i.envelope = e
    <3>1. PICK i \in delivered \cup window : i.envelope = e
      BY <1>1, <2>1 DEF NoSignalLost
    <3> QED BY <2>1, <3>1
  <2>2. CASE UNCHANGED vars
    BY <1>3, <2>1, <2>2 DEF vars, memory, consumer
  <2>3. ASSUME NEW d \in Envelopes, SignalStep(d) PROVE \E i \in delivered' \cup window' : i.envelope = e
    <3>1. /\ status = "up" /\ delivered' = delivered
          /\ \/ /\ emitted' = emitted \cup {d}
                /\ window' = window \cup {[cursor |-> cursor + 1, envelope |-> d]}
             \/ UNCHANGED <<emitted, window>>
      BY <1>3, <2>3 DEF SignalStep, EmitSignal, SignalNotProjected, SignalCutShort, Publish, memory, consumer
    <3>2. CASE e \in emitted
      BY <2>1, <3>1, <3>2
    <3>3. CASE e \notin emitted
      <4>1. e = d /\ [cursor |-> cursor + 1, envelope |-> d] \in window'
        BY <1>3, <3>1, <3>3
      <4>2. [cursor |-> cursor + 1, envelope |-> d].envelope = e
        BY <4>1
      <4> QED BY <4>1, <4>2
    <3> QED BY <3>2, <3>3
  <2>4. CASE AckStep
    <3>1. /\ status = "up" /\ delivered' = delivered /\ emitted' = emitted
          /\ \/ window' = {i \in window : i.cursor > consumed}
             \/ window' = window
      BY <2>4, AckStepFacts
    <3>2. ASSUME NEW i \in window PROVE i \in window' \/ i \in delivered'
      <4>1. i.cursor \in Nat /\ consumed \in Nat
        BY ItemFacts, RowFacts DEF MemoryInv
      <4>2. i.cursor <= consumed => i \in delivered
        BY <3>1 DEF DeliveryInv, Prefix
      <4> QED BY <3>1, <4>1, <4>2
    <3> QED BY <1>3, <2>1, <3>1, <3>2
  <2>5. CASE CommitBatch
    <3>1. UNCHANGED <<status, window, emitted>> /\ delivered' = delivered \cup batch
      BY <2>5, CommitFacts
    <3> QED BY <1>3, <2>1, <3>1
  <2>6. CASE PeekSignals \/ LoseBatch
    BY <1>3, <2>1, <2>6 DEF PeekSignals, LoseBatch, memory
  <2>7. CASE Resumed
    <3>1. /\ status = "replaying" /\ replayed = Len(journal)
          /\ UNCHANGED <<journal, consumed, delivered, window, emitted>>
      BY <2>7 DEF Resumed, memory, consumer
    <3>2. PICK i \in Accepted : i.envelope = e
      BY <1>3, <3>1 DEF MemoryInv
    <3>3. /\ i.cursor > ackCursor => i \in window
          /\ ackCursor <= consumed /\ (i.cursor <= consumed => i \in delivered)
      BY <3>1, <3>2, ReplayedAll DEF DeliveryInv, Prefix
    <3>4. i.cursor \in Nat /\ ackCursor \in Nat /\ consumed \in Nat
      BY <3>2, ItemFacts, RowFacts
    <3> QED BY <3>1, <3>2, <3>3, <3>4
  <2>8. ~(Crash \/ ReplaySignal \/ ReplayAck \/ ReplayRefused)
    BY <1>3 DEF Crash, ReplaySignal, ReplayAck, ReplayRefused, Replaying
  <2> QED BY <2>2, <2>3, <2>4, <2>5, <2>6, <2>7, <2>8 DEF Next, SignalStep, AckStep
<1> QED BY <1>2, <1>3 DEF JournalInv, RefusedOnlyIfTorn, NoSignalLost

(* The invariant holds initially. *)
LEMMA SignalInit ==
    ASSUME Init PROVE SignalInv
<1>1. /\ journal = <<>> /\ status = "up" /\ replayed = 0 /\ cursor = 0 /\ ackCursor = 0 /\ seen = {}
      /\ window = {} /\ consumed = 0 /\ batch = {} /\ delivered = {} /\ emitted = {} /\ faults = 0
  BY DEF Init
<1>2. TypeOK
  BY <1>1, SignalAssumption DEF TypeOK
<1>3. SignalRows = {} /\ AckRows = {} /\ Len(journal) = 0
  BY <1>1 DEF SignalRows, AckRows
<1>4. Accepted = {} /\ ~Torn /\ Known = {} /\ Position = 0
  BY <1>1, <1>3 DEF Accepted, Torn, Known, Position
<1>5. RowsInv
  BY <1>3 DEF RowsInv
<1>6. NumberedInv
  BY <1>4, FS_EmptySet DEF NumberedInv
<1>7. MemoryInv
  BY <1>1, <1>4, FS_EmptySet DEF MemoryInv
<1>8. DeliveryInv
  BY <1>1, <1>4 DEF DeliveryInv, Prefix
<1>9. JournalInv
  BY <1>1, <1>2 DEF JournalInv, RefusedOnlyIfTorn, NoSignalLost
<1> QED BY <1>2, <1>5, <1>6, <1>7, <1>8, <1>9 DEF SignalInv

(* Every action keeps the invariant. *)
LEMMA SignalStepInv ==
    ASSUME SignalInv, [Next]_vars PROVE SignalInv'
<1>1. TypeOK /\ RowsInv /\ NumberedInv /\ MemoryInv /\ DeliveryInv /\ JournalInv
  BY DEF SignalInv
<1>2. TypeOK'
  BY <1>1, TypeStep
<1>3. RowsInv'
  BY <1>1, RowsStep
<1>4. NumberedInv'
  BY <1>1, NumberedStep
<1>5. MemoryInv'
  BY <1>1, <1>2, MemoryStep
<1>6. DeliveryInv'
  BY <1>1, DeliveryStep
<1>7. JournalInv'
  BY <1>1, <1>2, JournalStep
<1> QED BY <1>2, <1>3, <1>4, <1>5, <1>6, <1>7 DEF SignalInv

(* The inductive invariant of the delivery of signals. *)
LEMMA SignalInvariant == Spec => []SignalInv
<1>1. Init => SignalInv
  BY SignalInit
<1>2. SignalInv /\ [Next]_vars => SignalInv'
  BY SignalStepInv
<1> QED BY <1>1, <1>2, PTL DEF Spec

(* For any number of signals, batches, crashes and failed projections: a resume
   refuses only a journal with two signals under one cursor, and every signal
   whose emit_signal returned is committed by the consumer or still to be peeked
   while the session is up (emit_signal, acknowledge_behavior_signals,
   _restore_session). *)
THEOREM JournalIsReplayable == Spec => []JournalInv
<1>1. SignalInv => JournalInv
  BY DEF SignalInv
<1> QED BY <1>1, SignalInvariant, PTL

(* A step of the session is a step of the stream: a signal row accepts the next
   signal, a committed batch commits a longer prefix, everything else stutters. *)
LEMMA StreamStep ==
    ASSUME SignalInv, [Next]_vars
    PROVE  Stream!StreamNext \/ UNCHANGED Stream!streamVars
<1>0. TypeOK /\ RowsInv /\ NumberedInv /\ MemoryInv /\ DeliveryInv
  BY DEF SignalInv
<1>1. CASE Torn'
  BY <1>1 DEF Stream!StreamNext
<1>2. ASSUME NEW e \in Envelopes, SignalStep(e), ~Torn' PROVE Stream!Accept(e)
  <2>1. /\ status = "up" /\ Unseen(e) /\ delivered' = delivered
        /\ Accepted' = Accepted \cup {[cursor |-> cursor + 1, envelope |-> e]}
        /\ ~Torn /\ \A k \in SignalRows : journal[k].cursor # cursor + 1
    BY <1>0, <1>2, SignalStepFacts
  <2>2. Cardinality(Accepted) = cursor /\ \A i \in Accepted : i.envelope \in seen
    BY <1>0, <2>1, NextCursor
  <2>3. \A i \in Accepted : i.envelope.id # e.id
    BY <2>1, <2>2 DEF Unseen
  <2>4. Torn' = Torn
    BY <1>2, <2>1 DEF Torn
  <2>5. Accepted' = Accepted \cup {[cursor |-> Cardinality(Accepted) + 1, envelope |-> e]}
    BY <2>1, <2>2
  <2>6. Stream!Cardinality(Accepted) = Cardinality(Accepted)
    BY DEF Stream!Cardinality, Cardinality
  <2> QED BY <2>1, <2>3, <2>4, <2>5, <2>6 DEF Stream!Accept
<1>3. ASSUME CommitBatch, ~Torn' PROVE \E i \in Accepted : Stream!Commit(i.cursor)
  <2>1. /\ journal' = journal /\ delivered' = delivered \cup batch
        /\ consumed' \in Nat /\ consumed < consumed' /\ \A i \in batch : i.cursor <= consumed'
        /\ Accepted' = Accepted /\ Torn' = Torn
    BY <1>0, <1>3, CommitFacts, QuietFacts
  <2>2. PICK i \in batch : i.cursor = consumed'
    BY <1>0, <1>3, CommitFacts
  <2>3. /\ Prefix(Accepted) /\ delivered \cup batch \subseteq Accepted
        /\ \A d \in delivered : d.cursor <= consumed
        /\ \A d \in Accepted : d.cursor \in Nat
        /\ consumed \in Nat
    BY <1>0, <1>3, <2>1, ItemFacts, RowFacts DEF DeliveryInv
  <2>4. ASSUME NEW d \in Accepted, d.cursor <= consumed' PROVE d \in delivered \cup batch
    BY <2>2, <2>3, <2>4 DEF Prefix
  <2>5. ASSUME NEW d \in delivered \cup batch PROVE d \in Accepted /\ d.cursor <= consumed'
    BY <2>1, <2>3
  <2>6. delivered' = {d \in Accepted : d.cursor <= i.cursor}
    BY <2>1, <2>2, <2>4, <2>5
  <2>7. i \in Accepted /\ delivered \subseteq delivered'
    BY <2>1, <2>2, <2>3
  <2> QED BY <2>1, <2>6, <2>7 DEF Stream!Commit
<1>4. CASE AckStep
  BY <1>0, <1>4, AckStepFacts DEF Stream!streamVars
<1>5. ASSUME journal' = journal, delivered' = delivered PROVE UNCHANGED Stream!streamVars
  BY <1>5, QuietFacts DEF Stream!streamVars
<1>6. CASE UNCHANGED vars
  BY <1>5, <1>6 DEF vars, consumer
<1>7. CASE ReplaySignal \/ ReplayAck
  BY <1>0, <1>5, <1>7, ReplayFacts
<1>8. CASE PeekSignals \/ LoseBatch \/ Crash \/ ReplayRefused \/ Resumed
  BY <1>0, <1>5, <1>8, QuietStepFacts
<1> QED
  BY <1>1, <1>2, <1>3, <1>4, <1>6, <1>7, <1>8 DEF Next, SignalStep, AckStep, Stream!StreamNext

(* Until its journal is torn a session is an exactly-once stream: accepted
   signals keep their cursors and the consumer commits ever longer prefixes of
   them (peek_behavior_signals, _restore_session). *)
THEOREM SessionIsStream == Spec => ImplementsStream
<1>1. Init => Stream!StreamInit
  <2> SUFFICES ASSUME Init PROVE Stream!StreamInit
    OBVIOUS
  <2>1. SignalRows = {} /\ delivered = {}
    BY DEF Init, SignalRows
  <2>2. Accepted = {} /\ ~Torn
    BY <2>1 DEF Accepted, Torn
  <2> QED BY <2>1, <2>2 DEF Stream!StreamInit
<1>2. SignalInv /\ [Next]_vars => [Stream!StreamNext]_(Stream!streamVars)
  BY StreamStep
<1> QED BY <1>1, <1>2, SignalInvariant, PTL DEF Spec, ImplementsStream, Stream!StreamSpec
=============================================================================
