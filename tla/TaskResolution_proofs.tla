------------------------ MODULE TaskResolution_proofs ------------------------
(***************************************************************************)
(* What resolve() pins and what a starting session leaves on disk, proved  *)
(* for any pipeline without cycles, guard pack and routing profiles, any   *)
(* number of sessions of an attempt and any bundles they are started with. *)
(*                                                                         *)
(* The store's property is not inductive: what a started session finds on  *)
(* disk was put there step by step, so StoreProgress says for every place  *)
(* of a start what the files hold by then.                                 *)
(***************************************************************************)
EXTENDS MCTaskResolution, FiniteSetTheorems, SequenceTheorems, WellFoundedInduction, TLAPS

(* The places of a start. *)
Places == {"down", "policy", "verify", "snapshot", "manifest", "started", "refused"}

(* The documents of the bundles. *)
Documents == {b.document : b \in Bundles}

(* Types of the store's variables. *)
StoreShape ==
    /\ policies \in [Store!Hashes -> SUBSET Documents]
    /\ snapshots \in [Store!Hashes -> SUBSET Bundles]
    /\ manifests \in [Starters -> SUBSET Bundles]
    /\ journal \in [Starters -> SUBSET Store!Hashes]
    /\ held \in [Starters -> SUBSET Bundles]
    /\ at \in [Starters -> Places]
    /\ starts \in [Starters -> 0..MaxStarts]
    /\ raced \subseteq Store!Hashes

(* A file has one content, a started session one bundle, and that bundle and the
   session's manifest are of the policy its journal is bound to. *)
OneContent ==
    /\ \A h \in Store!Hashes : /\ policies[h] = {} \/ \E d \in Documents : policies[h] = {d}
                               /\ snapshots[h] = {} \/ \E b \in Bundles : snapshots[h] = {b}
    /\ \A s \in Starters : /\ at[s] = "down" => held[s] = {}
                           /\ at[s] # "down" => \E b \in Bundles : held[s] = {b}
                           /\ \A b \in held[s] \cup manifests[s] : journal[s] = {b.hash}

(* What a start has put on disk, or found there, by the time it is at a place. *)
Progress(s, b) ==
    /\ at[s] \in {"verify", "snapshot", "manifest", "started"} => policies[b.hash] = {b.document}
    /\ at[s] \in {"snapshot", "manifest", "started"} => b.intact
    /\ at[s] \in {"manifest", "started"} =>
          snapshots[b.hash] # {} /\ (b.hash \in raced \/ snapshots[b.hash] = {b})
    /\ at[s] = "started" => manifests[s] = {b}

(* Every session has made the progress of its place. *)
StoreProgress == \A s \in Starters : \A b \in held[s] : Progress(s, b)

(* The inductive invariant of the store. *)
StoreInd == StoreShape /\ OneContent /\ StoreProgress /\ Store!ManifestsAreBacked

(* The hash of a bundle is one of the attempt's hashes. *)
LEMMA HashOfBundle ==
    ASSUME NEW b \in Bundles
    PROVE  b.hash \in Store!Hashes /\ b.document \in Documents
BY DEF Store!Hashes, Documents

(* The types and one content per file give the bounds on cardinalities. *)
LEMMA StoreTypes ==
    ASSUME StoreInd
    PROVE  Store!StoreTypeOK
<1>1. StoreShape /\ OneContent
  BY DEF StoreInd
<1>2. Cardinality({}) = 0
  BY FS_EmptySet
<1>3. ASSUME NEW x PROVE Cardinality({x}) = 1
  BY FS_Singleton
<1>4. ASSUME NEW h \in Store!Hashes
      PROVE  /\ policies[h] \subseteq {b.document : b \in Bundles}
             /\ snapshots[h] \subseteq Bundles
             /\ Cardinality(policies[h]) <= 1 /\ Cardinality(snapshots[h]) <= 1
  <2>1. policies[h] \subseteq {b.document : b \in Bundles} /\ snapshots[h] \subseteq Bundles
    BY <1>1 DEF StoreShape, Documents
  <2>2. Cardinality(policies[h]) \in {0, 1} /\ Cardinality(snapshots[h]) \in {0, 1}
    BY <1>1, <1>2, <1>3 DEF OneContent
  <2> QED BY <2>1, <2>2
<1>5. ASSUME NEW s \in Starters
      PROVE  /\ manifests[s] \subseteq Bundles /\ held[s] \subseteq Bundles
             /\ Cardinality(held[s]) = IF at[s] = "down" THEN 0 ELSE 1
             /\ starts[s] \in 0..MaxStarts
             /\ \A b \in held[s] \union manifests[s] : journal[s] = {b.hash}
  <2>1. manifests[s] \subseteq Bundles /\ held[s] \subseteq Bundles /\ starts[s] \in 0..MaxStarts
    BY <1>1 DEF StoreShape
  <2>2. Cardinality(held[s]) = IF at[s] = "down" THEN 0 ELSE 1
    BY <1>1, <1>2, <1>3 DEF OneContent
  <2>3. \A b \in held[s] \union manifests[s] : journal[s] = {b.hash}
    BY <1>1 DEF OneContent
  <2> QED BY <2>1, <2>2, <2>3
<1>6. ASSUME NEW S PROVE Store!Cardinality(S) = Cardinality(S)
  BY DEF Store!Cardinality, Cardinality
<1> QED BY <1>1, <1>4, <1>5, <1>6 DEF Store!StoreTypeOK, StoreShape

(* The inductive invariant says what the run checks. *)
LEMMA StoreIndImplies ==
    ASSUME StoreInd
    PROVE  StoreInv
<1>1. Store!StartedIsOnRecord
  BY DEF StoreInd, StoreProgress, Progress, Store!StartedIsOnRecord
<1> QED BY <1>1, StoreTypes DEF StoreInv, StoreInd

(* No file exists before the first start. *)
LEMMA StoreIndInit ==
    ASSUME Store!StoreInit
    PROVE  StoreInd
<1>1. StoreShape
  BY StoreAssumption DEF Store!StoreInit, StoreShape, Places, Store!StoreConstants
<1>2. OneContent
  BY DEF Store!StoreInit, OneContent
<1>3. StoreProgress /\ Store!ManifestsAreBacked
  BY DEF Store!StoreInit, StoreProgress, Store!ManifestsAreBacked
<1> QED BY <1>1, <1>2, <1>3 DEF StoreInd

(* A step of a start keeps the types. *)
LEMMA StoreShapeStep ==
    ASSUME StoreInd, NEW s \in Starters,
           \/ Store!StartSession(s) \/ Store!WritePolicy(s) \/ Store!CheckSnapshot(s)
           \/ Store!WriteSnapshot(s) \/ Store!WriteManifest(s) \/ Store!StopSession(s)
    PROVE  StoreShape'
<1>0. StoreShape /\ MaxStarts \in Nat
  BY StoreAssumption DEF StoreInd, Store!StoreConstants
<1>1. CASE Store!StartSession(s)
  BY <1>0, <1>1, HashOfBundle DEF Store!StartSession, StoreShape, Store!Goes, Places
<1>2. CASE Store!WritePolicy(s)
  <2>1. PICK b \in held[s] : policies' \in {policies, [policies EXCEPT ![b.hash] = {b.document}]}
    BY <1>2 DEF Store!WritePolicy
  <2>2. policies' \in [Store!Hashes -> SUBSET Documents]
    BY <1>0, <2>1, HashOfBundle DEF StoreShape
  <2> QED BY <1>0, <1>2, <2>2 DEF Store!WritePolicy, StoreShape, Store!Goes, Places
<1>3. CASE Store!CheckSnapshot(s)
  BY <1>0, <1>3 DEF Store!CheckSnapshot, StoreShape, Store!Goes, Places
<1>4. CASE Store!WriteSnapshot(s)
  BY <1>0, <1>4, HashOfBundle DEF Store!WriteSnapshot, Store!Replaced, StoreShape, Store!Goes, Places
<1>5. CASE Store!WriteManifest(s)
  <2>1. manifests' \in [Starters -> SUBSET Bundles]
    BY <1>0, <1>5 DEF Store!WriteManifest, StoreShape
  <2> QED BY <1>0, <1>5, <2>1 DEF Store!WriteManifest, StoreShape, Store!Goes, Places
<1>6. CASE Store!StopSession(s)
  BY <1>0, <1>6 DEF Store!StopSession, StoreShape, Store!Goes, Places
<1> QED BY <1>1, <1>2, <1>3, <1>4, <1>5, <1>6
(* A stored artifact is only ever compared. *)
LEMMA ArtifactStep ==
    ASSUME StoreInd, Store!StoreNext
    PROVE  Store!ArtifactsKept
<1>1. StoreShape
  BY DEF StoreInd
<1>2. ASSUME NEW s \in Starters, Store!WritePolicy(s), NEW h \in Store!Hashes, policies[h] # {}
      PROVE  policies'[h] = policies[h]
  <2>1. PICK b \in held[s] :
          \/ policies' = policies
          \/ /\ Store!Agrees(policies[b.hash], b.document)
             /\ policies' = [policies EXCEPT ![b.hash] = {b.document}]
    BY <1>2 DEF Store!WritePolicy
  <2>2. b \in Bundles /\ b.hash \in Store!Hashes
    BY <1>1, HashOfBundle DEF StoreShape
  <2> QED BY <1>1, <1>2, <2>1, <2>2 DEF StoreShape, Store!Agrees
<1>3. ASSUME NEW s \in Starters,
             \/ Store!StartSession(s) \/ Store!CheckSnapshot(s) \/ Store!WriteSnapshot(s)
             \/ Store!WriteManifest(s) \/ Store!StopSession(s)
      PROVE  policies' = policies
  BY <1>3 DEF Store!StartSession, Store!CheckSnapshot, Store!WriteSnapshot,
              Store!WriteManifest, Store!StopSession
<1> QED BY <1>2, <1>3 DEF Store!StoreNext, Store!ArtifactsKept

(* A file keeps one content. *)
LEMMA OneContentStep ==
    ASSUME StoreInd, NEW s \in Starters,
           \/ Store!StartSession(s) \/ Store!WritePolicy(s) \/ Store!CheckSnapshot(s)
           \/ Store!WriteSnapshot(s) \/ Store!WriteManifest(s) \/ Store!StopSession(s)
    PROVE  OneContent'
<1>0. StoreShape /\ OneContent /\ s \in Starters
  BY DEF StoreInd
<1> DEFINE A(h) == /\ policies[h] = {} \/ \E d \in Documents : policies[h] = {d}
                   /\ snapshots[h] = {} \/ \E b \in Bundles : snapshots[h] = {b}
           B(r) == /\ at[r] = "down" => held[r] = {}
                   /\ at[r] # "down" => \E b \in Bundles : held[r] = {b}
                   /\ \A b \in held[r] \cup manifests[r] : journal[r] = {b.hash}
<1>1. (\A h \in Store!Hashes : A(h)) /\ \A r \in Starters : B(r)
  BY <1>0 DEF OneContent
<1>2. CASE Store!StartSession(s)
  <2>1. \A h \in Store!Hashes : A(h)'
    BY <1>1, <1>2 DEF Store!StartSession
  <2>2. PICK b \in Bundles : /\ journal[s] \in {{}, {b.hash}}
                             /\ journal' = [journal EXCEPT ![s] = {b.hash}]
                             /\ held' = [held EXCEPT ![s] = {b}]
    BY <1>2 DEF Store!StartSession
  <2>3. at' = [at EXCEPT ![s] = "policy"] /\ manifests' = manifests
    BY <1>2 DEF Store!StartSession, Store!Goes
  <2>4. ASSUME NEW r \in Starters PROVE B(r)'
    <3>1. CASE r = s
      <4>1. held'[r] = {b} /\ at'[r] = "policy" /\ journal'[r] = {b.hash} /\ manifests'[r] = manifests[s]
        BY <1>0, <2>2, <2>3, <3>1 DEF StoreShape
      <4>2. \A m \in manifests[s] : journal[s] = {m.hash}
        BY <1>1
      <4> QED BY <2>2, <4>1, <4>2
    <3>2. CASE r # s
      <4>1. held'[r] = held[r] /\ at'[r] = at[r] /\ journal'[r] = journal[r] /\ manifests'[r] = manifests[r]
        BY <1>0, <2>2, <2>3, <3>2 DEF StoreShape
      <4> QED BY <1>1, <4>1
    <3> QED BY <3>1, <3>2
  <2> QED BY <2>1, <2>4 DEF OneContent
<1>3. CASE Store!WritePolicy(s) \/ Store!CheckSnapshot(s) \/ Store!WriteSnapshot(s)
  <2>1. /\ held' = held /\ manifests' = manifests /\ journal' = journal
        /\ at[s] # "down" /\ \E p \in Places \ {"down"} : at' = [at EXCEPT ![s] = p]
    BY <1>3 DEF Store!WritePolicy, Store!CheckSnapshot, Store!WriteSnapshot, Store!Goes, Places
  <2>2. \A r \in Starters : B(r)'
    BY <1>0, <1>1, <2>1 DEF StoreShape
  <2>3. PICK b \in held[s] : /\ policies' \in {policies, [policies EXCEPT ![b.hash] = {b.document}]}
                             /\ snapshots' \in {snapshots, [snapshots EXCEPT ![b.hash] = {b}]}
    BY <1>0, <1>1, <1>3, <2>1 DEF Store!WritePolicy, Store!CheckSnapshot, Store!WriteSnapshot, Store!Replaced
  <2>4. b \in Bundles /\ b.document \in Documents
    BY <1>0, HashOfBundle DEF StoreShape
  <2>5. \A h \in Store!Hashes : A(h)'
    BY <1>0, <1>1, <2>3, <2>4 DEF StoreShape
  <2> QED BY <2>2, <2>5 DEF OneContent
<1>4. CASE Store!WriteManifest(s)
  <2>1. /\ held' = held /\ journal' = journal /\ policies' = policies /\ snapshots' = snapshots
        /\ at[s] # "down" /\ \E p \in Places \ {"down"} : at' = [at EXCEPT ![s] = p]
        /\ \E b \in held[s] : manifests' \in {manifests, [manifests EXCEPT ![s] = {b}]}
    BY <1>0, <1>4 DEF Store!WriteManifest, Store!Goes, Places, StoreShape
  <2>2. \A r \in Starters : B(r)'
    BY <1>0, <1>1, <2>1 DEF StoreShape
  <2> QED BY <1>1, <2>1, <2>2 DEF OneContent
<1>5. CASE Store!StopSession(s)
  BY <1>0, <1>1, <1>5 DEF Store!StopSession, Store!Goes, OneContent, StoreShape
<1> QED BY <1>2, <1>3, <1>4, <1>5
(* What is on disk stays: a snapshot is replaced only by another one, and then
   its hash counts as raced. *)
LEMMA DiskStep ==
    ASSUME StoreInd, Store!StoreNext, NEW h \in Store!Hashes
    PROVE  /\ policies[h] # {} => policies'[h] = policies[h]
           /\ snapshots[h] # {} => snapshots'[h] # {}
           /\ h \in raced => h \in raced'
           /\ \A c : snapshots[h] = {c} => h \in raced' \/ snapshots'[h] = {c}
<1>1. StoreShape
  BY DEF StoreInd
<1>2. policies[h] # {} => policies'[h] = policies[h]
  BY ArtifactStep DEF Store!ArtifactsKept
<1>3. ASSUME NEW s \in Starters, Store!WriteSnapshot(s)
      PROVE  /\ snapshots[h] # {} => snapshots'[h] # {}
             /\ h \in raced => h \in raced'
             /\ \A c : snapshots[h] = {c} => h \in raced' \/ snapshots'[h] = {c}
  <2>1. PICK b \in held[s] :
          /\ snapshots' = [snapshots EXCEPT ![b.hash] = {b}]
          /\ raced' = IF Store!Agrees(snapshots[b.hash], b) THEN raced ELSE raced \union {b.hash}
    BY <1>3 DEF Store!WriteSnapshot, Store!Replaced
  <2>2. b \in Bundles /\ b.hash \in Store!Hashes
    BY <1>1, HashOfBundle DEF StoreShape
  <2>3. CASE h # b.hash
    BY <1>1, <2>1, <2>2, <2>3 DEF StoreShape
  <2>4. CASE h = b.hash
    BY <1>1, <2>1, <2>2, <2>4 DEF StoreShape, Store!Agrees
  <2> QED BY <2>3, <2>4
<1>4. ASSUME NEW s \in Starters,
             \/ Store!StartSession(s) \/ Store!CheckSnapshot(s) \/ Store!WritePolicy(s)
             \/ Store!WriteManifest(s) \/ Store!StopSession(s)
      PROVE  snapshots' = snapshots /\ raced' = raced
  BY <1>4 DEF Store!StartSession, Store!CheckSnapshot, Store!WritePolicy,
              Store!WriteManifest, Store!StopSession
<1> QED BY <1>2, <1>3, <1>4 DEF Store!StoreNext

(* The progress of the sessions a step is not about. *)
LEMMA OtherProgress ==
    ASSUME StoreInd, Store!StoreNext, NEW t \in Starters,
           held'[t] = held[t], at'[t] = at[t], manifests'[t] = manifests[t]
    PROVE  \A b \in held'[t] : Progress(t, b)'
<1> SUFFICES ASSUME NEW b \in held[t] PROVE Progress(t, b)'
  OBVIOUS
<1>1. Progress(t, b) /\ b.hash \in Store!Hashes
  BY HashOfBundle DEF StoreInd, StoreProgress, StoreShape
<1> QED BY <1>1, DiskStep DEF Progress

(* A start makes the progress of its next place. *)
LEMMA OwnProgress ==
    ASSUME StoreInd, NEW s \in Starters,
           \/ Store!StartSession(s) \/ Store!WritePolicy(s) \/ Store!CheckSnapshot(s)
           \/ Store!WriteSnapshot(s) \/ Store!WriteManifest(s) \/ Store!StopSession(s)
    PROVE  \A b \in held'[s] : Progress(s, b)'
<1>0. StoreShape /\ OneContent /\ \A c \in held[s] : Progress(s, c)
  BY DEF StoreInd, StoreProgress
<1>1. CASE Store!StartSession(s)
  BY <1>0, <1>1 DEF Store!StartSession, Store!Goes, Progress, StoreShape
<1>2. CASE Store!StopSession(s)
  BY <1>0, <1>2 DEF Store!StopSession, Store!Goes, Progress, StoreShape
<1>3. ASSUME held' = held, at[s] # "down"
      PROVE  \E b \in Bundles : held[s] = {b} /\ held'[s] = {b} /\ b.hash \in Store!Hashes /\ Progress(s, b)
  <2>1. PICK b \in Bundles : held[s] = {b}
    BY <1>0, <1>3 DEF OneContent
  <2> QED BY <1>0, <1>3, <2>1, HashOfBundle
<1>4. CASE Store!WritePolicy(s)
  <2>1. at[s] = "policy" /\ held' = held
    BY <1>4 DEF Store!WritePolicy
  <2>2. PICK b \in Bundles : held[s] = {b} /\ held'[s] = {b} /\ b.hash \in Store!Hashes /\ Progress(s, b)
    BY <1>3, <2>1
  <2>3. \/ policies' = [policies EXCEPT ![b.hash] = {b.document}] /\ Store!Goes(s, "verify")
        \/ Store!Goes(s, "refused")
    BY <1>4, <2>2 DEF Store!WritePolicy
  <2> QED BY <1>0, <2>2, <2>3 DEF Store!Goes, Progress, StoreShape
<1>5. CASE Store!CheckSnapshot(s)
  <2>1. at[s] = "verify" /\ held' = held /\ policies' = policies /\ snapshots' = snapshots
    BY <1>5 DEF Store!CheckSnapshot
  <2>2. PICK b \in Bundles : held[s] = {b} /\ held'[s] = {b} /\ b.hash \in Store!Hashes /\ Progress(s, b)
    BY <1>3, <2>1
  <2>3. \/ Store!Goes(s, "refused")
        \/ b.intact /\ Store!Goes(s, "snapshot")
        \/ b.intact /\ snapshots[b.hash] = {b} /\ Store!Goes(s, "manifest")
    BY <1>5, <2>2 DEF Store!CheckSnapshot, Store!PolicyFromBundle
  <2> QED BY <1>0, <2>1, <2>2, <2>3 DEF Store!Goes, Progress, StoreShape
<1>6. CASE Store!WriteSnapshot(s)
  <2>1. at[s] = "snapshot" /\ held' = held /\ policies' = policies /\ Store!Goes(s, "manifest")
    BY <1>6 DEF Store!WriteSnapshot
  <2>2. PICK b \in Bundles : held[s] = {b} /\ held'[s] = {b} /\ b.hash \in Store!Hashes /\ Progress(s, b)
    BY <1>3, <2>1
  <2>3. snapshots'[b.hash] = {b}
    BY <1>0, <1>6, <2>2 DEF Store!WriteSnapshot, Store!Replaced, StoreShape
  <2> QED BY <1>0, <2>1, <2>2, <2>3 DEF Store!Goes, Progress, StoreShape
<1>7. CASE Store!WriteManifest(s)
  <2>1. /\ at[s] = "manifest" /\ held' = held /\ policies' = policies /\ snapshots' = snapshots
        /\ raced' = raced
    BY <1>7 DEF Store!WriteManifest
  <2>2. PICK b \in Bundles : held[s] = {b} /\ held'[s] = {b} /\ b.hash \in Store!Hashes /\ Progress(s, b)
    BY <1>3, <2>1
  <2>3. \/ /\ Store!Agrees(manifests[s], b) /\ Store!Goes(s, "started")
           /\ manifests' = [manifests EXCEPT ![s] = IF @ = {} THEN {b} ELSE @]
        \/ Store!Goes(s, "refused")
    BY <1>7, <2>2 DEF Store!WriteManifest, Store!ManifestAccepted
  <2> QED BY <1>0, <2>1, <2>2, <2>3 DEF Store!Goes, Store!Agrees, Progress, StoreShape
<1> QED BY <1>1, <1>2, <1>4, <1>5, <1>6, <1>7

(* A step of a session leaves the other sessions where they are. *)
LEMMA OthersStay ==
    ASSUME StoreInd, NEW s \in Starters, NEW t \in Starters, s # t,
           \/ Store!StartSession(s) \/ Store!WritePolicy(s) \/ Store!CheckSnapshot(s)
           \/ Store!WriteSnapshot(s) \/ Store!WriteManifest(s) \/ Store!StopSession(s)
    PROVE  held'[t] = held[t] /\ at'[t] = at[t] /\ manifests'[t] = manifests[t]
<1>0. StoreShape
  BY DEF StoreInd
<1>1. CASE Store!StartSession(s) \/ Store!StopSession(s)
  BY <1>0, <1>1 DEF Store!StartSession, Store!StopSession, Store!Goes, StoreShape
<1>2. CASE Store!WritePolicy(s) \/ Store!CheckSnapshot(s) \/ Store!WriteSnapshot(s)
  BY <1>0, <1>2 DEF Store!WritePolicy, Store!CheckSnapshot, Store!WriteSnapshot, Store!Goes, StoreShape
<1>3. CASE Store!WriteManifest(s)
  BY <1>0, <1>3 DEF Store!WriteManifest, Store!Goes, StoreShape
<1> QED BY <1>1, <1>2, <1>3

(* A manifest stays backed: it is written by a start that has put the artifact
   and the snapshot on disk and found its bundle intact. *)
LEMMA BackedStep ==
    ASSUME StoreInd, Store!StoreNext
    PROVE  Store!ManifestsAreBacked'
<1>0. StoreShape /\ StoreProgress /\ Store!ManifestsAreBacked
  BY DEF StoreInd
<1>1. ASSUME NEW b \in Bundles, policies[b.hash] = {b.document} /\ b.intact /\ snapshots[b.hash] # {}
      PROVE  policies'[b.hash] = {b.document} /\ b.intact /\ snapshots'[b.hash] # {}
  BY <1>1, DiskStep, HashOfBundle
<1>2. ASSUME NEW t \in Starters, NEW b \in manifests'[t]
      PROVE  b \in manifests[t] \/ (at[t] = "manifest" /\ b \in held[t])
  <2>1. PICK s \in Starters :
           \/ Store!StartSession(s) \/ Store!WritePolicy(s) \/ Store!CheckSnapshot(s)
           \/ Store!WriteSnapshot(s) \/ Store!WriteManifest(s) \/ Store!StopSession(s)
    BY DEF Store!StoreNext
  <2>2. CASE Store!WriteManifest(s)
    BY <1>0, <1>2, <2>2 DEF Store!WriteManifest, StoreShape
  <2>3. CASE ~Store!WriteManifest(s)
    <3>1. manifests' = manifests
      BY <2>1, <2>3 DEF Store!StartSession, Store!WritePolicy, Store!CheckSnapshot,
                        Store!WriteSnapshot, Store!StopSession
    <3> QED BY <1>2, <3>1
  <2> QED BY <2>2, <2>3
<1>3. ASSUME NEW t \in Starters, NEW b \in manifests'[t]
      PROVE  policies'[b.hash] = {b.document} /\ b.intact /\ snapshots'[b.hash] # {}
  <2>1. b \in Bundles /\ policies[b.hash] = {b.document} /\ b.intact /\ snapshots[b.hash] # {}
    BY <1>0, <1>2, <1>3 DEF StoreShape, StoreProgress, Progress, Store!ManifestsAreBacked
  <2> QED BY <1>1, <2>1
<1> QED BY <1>3 DEF Store!ManifestsAreBacked

(* Every step of the store keeps the inductive invariant. *)
LEMMA StoreIndStep ==
    ASSUME StoreInd, [Store!StoreNext]_storeVars
    PROVE  StoreInd'
<1>1. CASE UNCHANGED storeVars
  BY <1>1 DEF StoreInd, storeVars, StoreShape, OneContent, StoreProgress, Progress, Store!ManifestsAreBacked
<1>2. CASE Store!StoreNext
  <2>1. PICK s \in Starters :
           \/ Store!StartSession(s) \/ Store!WritePolicy(s) \/ Store!CheckSnapshot(s)
           \/ Store!WriteSnapshot(s) \/ Store!WriteManifest(s) \/ Store!StopSession(s)
    BY <1>2 DEF Store!StoreNext
  <2>2. StoreShape'
    BY <2>1, StoreShapeStep
  <2>3. OneContent'
    BY <2>1, OneContentStep
  <2>4. ASSUME NEW t \in Starters PROVE \A b \in held'[t] : Progress(t, b)'
    BY <1>2, <2>1, OwnProgress, OthersStay, OtherProgress
  <2>5. Store!ManifestsAreBacked'
    BY <1>2, BackedStep
  <2> QED BY <2>2, <2>3, <2>4, <2>5 DEF StoreInd, StoreProgress
<1> QED BY <1>1, <1>2

(* For any sessions and bundles of an attempt: a file has one content, every
   manifest joins telemetry to a stored policy and an intact bundle, and what a
   started session runs is on disk (write_snapshot, write_task_manifest). *)
THEOREM StartIsOnRecord == Store!StoreSpec => []StoreInv
<1>1. Store!StoreInit => StoreInd
  BY StoreIndInit
<1>2. StoreInd /\ [Store!StoreNext]_storeVars => StoreInd'
  BY StoreIndStep
<1>3. StoreInd => StoreInv
  BY StoreIndImplies
<1> QED BY <1>1, <1>2, <1>3, PTL DEF Store!StoreSpec, Store!storeVars, storeVars

(* However sessions are started, refused, stopped and resumed, a stored policy
   artifact is never replaced (write_snapshot, under the artifact's lock). *)
THEOREM PolicyHashMeansOneArtifact == Store!StoreSpec => PolicyArtifactImmutable
<1>1. Store!StoreInit => StoreInd
  BY StoreIndInit
<1>2. StoreInd /\ [Store!StoreNext]_storeVars => StoreInd'
  BY StoreIndStep
<1>3. StoreInd /\ [Store!StoreNext]_storeVars => [Store!ArtifactsKept]_storeVars
  BY ArtifactStep
<1> QED BY <1>1, <1>2, <1>3, PTL DEF Store!StoreSpec, Store!storeVars, storeVars, PolicyArtifactImmutable
-----------------------------------------------------------------------------
(* The resolver. *)

(* Before the guards are compiled there is no bundle, and once the provider's
   plan is accepted it is of the version eligibility was computed on. *)
PlanInv ==
    /\ phase # "resolved" => bundle = {}
    /\ phase \in {"kernel", "guards"} => (plan.active => plan.version = eligible)
    /\ PinnedPlanIsEligible

(* What a bundle says of its workflows and guards. *)
LEMMA BundleFields ==
    ASSUME NEW active, NEW routes
    PROVE  /\ RuntimeBundle(active, routes).workflows = plan
           /\ RuntimeBundle(active, routes).guards = active
BY DEF RuntimeBundle, EffectivePolicy

(* The plan keeps its version through the rest of the call. *)
LEMMA PlanStep ==
    ASSUME PlanInv, [ResolutionNext]_resolutionVars
    PROVE  PlanInv'
<1>1. CASE UNCHANGED resolutionVars
  BY <1>1 DEF PlanInv, PinnedPlanIsEligible, resolutionVars
<1>2. CASE PlanWorkflows
  BY <1>2 DEF PlanInv, PinnedPlanIsEligible, PlanWorkflows, PlanAccepted, Refuse
<1>3. CASE ComposeKernel
  BY <1>3 DEF PlanInv, PinnedPlanIsEligible, ComposeKernel, Refuse
<1>4. CASE CompileGuards
  <2>1. phase = "guards" /\ plan' = plan /\ eligible' = eligible
    BY <1>4 DEF CompileGuards, Refuse
  <2>2. \/ phase' = "resolved" /\ \E active, routes : bundle' = {RuntimeBundle(active, routes)}
        \/ phase' = "refused" /\ bundle' = bundle
    BY <1>4 DEF CompileGuards, Refuse
  <2>3. PlanInv
    OBVIOUS
  <2>4. \A b \in bundle' : b.workflows.active => b.workflows.version = eligible
    BY <2>1, <2>2, <2>3, BundleFields DEF PlanInv
  <2> QED BY <2>1, <2>2, <2>3, <2>4 DEF PlanInv, PinnedPlanIsEligible
<1>5. CASE ReceiveRequest \/ LoadRoutingProfiles \/ LoadGuardPack \/ AskEligibility
  BY <1>5 DEF PlanInv, PinnedPlanIsEligible, ReceiveRequest, LoadRoutingProfiles, LoadGuardPack,
              AskEligibility, Refuse
<1>6. CASE RegistryUpdated \/ AssignExperiment \/ ResolveAdvice
  BY <1>6 DEF PlanInv, PinnedPlanIsEligible, RegistryUpdated, AssignExperiment, ResolveAdvice, Refuse
<1> QED BY <1>1, <1>2, <1>3, <1>4, <1>5, <1>6 DEF ResolutionNext

(* The plan that is pinned is the one preferences were computed on, however often
   the provider's registry is replaced in between (resolve,
   resolve_prepared_task_workflows). *)
THEOREM PinnedPlanWasEligible == ResolutionSpec => []PinnedPlanIsEligible
<1>1. ResolutionInit => PlanInv
  BY DEF ResolutionInit, PlanInv, PinnedPlanIsEligible
<1>2. PlanInv /\ [ResolutionNext]_resolutionVars => PlanInv'
  BY PlanStep
<1>3. PlanInv => PinnedPlanIsEligible
  BY DEF PlanInv
<1> QED BY <1>1, <1>2, <1>3, PTL DEF ResolutionSpec
-----------------------------------------------------------------------------
(* compile_task_guards, pass by pass. *)

(* What a reference stands for goes by that name. *)
LEMMA RefNames ==
    ASSUME NEW G \in SUBSET Guards, NEW h \in G, NEW ref, h.key \in GuardRef(ref, G)
    PROVE  ref \in {h.key, h.id, h.family}
<1>1. PICK x \in G : x.key = h.key /\ ref \in {x.key, x.id, x.family}
  BY DEF GuardRef
<1> QED BY <1>1, GuardAssumption

(* A guard's key stands for it. *)
LEMMA RefKey ==
    ASSUME NEW G \in SUBSET Guards, NEW h \in G
    PROVE  h.key \in GuardRef(h.key, G)
BY DEF GuardRef

(* An id, or the family of a single guard, stands for the guard unless another
   guard goes by the same name. *)
LEMMA RefOther ==
    ASSUME NEW G \in SUBSET Guards, NEW h \in G, \A x \in G : x.family = h.family => x = h,
           NEW ref \in {h.id, h.family}, h.key \notin GuardRef(ref, G)
    PROVE  \E other \in G \ {h} : ref \in {other.key, other.id}
<1> DEFINE byKey == {g \in G : g.key = ref}
           byId == {g \in G : g.id = ref}
           kin == {g \in G : g.family = ref}
<1>1. CASE byKey # {}
  BY <1>1 DEF GuardRef
<1>2. CASE byKey = {} /\ byId # {}
  <2>1. GuardRef(ref, G) = {g.key : g \in byId}
    BY <1>2 DEF GuardRef
  <2>2. h \notin byId
    BY <2>1
  <2> QED BY <1>2, <2>2
<1>3. CASE byKey = {} /\ byId = {}
  <2>1. ref = h.family /\ kin = {h}
    BY <1>3
  <2>2. Cardinality(kin) = 1
    BY <2>1, FS_Singleton
  <2>3. GuardRef(ref, G) = {g.key : g \in kin}
    BY <1>3, <2>2 DEF GuardRef
  <2> QED BY <2>1, <2>3
<1> QED BY <1>1, <1>2, <1>3

(* One version per family survives. *)
LEMMA FamilyPass ==
    ASSUME NEW G \in SUBSET Guards, FamiliesResolved(G)
    PROVE  /\ OnePerFamily(G) \subseteq G
           /\ \A g, h \in OnePerFamily(G) : g.family = h.family => g = h
<1>1. ASSUME NEW x \in G, NEW g \in Survivors(FamilyMembers(x, G))
      PROVE  g \in G /\ g.family = x.family
  BY <1>1 DEF Survivors, FamilyMembers
<1>2. OnePerFamily(G) \subseteq G
  BY <1>1 DEF OnePerFamily
<1>3. ASSUME NEW g \in OnePerFamily(G), NEW h \in OnePerFamily(G), g.family = h.family
      PROVE  g = h
  <2>1. PICK x \in G : g \in Survivors(FamilyMembers(x, G))
    BY <1>3 DEF OnePerFamily
  <2>2. PICK y \in G : h \in Survivors(FamilyMembers(y, G))
    BY <1>3 DEF OnePerFamily
  <2>3. FamilyMembers(x, G) = FamilyMembers(y, G)
    BY <1>1, <1>3, <2>1, <2>2 DEF FamilyMembers
  <2> DEFINE S == Survivors(FamilyMembers(x, G))
  <2>4. S \subseteq Guards /\ Cardinality(S) = 1
    BY <1>1 DEF FamiliesResolved
  <2>5. g \in S /\ h \in S
    BY <2>1, <2>2, <2>3
  <2> HIDE DEF S
  <2>6. IsFiniteSet(S)
    BY <2>4, GuardAssumption, FS_Subset
  <2>7. \E z : S = {z}
    BY <2>4, <2>6, FS_Singleton
  <2> QED BY <2>5, <2>7
<1> QED BY <1>2, <1>3

(* One guard per enforcement contract survives. *)
LEMMA DedupPass ==
    ASSUME NEW G \in SUBSET Guards
    PROVE  \A g, h \in Deduplicated(G) : g.ekey = h.ekey => g = h
<1> SUFFICES ASSUME NEW g \in Deduplicated(G), NEW h \in Deduplicated(G), g.ekey = h.ekey, g # h
             PROVE  FALSE
  OBVIOUS
<1>1. g \in Guards /\ h \in Guards /\ Outranks(g, h) /\ Outranks(h, g)
  BY DEF Deduplicated
<1>2. /\ g.priority \in Nat /\ h.priority \in Nat /\ KeyRank[g.key] \in Nat /\ KeyRank[h.key] \in Nat
      /\ Duty(g) \in Nat /\ Duty(h) \in Nat
  BY <1>1, GuardAssumption DEF Duty
<1> QED BY <1>1, <1>2 DEF Outranks

(* A rule of the kernel that a pass leaves out is superseded by name. *)
LEMMA TargetIsNamed ==
    ASSUME NEW G \in SUBSET Guards, NEW g \in G,
           g.key \in Targets(UNION {h.supersedes : h \in G}, G)
    PROVE  \E h \in G \ AlwaysOn : {g.key, g.id, g.family} \intersect h.supersedes # {}
<1>1. PICK h \in G : \E ref \in h.supersedes : g.key \in GuardRef(ref, G)
  BY DEF Targets
<1>2. PICK ref \in h.supersedes : g.key \in GuardRef(ref, G)
  BY <1>1
<1>3. ref \in {g.key, g.id, g.family}
  BY <1>2, RefNames
<1>4. h \notin AlwaysOn
  BY <1>2, GuardAssumption
<1> QED BY <1>2, <1>3, <1>4
(* What compile_task_guards returns comes from what it was given and does not
   contradict itself. *)
LEMMA CompiledCoherent ==
    ASSUME NEW G \in SUBSET Guards, NEW preferred, NEW active \in CompileTaskGuards(G, preferred)
    PROVE  /\ active \subseteq G
           /\ \A g, h \in active : g # h =>
                 /\ g.family # h.family /\ g.ekey # h.ekey
                 /\ h.key \notin g.conflicts \cup g.supersedes
                 /\ \A ref \in {h.id, h.family} \intersect (g.conflicts \cup g.supersedes) :
                       \E other \in G \ {h} : ref \in {other.key, other.id}
<1> DEFINE F == OnePerFamily(G)
           D == Deduplicated(F)
           R == Unsuperseded(D)
<1>1. FamiliesResolved(G) /\ ConflictFree(R) /\ active \in WithinBudget(R, preferred)
  BY DEF CompileTaskGuards
<1>2. active \subseteq R
  BY <1>1 DEF WithinBudget
<1>3. R \subseteq D /\ D \subseteq F /\ F \subseteq G
  BY <1>1, FamilyPass DEF Deduplicated, Unsuperseded
<1>4. \A g, h \in F : g.family = h.family => g = h
  BY <1>1, FamilyPass
<1>5. \A g, h \in D : g.ekey = h.ekey => g = h
  BY <1>3, DedupPass
<1>6. \A g, h \in D : \A ref \in g.supersedes : h \in R => h.key \notin GuardRef(ref, D)
  BY DEF Unsuperseded, Targets
<1>7. \A g \in R : \A ref \in g.conflicts : GuardRef(ref, R) \subseteq {g.key}
  BY <1>1 DEF ConflictFree
<1> HIDE DEF F, D, R
<1>8. ASSUME NEW g \in active, NEW h \in active, g # h
      PROVE  /\ h.key \notin g.conflicts \cup g.supersedes
             /\ \A ref \in {h.id, h.family} \intersect (g.conflicts \cup g.supersedes) :
                   \E other \in G \ {h} : ref \in {other.key, other.id}
  <2>1. /\ g \in R /\ h \in R /\ g \in D /\ h \in D /\ g.key # h.key
        /\ D \in SUBSET Guards /\ R \in SUBSET Guards
    BY <1>2, <1>3, <1>8, GuardAssumption
  <2>2. (\A x \in D : x.family = h.family => x = h) /\ (\A x \in R : x.family = h.family => x = h)
    BY <1>3, <1>4, <2>1
  <2>3. ASSUME NEW ref \in g.conflicts PROVE h.key \notin GuardRef(ref, R)
    BY <1>7, <2>1
  <2>4. ASSUME NEW ref \in g.supersedes PROVE h.key \notin GuardRef(ref, D)
    BY <1>6, <2>1
  <2>5. h.key \in GuardRef(h.key, R) /\ h.key \in GuardRef(h.key, D)
    BY <2>1, RefKey
  <2>6. h.key \notin g.conflicts \cup g.supersedes
    BY <2>3, <2>4, <2>5
  <2>7. ASSUME NEW ref \in {h.id, h.family}, ref \in g.conflicts
        PROVE  \E other \in G \ {h} : ref \in {other.key, other.id}
    <3>1. \E other \in R \ {h} : ref \in {other.key, other.id}
      BY <2>1, <2>2, <2>3, <2>7, RefOther
    <3> QED BY <1>3, <3>1
  <2>8. ASSUME NEW ref \in {h.id, h.family}, ref \in g.supersedes
        PROVE  \E other \in G \ {h} : ref \in {other.key, other.id}
    <3>1. \E other \in D \ {h} : ref \in {other.key, other.id}
      BY <2>1, <2>2, <2>4, <2>8, RefOther
    <3> QED BY <1>3, <3>1
  <2> QED BY <2>6, <2>7, <2>8
<1> QED BY <1>2, <1>3, <1>4, <1>5, <1>8

(* A kernel rule that is not among what compile_task_guards returns is named by
   a guard of the artifact that supersedes it. *)
LEMMA CompiledKeepsKernel ==
    ASSUME NEW G \in SUBSET Guards, NEW preferred, NEW active \in CompileTaskGuards(G, preferred),
           NEW g \in AlwaysOn, g \in G, g \notin active
    PROVE  \E h \in G \ AlwaysOn : {g.key, g.id, g.family} \intersect h.supersedes # {}
<1> DEFINE F == OnePerFamily(G)
           D == Deduplicated(F)
           R == Unsuperseded(D)
           M == FamilyMembers(g, G)
<1>1. FamiliesResolved(G) /\ active \in WithinBudget(R, preferred)
  BY DEF CompileTaskGuards
<1>2. D \subseteq F /\ F \subseteq G /\ M \subseteq G /\ g \in M
  BY <1>1, FamilyPass DEF Deduplicated, FamilyMembers
<1>3. g.id \in Mandatory
  BY DEF Mandatory
<1>4. g \notin R
  BY <1>1, <1>3 DEF WithinBudget
<1>5. CASE g \notin F
  <2>1. g \notin Survivors(M)
    BY <1>5 DEF OnePerFamily
  <2>2. g.key \in Targets(UNION {h.supersedes : h \in M}, M)
    BY <1>2, <2>1 DEF Survivors
  <2> HIDE DEF M
  <2>3. \E h \in M \ AlwaysOn : {g.key, g.id, g.family} \intersect h.supersedes # {}
    BY <1>2, <2>2, TargetIsNamed
  <2> QED BY <1>2, <2>3
<1>6. CASE g \in F /\ g \notin D
  <2>1. PICK h \in F \ {g} : h.ekey = g.ekey /\ ~Outranks(g, h)
    BY <1>6 DEF Deduplicated
  <2>2. h.id \in Mandatory
    BY <1>3, <2>1 DEF Outranks, Duty
  <2>3. PICK a \in AlwaysOn : a.id = h.id
    BY <2>2 DEF Mandatory
  <2>4. h \in Guards /\ a \in Guards /\ g \in Guards
    BY <1>2, <2>1 DEF Guards
  <2> QED BY <2>1, <2>3, <2>4, GuardAssumption
<1>7. CASE g \in D
  <2>1. g.key \in Targets(UNION {h.supersedes : h \in D}, D)
    BY <1>4, <1>7 DEF Unsuperseded
  <2> HIDE DEF D
  <2>2. \E h \in D \ AlwaysOn : {g.key, g.id, g.family} \intersect h.supersedes # {}
    BY <1>2, <1>7, <2>1, TargetIsNamed
  <2> QED BY <1>2, <2>2
<1> QED BY <1>5, <1>6, <1>7

(* The pack comes from the artifact, and a bundle is only there at the end. *)
ResolvedInv ==
    /\ pack \subseteq Artifact
    /\ phase # "resolved" => bundle = {}
    /\ GuardsInv

(* The guards of a new bundle are in scope, coherent, and the kernel's but for
   what they supersede. *)
LEMMA CompileGuardsStep ==
    ASSUME ResolvedInv, CompileGuards
    PROVE  ResolvedInv'
<1> DEFINE routes == GuardRoutes("suppress")
           applicable == ApplicableGuards(pack, request.facets, request.canaries, routes)
           G == AlwaysOn \cup applicable
<1>1. /\ pack' = pack /\ request' = request
      /\ \/ /\ phase' = "resolved"
            /\ \E active \in CompileTaskGuards(G, GuardRoutes("prefer")) :
                  bundle' = {RuntimeBundle(active, routes)}
         \/ phase' = "refused" /\ bundle' = bundle
  BY DEF CompileGuards, Refuse
<1>2. pack \subseteq Artifact /\ bundle = {}
  BY DEF ResolvedInv, CompileGuards
<1>3. applicable \subseteq pack /\ G \subseteq Guards
  BY <1>2 DEF ApplicableGuards, Guards
<1>4. \A g \in G : ScopeMatches(g, request.facets)
  BY GuardAssumption DEF ApplicableGuards, ScopeMatches
<1>5. CASE phase' = "refused" /\ bundle' = bundle
  BY <1>1, <1>2, <1>5 DEF ResolvedInv, GuardsInv, GuardsCoherent, KernelRulesKeptUnlessSuperseded
<1>6. CASE ~(phase' = "refused" /\ bundle' = bundle)
  <2>1. PICK active \in CompileTaskGuards(G, GuardRoutes("prefer")) :
            bundle' = {RuntimeBundle(active, routes)}
    BY <1>1, <1>6
  <2>2. phase' = "resolved"
    BY <1>1, <1>6
  <2> HIDE DEF G, routes, applicable
  <2>3. \A b \in bundle' : b.guards = active
    BY <2>1, BundleFields
  <2>4. /\ active \subseteq G
        /\ \A g, h \in active : g # h =>
              /\ g.family # h.family /\ g.ekey # h.ekey
              /\ h.key \notin g.conflicts \cup g.supersedes
              /\ \A ref \in {h.id, h.family} \intersect (g.conflicts \cup g.supersedes) :
                    \E other \in G \ {h} : ref \in {other.key, other.id}
    <3>1. G \in SUBSET Guards
      BY <1>3
    <3> QED BY <2>1, <3>1, CompiledCoherent
  <2>5. G \subseteq AlwaysOn \cup pack /\ AlwaysOn \subseteq G
    BY <1>3 DEF G
  <2>6. GuardsCoherent'
    BY <1>1, <1>4, <2>3, <2>4, <2>5 DEF GuardsCoherent
  <2>7. ASSUME NEW g \in AlwaysOn \ active
        PROVE  \E h \in pack : {g.key, g.id, g.family} \intersect h.supersedes # {}
    <3>1. \E h \in G \ AlwaysOn : {g.key, g.id, g.family} \intersect h.supersedes # {}
      BY <1>3, <2>5, CompiledKeepsKernel
    <3> QED BY <2>5, <3>1
  <2>8. KernelRulesKeptUnlessSuperseded'
    BY <1>1, <2>3, <2>7 DEF KernelRulesKeptUnlessSuperseded
  <2> QED BY <1>1, <1>2, <2>2, <2>6, <2>8 DEF ResolvedInv, GuardsInv
<1> QED BY <1>5, <1>6

(* No phase of resolve() disturbs it. *)
LEMMA ResolvedStep ==
    ASSUME ResolvedInv, [ResolutionNext]_resolutionVars
    PROVE  ResolvedInv'
<1>0. /\ pack \subseteq Artifact /\ (phase # "resolved" => bundle = {})
      /\ GuardsCoherent /\ KernelRulesKeptUnlessSuperseded
  BY DEF ResolvedInv, GuardsInv
<1>1. ASSUME bundle' = {}, pack' \subseteq Artifact PROVE ResolvedInv'
  BY <1>1 DEF ResolvedInv, GuardsInv, GuardsCoherent, KernelRulesKeptUnlessSuperseded
<1>2. CASE UNCHANGED resolutionVars
  BY <1>0, <1>2 DEF ResolvedInv, GuardsInv, GuardsCoherent, KernelRulesKeptUnlessSuperseded, resolutionVars
<1>3. CASE LoadGuardPack
  <2>1. bundle' = {} /\ pack' \subseteq Artifact
    BY <1>0, <1>3 DEF LoadGuardPack, Refuse, kSubset
  <2> QED BY <1>1, <2>1
<1>4. CASE ReceiveRequest \/ LoadRoutingProfiles \/ AskEligibility \/ RegistryUpdated \/ AssignExperiment
  <2>1. bundle' = {} /\ pack' = pack
    BY <1>0, <1>4 DEF ReceiveRequest, LoadRoutingProfiles, AskEligibility, RegistryUpdated,
                      AssignExperiment, Refuse
  <2> QED BY <1>0, <1>1, <2>1
<1>5. CASE ResolveAdvice \/ PlanWorkflows \/ ComposeKernel
  <2>1. bundle' = {} /\ pack' = pack
    BY <1>0, <1>5 DEF ResolveAdvice, PlanWorkflows, ComposeKernel, Refuse
  <2> QED BY <1>0, <1>1, <2>1
<1> QED BY <1>2, <1>3, <1>4, <1>5, CompileGuardsStep DEF ResolutionNext

(* For any guard pack: the guards of a resolved bundle are in scope, one per
   family and contract, none conflicts with or is superseded by another, and a
   kernel rule is missing only where a guard supersedes it (compile_task_guards,
   resolve_task_guards). *)
THEOREM CompiledGuardsAreCoherent == ResolutionSpec => []GuardsInv
<1>1. ResolutionInit => ResolvedInv
  BY DEF ResolutionInit, ResolvedInv, GuardsInv, GuardsCoherent, KernelRulesKeptUnlessSuperseded
<1>2. ResolvedInv /\ [ResolutionNext]_resolutionVars => ResolvedInv'
  BY ResolvedStep
<1>3. ResolvedInv => GuardsInv
  BY DEF ResolvedInv
<1> QED BY <1>1, <1>2, <1>3, PTL DEF ResolutionSpec

-----------------------------------------------------------------------------
(* The folds of the model are recursive functions on the subsets of a finite set. *)

(* A set of naturals that is not empty has a least element. *)
LEMMA LeastFact ==
    ASSUME NEW T \in SUBSET Nat, T # {}
    PROVE  \E x \in T : \A y \in T : x <= y
<1> DEFINE Below == {p \in Nat \X Nat : p[1] < p[2]}
<1>1. IsWellFoundedOn(Below, Nat)
  BY NatLessThanWellFounded DEF OpToRel
<1>2. PICK x \in T : \A y \in T : <<y, x>> \notin Below
  BY <1>1, WFMin
<1>3. ASSUME NEW y \in T PROVE x <= y
  <2>1. x \in Nat /\ y \in Nat /\ ~(y < x)
    BY <1>2
  <2> QED BY <2>1
<1> QED BY <1>2, <1>3

(* What holds of zero and of the successor of what it holds of, holds up to n. *)
LEMMA StepFact ==
    ASSUME NEW n \in Nat, NEW P, 0 \in P, \A k \in 1..n : k - 1 \in P => k \in P
    PROVE  \A k \in 0..n : k \in P
<1> DEFINE Missing == {k \in 0..n : k \notin P}
<1>1. ASSUME Missing # {} PROVE FALSE
  <2>1. Missing \in SUBSET Nat
    OBVIOUS
  <2>2. PICK k \in Missing : \A j \in Missing : k <= j
    BY <1>1, <2>1, LeastFact
  <2>3. k \in 1..n /\ k - 1 \in 0..n /\ ~(k <= k - 1)
    BY <2>2
  <2>4. k - 1 \in P
    BY <2>2, <2>3
  <2> QED BY <2>2, <2>3, <2>4
<1> QED BY <1>1

(* The same for the subsets of a finite set, by their size. *)
LEMMA SizeFact ==
    ASSUME NEW S, IsFiniteSet(S), NEW P,
           \A T \in SUBSET S :
              (\A U \in SUBSET T : U # T => U \in P) => T \in P
    PROVE  \A T \in SUBSET S : T \in P
<1> DEFINE Missing == {T \in SUBSET S : T \notin P}
           Sizes == {n \in Nat : \E T \in Missing : n = Cardinality(T)}
<1>1. \A T \in SUBSET S : IsFiniteSet(T) /\ Cardinality(T) \in Nat
  BY FS_Subset, FS_CardinalityType
<1>2. ASSUME Missing # {} PROVE FALSE
  <2>1. Sizes \in SUBSET Nat /\ Sizes # {}
    BY <1>1, <1>2
  <2>2. PICK n \in Sizes : \A m \in Sizes : n <= m
    BY <2>1, LeastFact
  <2>3. PICK T \in Missing : n = Cardinality(T)
    BY <2>2
  <2>4. ASSUME NEW U \in SUBSET T, U # T PROVE U \in P
    <3>1. Cardinality(U) < Cardinality(T) /\ U \in SUBSET S
      BY <1>1, <2>3, <2>4, FS_Subset
    <3>2. ~(n <= Cardinality(U)) /\ Cardinality(U) \in Nat
      BY <1>1, <2>2, <2>3, <3>1
    <3>3. Cardinality(U) \notin Sizes
      BY <2>2, <3>2
    <3> QED BY <3>1, <3>2, <3>3
  <2> QED BY <2>3, <2>4
<1> QED BY <1>2

(* Such a function exists, whatever is chosen from a set and done with it. *)
FoldOn(S, V, base, g, c) ==
    \E h \in [SUBSET S -> V] :
        \A T \in SUBSET S : h[T] = IF T = {} THEN base ELSE g[<<c[T], h[T \ {c[T]}]>>]

LEMMA FoldExists ==
    ASSUME NEW S, IsFiniteSet(S), NEW V, NEW base \in V, NEW g \in [S \X V -> V],
           NEW c, \A T \in SUBSET S : T # {} => c[T] \in T
    PROVE  FoldOn(S, V, base, g, c)
<1> DEFINE Right(h, T) == h[T] = IF T = {} THEN base ELSE g[<<c[T], h[T \ {c[T]}]>>]
           Upto(k) == \E h \in [SUBSET S -> V] :
                         \A T \in SUBSET S : Cardinality(T) <= k => Right(h, T)
           P == {k \in Nat : Upto(k)}
           n == Cardinality(S)
<1>1. \A T \in SUBSET S : IsFiniteSet(T) /\ Cardinality(T) \in 0..n
  BY FS_Subset, FS_CardinalityType
<1>2. n \in Nat
  BY FS_CardinalityType
<1>3. \A T \in SUBSET S : T # {} => Cardinality(T \ {c[T]}) = Cardinality(T) - 1
  BY <1>1, FS_RemoveElement
<1> HIDE DEF n
<1>4. 0 \in P
  <2> DEFINE h == [T \in SUBSET S |-> base]
  <2>1. h \in [SUBSET S -> V]
    OBVIOUS
  <2>2. ASSUME NEW T \in SUBSET S, Cardinality(T) <= 0 PROVE Right(h, T)
    <3>1. T = {}
      <4>1. Cardinality(T) = 0 /\ IsFiniteSet(T)
        BY <1>1, <2>2
      <4> QED BY <4>1, FS_EmptySet
    <3> QED BY <3>1
  <2> QED BY <2>1, <2>2
<1>5. ASSUME NEW k \in 1..n, k - 1 \in P PROVE k \in P
  <2>1. PICK h \in [SUBSET S -> V] : \A T \in SUBSET S : Cardinality(T) <= k - 1 => Right(h, T)
    BY <1>5
  <2> DEFINE e == [T \in SUBSET S |->
                      IF Cardinality(T) <= k - 1 THEN h[T]
                      ELSE g[<<c[T], h[T \ {c[T]}]>>]]
  <2>2. ASSUME NEW T \in SUBSET S PROVE e[T] \in V
    <3>1. CASE Cardinality(T) <= k - 1
      BY <3>1
    <3>2. CASE ~(Cardinality(T) <= k - 1)
      <4>1. T # {}
        <5>1. Cardinality({}) = 0 /\ 0 <= k - 1
          BY <1>2, FS_EmptySet
        <5> QED BY <3>2, <5>1
      <4>2. c[T] \in S /\ h[T \ {c[T]}] \in V
        BY <4>1
      <4> QED BY <3>2, <4>2
    <3> QED BY <3>1, <3>2
  <2>3. e \in [SUBSET S -> V]
    BY <2>2
  <2>4. ASSUME NEW T \in SUBSET S, Cardinality(T) <= k PROVE Right(e, T)
    <3>1. CASE T = {}
      <4>1. Cardinality(T) <= k - 1
        BY <1>2, <3>1, FS_EmptySet
      <4> QED BY <2>1, <3>1, <4>1
    <3>2. CASE T # {}
      <4> DEFINE U == T \ {c[T]}
      <4>1. U \in SUBSET S /\ Cardinality(U) <= k - 1
        BY <1>1, <1>2, <1>3, <2>4, <3>2
      <4>2. e[U] = h[U]
        BY <4>1
      <4>3. e[T] = g[<<c[T], h[U]>>]
        BY <2>1, <3>2
      <4> QED BY <3>2, <4>2, <4>3
    <3> QED BY <3>1, <3>2
  <2> HIDE DEF e
  <2>5. Upto(k)
    BY <2>3, <2>4
  <2> HIDE DEF Upto
  <2>6. k \in Nat
    BY <1>2
  <2> QED BY <2>5, <2>6
<1> HIDE DEF P
<1>6. n \in P
  <2>1. \A k \in 0..n : k \in P
    BY <1>2, <1>4, <1>5, StepFact
  <2> QED BY <1>2, <2>1
<1>7. PICK h \in [SUBSET S -> V] : \A T \in SUBSET S : Cardinality(T) <= n => Right(h, T)
  BY <1>6 DEF P
<1>8. \A T \in SUBSET S : Cardinality(T) <= n
  BY <1>1, <1>2
<1>9. \A T \in SUBSET S : Right(h, T)
  BY <1>7, <1>8
<1> QED BY <1>9 DEF FoldOn

(* The last of the first numbers. *)
LEMMA TopFact ==
    ASSUME NEW n \in Nat
    PROVE  /\ \A T \in SUBSET (1..n) : T # {} => Max(T) \in T
           /\ \A k \in 1..n : Max(1..k) = k /\ (1..k) \ {k} = 1..(k - 1)
<1>1. ASSUME NEW T \in SUBSET (1..n), T # {} PROVE \E x \in T : \A y \in T : x >= y
  <2> DEFINE Gaps == {n - t : t \in T}
  <2>1. Gaps \in SUBSET Nat /\ Gaps # {}
    <3>1. \A t \in T : n - t \in Nat
      OBVIOUS
    <3> QED BY <1>1, <3>1
  <2>2. PICK d \in Gaps : \A e \in Gaps : d <= e
    BY <2>1, LeastFact
  <2>3. PICK x \in T : d = n - x
    BY <2>2
  <2>4. ASSUME NEW y \in T PROVE x >= y
    <3>1. n - x <= n - y
      BY <2>2, <2>3
    <3>2. x \in Int /\ y \in Int
      OBVIOUS
    <3> HIDE DEF Gaps
    <3> QED BY <3>1, <3>2
  <2> QED BY <2>4
<1>2. \A T \in SUBSET (1..n) : T # {} => Max(T) \in T /\ \A y \in T : Max(T) >= y
  BY <1>1 DEF Max
<1>3. ASSUME NEW k \in 1..n PROVE Max(1..k) = k /\ (1..k) \ {k} = 1..(k - 1)
  <2>1. (1..k) \in SUBSET (1..n) /\ k \in 1..k
    OBVIOUS
  <2>2. Max(1..k) \in 1..k /\ Max(1..k) >= k
    BY <1>2, <2>1
  <2> QED BY <2>2
<1> QED BY <1>2, <1>3

(* A fold over the first n numbers that looks at none of them repeats its step. *)
LoopOn(n, V, base, g) ==
    \E h \in [SUBSET (1..n) -> V] :
        h = [T \in SUBSET (1..n) |-> IF T = {} THEN base ELSE g[h[T \ {Max(T)}]]]

LEMMA LoopExists ==
    ASSUME NEW n \in Nat, NEW V, NEW base \in V, NEW g \in [V -> V]
    PROVE  LoopOn(n, V, base, g)
<1> DEFINE S == 1..n
           c == [T \in SUBSET S |-> Max(T)]
           pair == [p \in S \X V |-> g[p[2]]]
<1>1. IsFiniteSet(S)
  BY FS_Interval
<1>2. \A T \in SUBSET S : T # {} => c[T] \in T
  BY TopFact
<1>3. pair \in [S \X V -> V]
  OBVIOUS
<1> HIDE DEF pair
<1>4. PICK h \in [SUBSET S -> V] :
         \A T \in SUBSET S : h[T] = IF T = {} THEN base ELSE pair[<<c[T], h[T \ {c[T]}]>>]
  <2> HIDE DEF S, c
  <2>1. FoldOn(S, V, base, pair, c)
    BY <1>1, <1>2, <1>3, FoldExists
  <2> QED BY <2>1 DEF FoldOn
<1>5. ASSUME NEW T \in SUBSET S, T # {} PROVE h[T] = g[h[T \ {Max(T)}]]
  <2>1. c[T] \in S /\ h[T \ {c[T]}] \in V /\ c[T] = Max(T)
    BY <1>2, <1>5
  <2>2. pair[<<c[T], h[T \ {c[T]}]>>] = g[h[T \ {c[T]}]]
    BY <2>1 DEF pair
  <2> QED BY <1>4, <1>5, <2>1, <2>2
<1>6. h[{}] = base
  BY <1>4
<1>7. h = [T \in SUBSET S |-> IF T = {} THEN base ELSE g[h[T \ {Max(T)}]]]
  BY <1>5, <1>6
<1> QED BY <1>7 DEF LoopOn

-----------------------------------------------------------------------------
(* requires_closure is the least set of stages around the given ones that is closed
   under the requirements. *)
ClosedStages(S) == \A s \in S : Requires[s] \subseteq S

LEMMA StagesFinite ==
    /\ IsFiniteSet(Stages) /\ Cardinality(Stages) \in Nat
    /\ \A s \in Stages : Requires[s] \subseteq Stages /\ OrderAfter[s] \subseteq Stages
BY ResolutionAssumption, FS_CardinalityType

LEMMA ClosureLoop ==
    ASSUME NEW active \in SUBSET Stages
    PROVE  \E s : /\ s[0] = active
                  /\ \A k \in 1..Cardinality(Stages) : s[k] = WithRequired(s[k - 1])
                  /\ s[Cardinality(Stages)] = RequiresClosure(active)
<1> DEFINE n == Cardinality(Stages)
           V == SUBSET Stages
           g == [v \in V |-> WithRequired(v)]
           Loop(iter) == iter = [T \in SUBSET (1..n) |->
                                    IF T = {} THEN active ELSE WithRequired(iter[T \ {Max(T)}])]
           f == CHOOSE iter : Loop(iter)
           s == [k \in 0..n |-> f[1..k]]
<1>1. n \in Nat
  BY StagesFinite
<1>2. RequiresClosure(active) = f[1..n]
  BY DEF RequiresClosure, FoldLeft, MapThenFoldSet
<1> HIDE DEF n
<1>3. \A v \in V : WithRequired(v) \in V
  BY StagesFinite DEF WithRequired
<1>4. g \in [V -> V]
  BY <1>3
<1>5. PICK h \in [SUBSET (1..n) -> V] :
         h = [T \in SUBSET (1..n) |-> IF T = {} THEN active ELSE g[h[T \ {Max(T)}]]]
  <2>1. active \in V
    OBVIOUS
  <2> HIDE DEF g, V
  <2>2. LoopOn(n, V, active, g)
    BY <1>1, <1>4, <2>1, LoopExists
  <2> QED BY <2>2 DEF LoopOn
<1>6. Loop(h)
  <2>1. ASSUME NEW T \in SUBSET (1..n) PROVE g[h[T \ {Max(T)}]] = WithRequired(h[T \ {Max(T)}])
    <3>1. h[T \ {Max(T)}] \in V
      BY <1>5
    <3> QED BY <3>1
  <2> HIDE DEF g
  <2> QED BY <1>5, <2>1
<1>7. Loop(f)
  <2> HIDE DEF Loop
  <2> QED BY <1>6
<1> HIDE DEF f
<1>8. s[0] = active
  <2>1. 1..0 = {} /\ {} \in SUBSET (1..n)
    OBVIOUS
  <2>2. f[{}] = active
    BY <1>7, <2>1
  <2> QED BY <1>1, <2>1, <2>2
<1>9. ASSUME NEW k \in 1..n PROVE s[k] = WithRequired(s[k - 1])
  <2>1. (1..k) \in SUBSET (1..n) /\ (1..k) # {} /\ k - 1 \in 0..n /\ k \in 0..n
    BY <1>1
  <2>2. f[1..k] = WithRequired(f[(1..k) \ {Max(1..k)}])
    BY <1>7, <2>1
  <2>3. (1..k) \ {Max(1..k)} = 1..(k - 1)
    BY <1>1, TopFact
  <2> QED BY <2>1, <2>2, <2>3
<1>10. s[n] = RequiresClosure(active)
  BY <1>1, <1>2
<1> HIDE DEF s
<1> QED BY <1>8, <1>9, <1>10 DEF n

LEMMA ClosureFact ==
    ASSUME NEW active \in SUBSET Stages
    PROVE  /\ active \subseteq RequiresClosure(active) /\ RequiresClosure(active) \subseteq Stages
           /\ ClosedStages(RequiresClosure(active))
           /\ \A S : active \subseteq S /\ ClosedStages(S) => RequiresClosure(active) \subseteq S
<1> DEFINE n == Cardinality(Stages)
<1>1. PICK s : /\ s[0] = active
               /\ \A k \in 1..n : s[k] = WithRequired(s[k - 1])
               /\ s[n] = RequiresClosure(active)
  BY ClosureLoop
<1>2. n \in Nat /\ IsFiniteSet(Stages)
  BY StagesFinite
<1> DEFINE P == {k \in 0..n : /\ active \subseteq s[k] /\ s[k] \subseteq Stages
                              /\ ClosedStages(s[k]) \/ k <= Cardinality(s[k])}
<1>3. Cardinality(active) \in Nat
  BY <1>2, FS_Subset, FS_CardinalityType
<1>4. 0 \in P
  BY <1>1, <1>2, <1>3
<1>5. ASSUME NEW k \in 1..n, k - 1 \in P PROVE k \in P
  <2> DEFINE a == s[k - 1]
  <2>1. s[k] = WithRequired(a) /\ active \subseteq a /\ a \subseteq Stages
        /\ (ClosedStages(a) \/ k - 1 <= Cardinality(a)) /\ k \in 0..n
    BY <1>1, <1>2, <1>5
  <2> HIDE DEF a
  <2>2. a \subseteq s[k] /\ s[k] \subseteq Stages
    BY <2>1, StagesFinite DEF WithRequired
  <2>3. CASE ClosedStages(a)
    <3>1. s[k] = a
      BY <2>1, <2>3 DEF WithRequired, ClosedStages
    <3> QED BY <2>1, <2>2, <2>3, <3>1
  <2>4. CASE ~ClosedStages(a)
    <3>1. k - 1 <= Cardinality(a)
      BY <2>1, <2>4
    <3>2. a # s[k]
      BY <2>1, <2>4 DEF WithRequired, ClosedStages
    <3>3. IsFiniteSet(s[k]) /\ Cardinality(s[k]) \in Nat /\ Cardinality(a) \in Nat
          /\ Cardinality(a) < Cardinality(s[k])
      BY <1>2, <2>1, <2>2, <3>2, FS_Subset, FS_CardinalityType
    <3>4. k <= Cardinality(s[k])
      BY <1>2, <3>1, <3>3
    <3> QED BY <2>1, <2>2, <3>4
  <2> QED BY <2>3, <2>4
<1>6. n \in P
  <2> HIDE DEF P, n
  <2>1. \A k \in 0..n : k \in P
    BY <1>2, <1>4, <1>5, StepFact
  <2> QED BY <1>2, <2>1
<1> DEFINE R == RequiresClosure(active)
<1>7. active \subseteq R /\ R \subseteq Stages /\ (ClosedStages(R) \/ n <= Cardinality(R))
  BY <1>1, <1>6
<1> HIDE DEF R, P
<1>8. ClosedStages(R)
  <2>1. CASE n <= Cardinality(R)
    <3>1. R = Stages
      <4>1. ASSUME R # Stages PROVE FALSE
        <5>1. Cardinality(R) < n /\ Cardinality(R) \in Nat
          BY <1>2, <1>7, <4>1, FS_Subset, FS_CardinalityType
        <5> QED BY <1>2, <2>1, <5>1
      <4> QED BY <4>1
    <3> QED BY <3>1, StagesFinite DEF ClosedStages
  <2> QED BY <1>7, <2>1
<1>9. ASSUME NEW S, active \subseteq S, ClosedStages(S) PROVE R \subseteq S
  <2> DEFINE Q == {k \in 0..n : s[k] \subseteq S}
  <2>1. 0 \in Q
    BY <1>1, <1>2, <1>9
  <2>2. ASSUME NEW k \in 1..n, k - 1 \in Q PROVE k \in Q
    <3>1. s[k] = WithRequired(s[k - 1]) /\ s[k - 1] \subseteq S /\ k \in 0..n
      BY <1>1, <1>2, <2>2
    <3>2. s[k] \subseteq S
      BY <1>9, <3>1 DEF WithRequired, ClosedStages
    <3> QED BY <3>1, <3>2
  <2> HIDE DEF Q
  <2>3. \A k \in 0..n : k \in Q
    <3> HIDE DEF n
    <3> QED BY <1>2, <2>1, <2>2, StepFact
  <2>4. n \in Q
    BY <1>2, <2>3
  <2> QED BY <1>1, <2>4 DEF Q, R
<1> QED BY <1>7, <1>8, <1>9 DEF R

-----------------------------------------------------------------------------
(* order_kernel places every active stage once, after those it is ordered after. *)
Placed(active, v) ==
    /\ v \in Seq(active)
    /\ \A i, j \in 1..Len(v) : v[i] = v[j] => i = j
    /\ \A j \in 1..Len(v) : \A p \in (OrderAfter[v[j]] \intersect active) \ {v[j]} :
          \E i \in 1..(j - 1) : v[i] = p

(* A sequence without repetitions is as long as it has members. *)
LEMMA PlacedSize ==
    ASSUME NEW active, NEW v, Placed(active, v)
    PROVE  /\ ToSet(v) \subseteq active /\ ToSet(v) = {v[i] : i \in 1..Len(v)}
           /\ IsFiniteSet(ToSet(v)) /\ Cardinality(ToSet(v)) = Len(v) /\ Len(v) \in Nat
<1> DEFINE I == 1..Len(v)
           R == ToSet(v)
<1>1. v \in Seq(active) /\ Len(v) \in Nat /\ DOMAIN v = I /\ \A i \in I : v[i] \in active
  BY DEF Placed
<1>2. R = {v[i] : i \in I}
  BY <1>1 DEF ToSet
<1>3. v \in [I -> R]
  BY <1>1, <1>2
<1>4. v \in Injection(I, R)
  <2>1. \A a, b \in I : v[a] = v[b] => a = b
    BY DEF Placed
  <2> HIDE DEF I, R
  <2> QED BY <1>3, <2>1 DEF Injection, IsInjective
<1>5. v \in Surjection(I, R)
  BY <1>2, <1>3 DEF Surjection
<1>6. ExistsBijection(I, R)
  BY <1>4, <1>5 DEF ExistsBijection, Bijection
<1> HIDE DEF R
<1>7. IsFiniteSet(I) /\ Cardinality(I) = Len(v)
  <2> DEFINE n == Len(v)
  <2>1. n \in Nat
    BY <1>1
  <2> HIDE DEF n
  <2>2. IsFiniteSet(1..n) /\ Cardinality(1..n) = n
    <3>1. 1 \in Int /\ n \in Int
      BY <2>1
    <3>2. IsFiniteSet(1..n) /\ Cardinality(1..n) = IF 1 > n THEN 0 ELSE n - 1 + 1
      BY <3>1, FS_Interval
    <3> QED BY <2>1, <3>2
  <2> QED BY <2>2 DEF n
<1> HIDE DEF I
<1>8. IsFiniteSet(R) /\ Cardinality(R) = Cardinality(I)
  BY <1>6, <1>7, FS_Bijection
<1> QED BY <1>1, <1>2, <1>7, <1>8 DEF R, I

(* The least ranked of some stages. *)
LEMMA RankFact ==
    ASSUME NEW S, S # {}, NEW rank, \A s \in S : rank[s] \in Nat
    PROVE  (CHOOSE s \in S : \A t \in S : rank[s] <= rank[t]) \in S
<1> DEFINE T == {rank[s] : s \in S}
<1>1. PICK m \in T : \A y \in T : m <= y
  <2>1. T \in SUBSET Nat /\ T # {}
    OBVIOUS
  <2> QED BY <2>1, LeastFact
<1>2. PICK s \in S : m = rank[s]
  OBVIOUS
<1>3. \A t \in S : rank[s] <= rank[t]
  BY <1>1, <1>2
<1> QED BY <1>3

(* As long as an active stage is missing, one is ready, and it can be placed. *)
LEMMA PlaceFact ==
    ASSUME NEW active \in SUBSET Stages, NEW rank, \A s \in active : rank[s] \in Nat,
           NEW v, Placed(active, v), Len(v) < Cardinality(active)
    PROVE  Placed(active, Place(active, rank, v)) /\ Len(Place(active, rank, v)) = Len(v) + 1
<1> DEFINE done == ToSet(v)
           S == active \ done
           r == Ready(active, v)
           x == CHOOSE s \in r : \A t \in r : rank[s] <= rank[t]
           w == Append(v, x)
<1>1. done \subseteq active /\ done = {v[i] : i \in 1..Len(v)} /\ Cardinality(done) = Len(v)
      /\ Len(v) \in Nat /\ v \in Seq(active)
  BY PlacedSize DEF Placed
<1>2. done # active
  <2>1. IsFiniteSet(active) /\ Cardinality(active) \in Nat
    BY StagesFinite, FS_Subset, FS_CardinalityType
  <2>2. Cardinality(done) < Cardinality(active)
    BY <1>1
  <2> HIDE DEF done
  <2>3. ASSUME done = active PROVE FALSE
    BY <2>1, <2>2, <2>3
  <2> QED BY <2>3
<1>3. S # {} /\ S \in SUBSET Stages
  BY <1>1, <1>2
<1> HIDE DEF done
<1>4. PICK s \in S : OrderAfter[s] \intersect S = {}
  BY <1>3, ManifestAssumption
<1>5. s \in r
  BY <1>4 DEF Ready, done
<1>6. x \in r
  <2>1. \A t \in r : rank[t] \in Nat
    BY DEF Ready
  <2> HIDE DEF r
  <2> QED BY <1>5, <2>1, RankFact
<1>7. Place(active, rank, v) = w
  BY <1>5 DEF Place
<1>8. x \in active /\ x \notin done /\ (OrderAfter[x] \intersect active) \ {x} \subseteq done
  BY <1>6 DEF Ready, done
<1> HIDE DEF x, r, S
<1> DEFINE n == Len(v)
<1>9. /\ w \in Seq(active) /\ Len(w) = n + 1 /\ w[n + 1] = x
      /\ \A i \in 1..n : w[i] = v[i]
  <2>1. v \in Seq(active) /\ x \in active
    BY <1>1, <1>8
  <2> QED BY <2>1, AppendProperties
<1>10. n \in Nat /\ n = Len(v)
  BY <1>1
<1> HIDE DEF w, n
<1>11. \A i \in 1..(n + 1) : i \in 1..n \/ i = n + 1
  BY <1>10
<1>12. /\ \A k \in 1..n : v[k] # x
       /\ \A k, l \in 1..n : v[k] = v[l] => k = l
       /\ \A p \in done : \E i \in 1..n : v[i] = p
  BY <1>1, <1>8, <1>10 DEF Placed
<1>13. ASSUME NEW i \in 1..(n + 1), NEW j \in 1..(n + 1), w[i] = w[j] PROVE i = j
  BY <1>9, <1>11, <1>12, <1>13
<1>14. ASSUME NEW j \in 1..(n + 1), NEW p \in (OrderAfter[w[j]] \intersect active) \ {w[j]}
       PROVE  \E i \in 1..(j - 1) : w[i] = p
  <2>1. CASE j \in 1..n
    <3>1. w[j] = v[j]
      BY <1>9, <2>1
    <3>2. PICK i \in 1..(j - 1) : v[i] = p
      BY <1>10, <2>1, <3>1 DEF Placed
    <3>3. i \in 1..n
      BY <1>10, <2>1
    <3> QED BY <1>9, <3>2, <3>3
  <2>2. CASE j = n + 1
    <3>1. p \in done
      BY <1>8, <1>9, <2>2
    <3>2. PICK i \in 1..n : v[i] = p
      BY <1>12, <3>1
    <3>3. i \in 1..(j - 1)
      BY <1>10, <2>2
    <3> QED BY <1>9, <3>2, <3>3
  <2> QED BY <1>11, <2>1, <2>2
<1>15. Placed(active, w)
  BY <1>9, <1>13, <1>14 DEF Placed
<1> QED BY <1>7, <1>9, <1>10, <1>15

LEMMA OrderLoop ==
    ASSUME NEW active \in SUBSET Stages, NEW rank, \A s \in active : rank[s] \in Nat
    PROVE  \E s : /\ s[0] = <<>>
                  /\ \A k \in 1..Cardinality(active) : s[k] = Place(active, rank, s[k - 1])
                  /\ s[Cardinality(active)] = OrderBy(active, rank)
<1> DEFINE n == Cardinality(active)
           V == Seq(active)
           base == <<>>
           g == [v \in V |-> Place(active, rank, v)]
           Loop(iter) == iter = [T \in SUBSET (1..n) |->
                                    IF T = {} THEN base ELSE Place(active, rank, iter[T \ {Max(T)}])]
           f == CHOOSE iter : Loop(iter)
           s == [k \in 0..n |-> f[1..k]]
<1>1. n \in Nat
  BY StagesFinite, FS_Subset, FS_CardinalityType
<1>2. OrderBy(active, rank) = f[1..n]
  BY DEF OrderBy, FoldLeft, MapThenFoldSet
<1> HIDE DEF n
<1>3. ASSUME NEW v \in V PROVE Place(active, rank, v) \in V
  <2> DEFINE r == Ready(active, v)
             x == CHOOSE q \in r : \A t \in r : rank[q] <= rank[t]
  <2>1. CASE r = {}
    BY <2>1 DEF Place
  <2>2. CASE r # {}
    <3>1. \A t \in r : rank[t] \in Nat /\ t \in active
      BY DEF Ready
    <3>2. x \in r
      <4> HIDE DEF r
      <4> QED BY <2>2, <3>1, RankFact
    <3>3. Place(active, rank, v) = Append(v, x)
      BY <2>2 DEF Place
    <3> HIDE DEF x
    <3> QED BY <3>1, <3>2, <3>3
  <2> QED BY <2>1, <2>2
<1>4. g \in [V -> V]
  <2> HIDE DEF V
  <2> QED BY <1>3
<1>4b. base \in V
  OBVIOUS
<1> HIDE DEF V, base
<1>5. PICK h \in [SUBSET (1..n) -> V] :
         h = [T \in SUBSET (1..n) |-> IF T = {} THEN base ELSE g[h[T \ {Max(T)}]]]
  <2> HIDE DEF g
  <2>2. LoopOn(n, V, base, g)
    BY <1>1, <1>4, <1>4b, LoopExists
  <2> QED BY <2>2 DEF LoopOn
<1>6. Loop(h)
  <2>1. ASSUME NEW T \in SUBSET (1..n) PROVE g[h[T \ {Max(T)}]] = Place(active, rank, h[T \ {Max(T)}])
    <3>1. h[T \ {Max(T)}] \in V
      BY <1>5
    <3> QED BY <3>1
  <2> HIDE DEF g
  <2> QED BY <1>5, <2>1
<1>7. Loop(f)
  <2> HIDE DEF Loop
  <2> QED BY <1>6
<1> HIDE DEF f
<1>8. s[0] = base
  <2>1. 1..0 = {} /\ {} \in SUBSET (1..n)
    OBVIOUS
  <2>2. f[{}] = base
    BY <1>7, <2>1
  <2> QED BY <1>1, <2>1, <2>2
<1>9. ASSUME NEW k \in 1..n PROVE s[k] = Place(active, rank, s[k - 1])
  <2>1. (1..k) \in SUBSET (1..n) /\ (1..k) # {} /\ k - 1 \in 0..n /\ k \in 0..n
    BY <1>1
  <2>2. f[1..k] = Place(active, rank, f[(1..k) \ {Max(1..k)}])
    BY <1>7, <2>1
  <2>3. (1..k) \ {Max(1..k)} = 1..(k - 1)
    BY <1>1, TopFact
  <2> QED BY <2>1, <2>2, <2>3
<1>10. s[n] = OrderBy(active, rank)
  BY <1>1, <1>2
<1> HIDE DEF s
<1> QED BY <1>8, <1>9, <1>10 DEF n, base

LEMMA OrderFact ==
    ASSUME NEW active \in SUBSET Stages, NEW rank, \A s \in active : rank[s] \in Nat
    PROVE  LET o == OrderBy(active, rank)
           IN  Placed(active, o) /\ ToSet(o) = active /\ Len(o) = Cardinality(active)
<1> DEFINE n == Cardinality(active)
           o == OrderBy(active, rank)
<1>1. PICK s : /\ s[0] = <<>>
               /\ \A k \in 1..n : s[k] = Place(active, rank, s[k - 1])
               /\ s[n] = o
  BY OrderLoop
<1>2. n \in Nat /\ IsFiniteSet(active)
  BY StagesFinite, FS_Subset, FS_CardinalityType
<1> DEFINE P == {k \in 0..n : Placed(active, s[k]) /\ Len(s[k]) = k}
<1>3. 0 \in P
  <2> DEFINE z == <<>>
  <2>1. z \in Seq(active) /\ Len(z) = 0 /\ s[0] = z
    BY <1>1
  <2> HIDE DEF z
  <2>2. 1..0 = {} /\ 0 \in 0..n
    BY <1>2
  <2>3. Placed(active, z)
    BY <2>1, <2>2 DEF Placed
  <2> QED BY <2>1, <2>2, <2>3
<1>4. ASSUME NEW k \in 1..n, k - 1 \in P PROVE k \in P
  <2>1. Placed(active, s[k - 1]) /\ Len(s[k - 1]) = k - 1 /\ k - 1 < n /\ k \in 0..n
        /\ s[k] = Place(active, rank, s[k - 1])
    BY <1>1, <1>2, <1>4
  <2>2. Placed(active, s[k]) /\ Len(s[k]) = k - 1 + 1
    BY <2>1, PlaceFact
  <2> QED BY <2>1, <2>2
<1>5. n \in P
  <2> HIDE DEF P, n
  <2>1. \A k \in 0..n : k \in P
    BY <1>2, <1>3, <1>4, StepFact
  <2> QED BY <1>2, <2>1
<1>6. Placed(active, o) /\ Len(o) = n
  BY <1>1, <1>5
<1> HIDE DEF o
<1>7. ToSet(o) \subseteq active /\ Cardinality(ToSet(o)) = n
  BY <1>6, PlacedSize
<1>8. ToSet(o) = active
  BY <1>2, <1>7, FS_Subset
<1> QED BY <1>6, <1>8 DEF o

(* The kernel of active stages. *)
LEMMA KernelOrdered ==
    ASSUME NEW active \in SUBSET Stages
    PROVE  LET k == OrderKernel(active)
           IN  Placed(active, k) /\ ToSet(k) = active /\ Len(k) = Cardinality(active)
<1> DEFINE lexical == [s \in Stages |-> Position(Lexical, s)]
           rank == [s \in active |-> Position(CanonicalStageOrder, s)]
<1>1. ASSUME NEW seq, NEW s \in ToSet(seq), seq \in Seq(Stages) PROVE Position(seq, s) \in Nat
  <2>1. PICK i \in DOMAIN seq : seq[i] = s
    BY DEF ToSet
  <2>2. Position(seq, s) \in DOMAIN seq
    BY <2>1 DEF Position
  <2>3. DOMAIN seq \subseteq Nat
    BY <1>1
  <2> QED BY <2>2, <2>3
<1>2. \A s \in Stages : lexical[s] \in Nat
  BY <1>1, ResolutionAssumption
<1>3. CanonicalStageOrder = OrderBy(Stages, lexical)
  BY DEF CanonicalStageOrder
<1> HIDE DEF lexical
<1>4. Placed(Stages, CanonicalStageOrder) /\ ToSet(CanonicalStageOrder) = Stages
  BY <1>2, <1>3, OrderFact
<1>5. \A s \in active : rank[s] \in Nat
  BY <1>1, <1>4 DEF Placed
<1>6. OrderKernel(active) = OrderBy(active, rank)
  BY DEF OrderKernel
<1> HIDE DEF rank
<1> QED BY <1>5, <1>6, OrderFact

-----------------------------------------------------------------------------
(* The cost of guards does not depend on the order they are added up in. *)
LEMMA CostLoop ==
    \E h \in [SUBSET Guards -> Nat] :
        /\ \A T \in SUBSET Guards : T # {} =>
              \E x \in T : h[T] = x.cost + h[T \ {x}]
        /\ \A T \in SUBSET Guards : Cost(T) = h[T]
        /\ h[{}] = 0
<1> DEFINE c == [T \in SUBSET Guards |-> CHOOSE x \in T : TRUE]
           g == [p \in Guards \X Nat |-> p[1].cost + p[2]]
<1>1. IsFiniteSet(Guards) /\ 0 \in Nat /\ \A x \in Guards : x.cost \in Nat
  BY GuardAssumption
<1>2. \A T \in SUBSET Guards : T # {} => c[T] \in T
  OBVIOUS
<1>3. g \in [Guards \X Nat -> Nat]
  <2>1. \A p \in Guards \X Nat : p[1].cost + p[2] \in Nat
    BY <1>1
  <2> QED BY <2>1
<1> HIDE DEF g
<1>4. PICK h \in [SUBSET Guards -> Nat] :
         \A T \in SUBSET Guards : h[T] = IF T = {} THEN 0 ELSE g[<<c[T], h[T \ {c[T]}]>>]
  <2> HIDE DEF c
  <2>1. FoldOn(Guards, Nat, 0, g, c)
    BY <1>1, <1>2, <1>3, FoldExists
  <2> QED BY <2>1 DEF FoldOn
<1>5. ASSUME NEW T \in SUBSET Guards, T # {}
      PROVE  c[T] \in T /\ h[T] = c[T].cost + h[T \ {c[T]}]
  <2>1. c[T] \in Guards /\ h[T \ {c[T]}] \in Nat
    BY <1>2, <1>5
  <2> HIDE DEF c
  <2>2. g[<<c[T], h[T \ {c[T]}]>>] = c[T].cost + h[T \ {c[T]}]
    BY <2>1 DEF g
  <2> QED BY <1>2, <1>4, <1>5, <2>2
<1>6. h[{}] = 0
  BY <1>4
<1>7. ASSUME NEW G \in SUBSET Guards PROVE Cost(G) = h[G]
  <2> DEFINE Sum(iter) == iter = [T \in SUBSET G |->
                  IF T = {} THEN 0
                  ELSE (CHOOSE x \in T : TRUE).cost + iter[T \ {CHOOSE x \in T : TRUE}]]
             f == CHOOSE iter : Sum(iter)
             e == [T \in SUBSET G |-> h[T]]
  <2>1. Cost(G) = f[G]
    BY DEF Cost, FoldSet, MapThenFoldSet
  <2>2. Sum(e)
    <3>1. ASSUME NEW T \in SUBSET G, T # {}
          PROVE  e[T] = (CHOOSE x \in T : TRUE).cost + e[T \ {CHOOSE x \in T : TRUE}]
      <4>1. c[T] = CHOOSE x \in T : TRUE
        OBVIOUS
      <4>2. e[T] = h[T] /\ e[T \ {c[T]}] = h[T \ {c[T]}]
        OBVIOUS
      <4>3. h[T] = c[T].cost + h[T \ {c[T]}]
        BY <1>5, <3>1
      <4> HIDE DEF c, e
      <4> QED BY <4>1, <4>2, <4>3
    <3>2. e[{}] = 0
      BY <1>6
    <3>3. e = [T \in SUBSET G |-> e[T]]
      OBVIOUS
    <3> HIDE DEF e
    <3> QED BY <3>1, <3>2, <3>3
  <2>3. Sum(f)
    <3> HIDE DEF Sum, e
    <3> QED BY <2>2
  <2> HIDE DEF f, e
  <2>4. \A T \in SUBSET G : T # {} => f[T] = c[T].cost + f[T \ {c[T]}]
    <3>1. ASSUME NEW T \in SUBSET G, T # {} PROVE f[T] = c[T].cost + f[T \ {c[T]}]
      <4>1. c[T] = CHOOSE x \in T : TRUE
        OBVIOUS
      <4> HIDE DEF c
      <4> QED BY <2>3, <3>1, <4>1
    <3> QED BY <3>1
  <2>5. f[{}] = 0
    BY <2>3
  <2> DEFINE P == {T \in SUBSET G : f[T] = h[T]}
  <2> HIDE DEF Sum, c
  <2>6. ASSUME NEW T \in SUBSET G, \A U \in SUBSET T : U # T => U \in P PROVE T \in P
    <3>1. CASE T = {}
      BY <1>6, <2>5, <3>1
    <3>2. CASE T # {}
      <4>1. c[T] \in T /\ T \ {c[T]} \in SUBSET T /\ T \ {c[T]} # T
        BY <1>5, <3>2
      <4>2. f[T \ {c[T]}] = h[T \ {c[T]}]
        BY <2>6, <4>1
      <4> QED BY <1>5, <2>4, <3>2, <4>2
    <3> QED BY <3>1, <3>2
  <2>7. IsFiniteSet(G)
    BY <1>1, FS_Subset
  <2> HIDE DEF P
  <2>8. \A T \in SUBSET G : T \in P
    BY <2>6, <2>7, SizeFact
  <2>9. G \in P
    BY <2>8
  <2> QED BY <2>1, <2>9 DEF P
<1> HIDE DEF c
<1> QED BY <1>5, <1>6, <1>7

LEMMA CostFact ==
    ASSUME NEW G \in SUBSET Guards, NEW x \in G
    PROVE  Cost(G) = Cost(G \ {x}) + x.cost
<1>1. PICK h \in [SUBSET Guards -> Nat] :
         /\ \A T \in SUBSET Guards : T # {} => \E y \in T : h[T] = y.cost + h[T \ {y}]
         /\ \A T \in SUBSET Guards : Cost(T) = h[T]
  BY CostLoop
<1>2. IsFiniteSet(Guards) /\ \A y \in Guards : y.cost \in Nat
  BY GuardAssumption
<1> DEFINE P == {T \in SUBSET Guards : \A y \in T : h[T] = h[T \ {y}] + y.cost}
<1>3. ASSUME NEW T \in SUBSET Guards, \A U \in SUBSET T : U # T => U \in P PROVE T \in P
  <2> SUFFICES ASSUME NEW y \in T PROVE h[T] = h[T \ {y}] + y.cost
    OBVIOUS
  <2>1. PICK z \in T : h[T] = z.cost + h[T \ {z}]
    BY <1>1
  <2>2. h[T \ {y}] \in Nat /\ h[T \ {z}] \in Nat /\ y.cost \in Nat /\ z.cost \in Nat
    BY <1>2
  <2>3. CASE y = z
    BY <2>1, <2>2, <2>3
  <2>4. CASE y # z
    <3>1. T \ {y} \in P /\ T \ {z} \in P
      BY <1>3
    <3>2. h[T \ {y}] = h[(T \ {y}) \ {z}] + z.cost /\ h[T \ {z}] = h[(T \ {z}) \ {y}] + y.cost
      BY <2>4, <3>1
    <3>3. (T \ {y}) \ {z} = (T \ {z}) \ {y} /\ (T \ {y}) \ {z} \in SUBSET Guards
      OBVIOUS
    <3>4. h[(T \ {y}) \ {z}] \in Nat
      BY <3>3
    <3> DEFINE whole == h[T]
               noY == h[T \ {y}]
               noZ == h[T \ {z}]
               none == h[(T \ {y}) \ {z}]
    <3>5. /\ whole = z.cost + noZ /\ noY = none + z.cost /\ noZ = none + y.cost
          /\ {noY, noZ, none} \subseteq Nat
      BY <2>1, <2>2, <3>2, <3>3, <3>4
    <3> HIDE DEF whole, noY, noZ, none
    <3>6. whole = noY + y.cost
      BY <2>2, <3>5
    <3> QED BY <3>6 DEF whole, noY
  <2> QED BY <2>3, <2>4
<1> HIDE DEF P
<1>4. \A T \in SUBSET Guards : T \in P
  BY <1>2, <1>3, SizeFact
<1>5. h[G] = h[G \ {x}] + x.cost
  BY <1>4 DEF P
<1>6. G \ {x} \in SUBSET Guards
  OBVIOUS
<1> QED BY <1>1, <1>5, <1>6

(* rank orders the guards strictly. *)
LEMMA RankOrder ==
    ASSUME NEW preferred
    PROVE  /\ \A g, h \in Guards : g = h \/ RanksBefore(g, h, preferred) \/ RanksBefore(h, g, preferred)
           /\ \A g \in Guards : ~RanksBefore(g, g, preferred)
           /\ \A f, g, h \in Guards :
                 RanksBefore(f, g, preferred) /\ RanksBefore(g, h, preferred) => RanksBefore(f, h, preferred)
<1> DEFINE later(x) == IF {x.key, x.id} \intersect preferred # {} THEN 0 ELSE 1
           key(x) == KeyRank[x.key]
<1>1. \A g \in Guards : g.priority \in Nat /\ key(g) \in Nat /\ later(g) \in Nat
  BY GuardAssumption
<1>2. \A g, h \in Guards : key(g) = key(h) => g = h
  BY GuardAssumption
<1>3. ASSUME NEW g \in Guards, NEW h \in Guards
      PROVE  RanksBefore(g, h, preferred)
                <=> \/ later(g) < later(h)
                    \/ later(g) = later(h) /\ g.priority < h.priority
                    \/ later(g) = later(h) /\ g.priority = h.priority /\ key(g) < key(h)
  BY DEF RanksBefore
<1> HIDE DEF later, key
<1>4. \A g, h \in Guards : g = h \/ RanksBefore(g, h, preferred) \/ RanksBefore(h, g, preferred)
  BY <1>1, <1>2, <1>3
<1>5. \A g \in Guards : ~RanksBefore(g, g, preferred)
  BY <1>1, <1>3
<1>6. ASSUME NEW f \in Guards, NEW g \in Guards, NEW h \in Guards,
             RanksBefore(f, g, preferred), RanksBefore(g, h, preferred)
      PROVE  RanksBefore(f, h, preferred)
  BY <1>1, <1>3, <1>6
<1> QED BY <1>4, <1>5, <1>6

(* The last of some guards. *)
LEMMA LastGuard ==
    ASSUME NEW S \in SUBSET Guards, S # {}, NEW preferred
    PROVE  \E x \in S : \A y \in S \ {x} : RanksBefore(y, x, preferred)
<1> DEFINE Has(T) == \E x \in T : \A y \in T \ {x} : RanksBefore(y, x, preferred)
           P == {T \in SUBSET S : T = {} \/ Has(T)}
<1>1. IsFiniteSet(S)
  BY GuardAssumption, FS_Subset
<1>2. ASSUME NEW T \in SUBSET S, \A U \in SUBSET T : U # T => U \in P PROVE T \in P
  <2> SUFFICES ASSUME T # {} PROVE Has(T)
    OBVIOUS
  <2>1. PICK z \in T : TRUE
    OBVIOUS
  <2> DEFINE U == T \ {z}
  <2>2. U = {} \/ Has(U)
    BY <1>2
  <2>3. CASE U = {}
    BY <2>1, <2>3
  <2>4. CASE Has(U)
    <3>1. PICK x \in U : \A y \in U \ {x} : RanksBefore(y, x, preferred)
      BY <2>4
    <3>2. x \in Guards /\ z \in Guards /\ x # z /\ \A y \in T : y \in Guards
      OBVIOUS
    <3>3. CASE RanksBefore(z, x, preferred)
      <4>1. \A y \in T \ {x} : RanksBefore(y, x, preferred)
        BY <3>1, <3>3
      <4> QED BY <4>1
    <3>4. CASE RanksBefore(x, z, preferred)
      <4>1. \A y \in T \ {z} : RanksBefore(y, z, preferred)
        BY <3>1, <3>2, <3>4, RankOrder
      <4> QED BY <4>1
    <3> QED BY <3>2, <3>3, <3>4, RankOrder
  <2> QED BY <2>2, <2>3, <2>4
<1> HIDE DEF P
<1>3. S \in P
  <2>1. \A T \in SUBSET S : T \in P
    BY <1>1, <1>2, SizeFact
  <2> QED BY <2>1
<1> QED BY <1>3 DEF P

(* What is admitted beside the kernel's rules fits the budget, the kernel's rules
   included. *)
LEMMA BudgetFact ==
    ASSUME NEW R \in SUBSET Guards, NEW preferred, NEW active \in WithinBudget(R, preferred)
    PROVE  active \subseteq AlwaysOn \/ Cost(active) <= TokenBudget
<1> DEFINE Optional == {g \in active : g.id \notin Mandatory}
           Admitted(x) == {h \in active : h.id \in Mandatory \/ RanksBefore(h, x, preferred)}
<1>1. /\ active \subseteq R /\ active \in SUBSET Guards
      /\ \A g \in Optional : Cost(Admitted(g)) + g.cost <= TokenBudget
  BY DEF WithinBudget
<1>2. CASE Optional = {}
  <2>1. ASSUME NEW g \in active PROVE g \in AlwaysOn
    <3>1. PICK a \in AlwaysOn : a.id = g.id
      BY <1>2 DEF Mandatory
    <3>2. a \in Guards /\ g \in Guards
      BY <1>1 DEF Guards
    <3> QED BY <3>1, <3>2, GuardAssumption
  <2> QED BY <2>1
<1>3. CASE Optional # {}
  <2>1. PICK x \in Optional : \A y \in Optional \ {x} : RanksBefore(y, x, preferred)
    <3>1. Optional \in SUBSET Guards
      BY <1>1
    <3> HIDE DEF Optional
    <3> QED BY <1>3, <3>1, LastGuard
  <2>2. x \in active /\ x \in Guards /\ x.id \notin Mandatory /\ ~RanksBefore(x, x, preferred)
    BY <1>1, RankOrder
  <2>3. Admitted(x) = active \ {x}
    BY <2>1, <2>2
  <2>4. Cost(active) = Cost(active \ {x}) + x.cost
    BY <1>1, <2>2, CostFact
  <2> QED BY <1>1, <2>1, <2>3, <2>4
<1> QED BY <1>2, <1>3

(* What is compiled was chosen within the budget from some of the guards given. *)
LEMMA CompiledSubset ==
    ASSUME NEW G \in SUBSET Guards, NEW preferred, NEW active \in CompileTaskGuards(G, preferred)
    PROVE  \E R \in SUBSET G : active \in WithinBudget(R, preferred)
<1> DEFINE F == OnePerFamily(G)
           R == Unsuperseded(Deduplicated(F))
<1>1. FamiliesResolved(G) /\ active \in WithinBudget(R, preferred)
  BY DEF CompileTaskGuards
<1>2. R \subseteq F /\ F \subseteq G
  BY <1>1, FamilyPass DEF Deduplicated, Unsuperseded
<1> HIDE DEF R, F
<1> QED BY <1>1, <1>2

-----------------------------------------------------------------------------
(* The stages of a kernel are those the profile and the workflows lead to. *)
LEMMA MergedFact ==
    ASSUME NEW selected \in SUBSET Stages, NEW required, Expand(required) \subseteq Stages
    PROVE  LET base == selected \cup Expand(required)
               merged == MergedStages(selected, required)
           IN  /\ base \subseteq merged /\ merged \subseteq Stages /\ ClosedStages(merged)
               /\ \A S : base \subseteq S /\ ClosedStages(S) => merged \subseteq S
<1> DEFINE inner == RequiresClosure(selected)
           start == inner \cup Expand(required)
<1>1. /\ selected \subseteq inner /\ inner \subseteq Stages
      /\ \A S : selected \subseteq S /\ ClosedStages(S) => inner \subseteq S
  BY ClosureFact
<1> HIDE DEF inner
<1>2. start \in SUBSET Stages
  BY <1>1
<1> HIDE DEF start
<1>3. /\ start \subseteq RequiresClosure(start) /\ RequiresClosure(start) \subseteq Stages
      /\ ClosedStages(RequiresClosure(start))
      /\ \A S : start \subseteq S /\ ClosedStages(S) => RequiresClosure(start) \subseteq S
  BY <1>2, ClosureFact
<1>4. MergedStages(selected, required) = RequiresClosure(start)
  BY DEF MergedStages, start, inner
<1> QED BY <1>1, <1>3, <1>4 DEF start

(* What a static profile lists. *)
Static(shape) == Expand(ToSet(Profiles[shape]))

(* No adaptation takes the stages of ward and sispis from a profile. *)
LEMMA MandatorySelected ==
    ASSUME NEW shape \in Shapes, NEW adjs, \A a \in adjs : Adaptive(a)
    PROVE  /\ SelectedStages(shape, adjs) \subseteq Static(shape) /\ Static(shape) \subseteq Stages
           /\ \A s \in Static(shape) :
                 Owner[s] \in NonSuppressible => s \in SelectedStages(shape, adjs)
<1>1. Static(shape) \subseteq Stages
  BY ProfileAssumption DEF Static
<1>2. SelectedStages(shape, adjs) \subseteq Static(shape)
  BY DEF SelectedStages, Static
<1>3. ASSUME NEW s \in Static(shape), Owner[s] \in NonSuppressible,
             NEW a \in adjs, a.type = "stage", a.disposition = "suppress", a.route \in {s, Prefix[s]}
      PROVE  FALSE
  <2>1. s \in Stages /\ Prefix[s] \in NonSuppressible
    BY <1>1, <1>3, ManifestAssumption
  <2>2. a.route \notin NonSuppressible /\ (a.route \in Stages => Owner[a.route] \notin NonSuppressible)
    BY <1>3 DEF Adaptive
  <2> QED BY <1>3, <2>1, <2>2
<1>4. ASSUME NEW s \in Static(shape), Owner[s] \in NonSuppressible
      PROVE  s \in SelectedStages(shape, adjs)
  <2>1. {s, Prefix[s]} \cap RoutesOf({"stage"}, "suppress", adjs) = {}
    BY <1>3, <1>4 DEF RoutesOf
  <2> QED BY <2>1 DEF SelectedStages, Static
<1> QED BY <1>1, <1>2, <1>4

(* The stages and the order of the kernel a task gets. *)
StagesOf(shape, adjs, required) == MergedStages(SelectedStages(shape, adjs), required)

(* What a kernel is for the stages it is asked for. *)
KernelFor(k, base) ==
    /\ ToSet(k) \subseteq Stages /\ Len(k) <= Cardinality(Stages)
    /\ Len(k) = Cardinality(ToSet(k))
    /\ \A i, j \in DOMAIN k : k[i] \in OrderAfter[k[j]] => i < j
    /\ base \subseteq ToSet(k) /\ ClosedStages(ToSet(k))
    /\ \A S : base \subseteq S /\ ClosedStages(S) => ToSet(k) \subseteq S

LEMMA KernelFact ==
    ASSUME NEW shape \in Shapes, NEW adjs, \A a \in adjs : Adaptive(a),
           NEW required, Expand(required) \subseteq Stages
    PROVE  KernelFor(OrderKernel(StagesOf(shape, adjs, required)),
                     SelectedStages(shape, adjs) \cup Expand(required))
<1> DEFINE k == OrderKernel(StagesOf(shape, adjs, required))
           merged == StagesOf(shape, adjs, required)
           base == SelectedStages(shape, adjs) \cup Expand(required)
<1>1. SelectedStages(shape, adjs) \in SUBSET Stages
  BY MandatorySelected
<1>2. /\ base \subseteq merged /\ merged \subseteq Stages /\ ClosedStages(merged)
      /\ \A S : base \subseteq S /\ ClosedStages(S) => merged \subseteq S
  BY <1>1, MergedFact DEF StagesOf
<1> HIDE DEF merged, base
<1>3. Placed(merged, k) /\ ToSet(k) = merged /\ Len(k) = Cardinality(merged)
  BY <1>2, KernelOrdered DEF merged
<1> HIDE DEF k
<1>4. Cardinality(merged) <= Cardinality(Stages)
  BY <1>2, StagesFinite, FS_Subset
<1>5. DOMAIN k = 1..Len(k) /\ Len(k) \in Nat /\ \A i \in 1..Len(k) : k[i] \in merged
  BY <1>3 DEF Placed
<1>6. ASSUME NEW i \in 1..Len(k), NEW j \in 1..Len(k), k[i] \in OrderAfter[k[j]] PROVE i < j
  <2>1. k[j] \notin OrderAfter[k[j]]
    <3>1. {k[j]} \in (SUBSET Stages) \ {{}}
      BY <1>2, <1>5
    <3>2. \E s \in {k[j]} : OrderAfter[s] \intersect {k[j]} = {}
      BY <3>1, ManifestAssumption
    <3> QED BY <3>2
  <2>2. k[i] \in (OrderAfter[k[j]] \intersect merged) \ {k[j]}
    BY <1>5, <1>6, <2>1
  <2>3. PICK l \in 1..(j - 1) : k[l] = k[i]
    BY <1>3, <2>2 DEF Placed
  <2>4. l \in 1..Len(k) /\ l < j
    BY <1>5
  <2>5. l = i
    BY <1>3, <2>3, <2>4 DEF Placed
  <2> QED BY <2>4, <2>5
<1>7. KernelFor(k, base)
  BY <1>2, <1>3, <1>4, <1>5, <1>6 DEF KernelFor
<1> QED BY <1>7 DEF k, base

(* What a guard of the artifact was applicable for is reported as a treatment. *)
LEMMA TreatmentFact ==
    ASSUME NEW facets, NEW canaries, NEW routes,
           NEW g \in ApplicableGuards(pack, facets, canaries, routes)
    PROVE  Assignment(g, facets, canaries, routes) = "treatment"
BY DEF ApplicableGuards, Assignment, Suppressed, Deployed

-----------------------------------------------------------------------------
(* What the phases have settled: the shape of the request, that every adjustment is
   adaptive, and from them the kernel; a bundle holds the kernel and the plan. *)
Settled ==
    /\ phase # "request" => request.shape \in Shapes
    /\ phase \in {"workflows", "kernel", "guards", "resolved"} => \A a \in adjustments : Adaptive(a)
    /\ phase \in {"guards", "resolved"} =>
          /\ Expand(plan.required) \subseteq Stages
          /\ kernel = OrderKernel(StagesOf(request.shape, adjustments, plan.required))
    /\ \A b \in bundle : b.kernel = kernel /\ b.workflows = plan

ResolutionInd == ResolutionTypeOK /\ Settled /\ BudgetHolds /\ ActiveIsTreatment

(* The invariant says what the run checks. *)
LEMMA SettledKernel ==
    ASSUME ResolutionInd, NEW b \in bundle
    PROVE  /\ request.shape \in Shapes /\ (\A a \in adjustments : Adaptive(a))
           /\ Expand(b.workflows.required) \subseteq Stages
           /\ KernelFor(b.kernel,
                        SelectedStages(request.shape, adjustments) \cup Expand(b.workflows.required))
<1>1. phase = "resolved" /\ b.kernel = kernel /\ b.workflows = plan
  BY DEF ResolutionInd, ResolutionTypeOK, Settled
<1>2. /\ request.shape \in Shapes /\ (\A a \in adjustments : Adaptive(a))
      /\ Expand(plan.required) \subseteq Stages
      /\ kernel = OrderKernel(StagesOf(request.shape, adjustments, plan.required))
  BY <1>1 DEF ResolutionInd, Settled
<1>3. KernelFor(OrderKernel(StagesOf(request.shape, adjustments, plan.required)),
                SelectedStages(request.shape, adjustments) \cup Expand(plan.required))
  BY <1>2, KernelFact
<1> QED BY <1>1, <1>2, <1>3

LEMMA ResolutionImplied == ResolutionInd => ResolutionInv
<1> SUFFICES ASSUME ResolutionInd PROVE ResolutionInv
  OBVIOUS
<1>1. KernelFollowsManifest
  <2> SUFFICES ASSUME NEW b \in bundle
               PROVE  LET active == ToSet(b.kernel)
                          base == SelectedStages(request.shape, adjustments)
                                     \union Expand(b.workflows.required)
                          Closed(S) == \A s \in S : Requires[s] \subseteq S
                      IN /\ Len(b.kernel) = Cardinality(active)
                         /\ \A i, j \in DOMAIN b.kernel :
                               b.kernel[i] \in OrderAfter[b.kernel[j]] => i < j
                         /\ base \subseteq active /\ Closed(active)
                         /\ \A S \in SUBSET active : base \subseteq S /\ Closed(S) => S = active
    BY DEF KernelFollowsManifest
  <2> QED BY SettledKernel DEF KernelFor, ClosedStages
<1>2. AdaptationBounded
  <2> SUFFICES ASSUME NEW b \in bundle
               PROVE  /\ {s \in Static(request.shape) : Owner[s] \in NonSuppressible}
                            \subseteq ToSet(b.kernel)
                      /\ ToSet(b.kernel)
                            \subseteq RequiresClosure(Static(request.shape)
                                                         \union Expand(b.workflows.required))
    BY DEF AdaptationBounded, Static
  <2> DEFINE all == Static(request.shape) \cup Expand(b.workflows.required)
             selected == SelectedStages(request.shape, adjustments)
  <2>1. /\ request.shape \in Shapes /\ (\A a \in adjustments : Adaptive(a))
        /\ Expand(b.workflows.required) \subseteq Stages
        /\ selected \cup Expand(b.workflows.required) \subseteq ToSet(b.kernel)
        /\ \A S : selected \cup Expand(b.workflows.required) \subseteq S /\ ClosedStages(S)
                     => ToSet(b.kernel) \subseteq S
    BY SettledKernel DEF KernelFor
  <2> HIDE DEF selected
  <2>2. /\ selected \subseteq Static(request.shape) /\ Static(request.shape) \subseteq Stages
        /\ \A s \in Static(request.shape) : Owner[s] \in NonSuppressible => s \in selected
    BY <2>1, MandatorySelected DEF selected
  <2>3. all \in SUBSET Stages
    BY <2>1, <2>2
  <2>4. all \subseteq RequiresClosure(all) /\ ClosedStages(RequiresClosure(all))
    <3> HIDE DEF all
    <3> QED BY <2>3, ClosureFact
  <2>5. ToSet(b.kernel) \subseteq RequiresClosure(all)
    BY <2>1, <2>2, <2>4
  <2> QED BY <2>1, <2>2, <2>5
<1> QED BY <1>1, <1>2 DEF ResolutionInd, ResolutionInv

LEMMA ResolutionStart == ResolutionInit => ResolutionInd
<1> SUFFICES ASSUME ResolutionInit PROVE ResolutionInd
  OBVIOUS
<1> DEFINE z == <<>>
<1>1. Cardinality({}) = 0 /\ MaxPack \in Nat /\ MaxRegistry \in Nat \ {0} /\ Cardinality(Stages) \in Nat
  BY ResolutionAssumption, StagesFinite, FS_EmptySet
<1>2. ToSet(z) = {} /\ Len(z) = 0
  BY DEF ToSet
<1>3. kernel = z /\ bundle = {} /\ phase = "request" /\ request.shape = "none" /\ pack = {}
      /\ registry = 1 /\ eligible = 0 /\ cohort = "none"
  BY DEF ResolutionInit, NoRequest
<1> HIDE DEF z
<1>4. ResolutionTypeOK
  BY <1>1, <1>2, <1>3 DEF ResolutionTypeOK
<1>5. Settled /\ BudgetHolds /\ ActiveIsTreatment
  BY <1>3 DEF Settled, BudgetHolds, ActiveIsTreatment
<1> QED BY <1>4, <1>5 DEF ResolutionInd

(* A phase that does not return a bundle. *)
LEMMA PhaseStep ==
    ASSUME ResolutionInd, bundle' = {}, phase' # "resolved", ResolutionTypeOK', Settled'
    PROVE  ResolutionInd'
BY DEF ResolutionInd, BudgetHolds, ActiveIsTreatment

LEMMA ResolutionStep == ResolutionInd /\ [ResolutionNext]_resolutionVars => ResolutionInd'
<1> SUFFICES ASSUME ResolutionInd, [ResolutionNext]_resolutionVars PROVE ResolutionInd'
  OBVIOUS
<1>0. ResolutionTypeOK /\ Settled /\ MaxPack \in Nat /\ MaxRegistry \in Nat
  BY ResolutionAssumption DEF ResolutionInd
<1>a. ASSUME phase \in {"profiles", "pack", "cohort", "advice", "workflows", "kernel", "guards"},
             Refuse(<<request, pack, registry, eligible, adjustments, cohort, plan, kernel, bundle>>)
      PROVE  ResolutionInd'
  <2>1. phase' = "refused"
        /\ UNCHANGED <<request, pack, registry, eligible, adjustments, cohort, plan, kernel, bundle>>
    BY <1>a DEF Refuse
  <2>2. bundle = {}
    BY <1>0, <1>a DEF ResolutionTypeOK
  <2>3. ResolutionTypeOK'
    BY <1>0, <1>a, <2>1, <2>2 DEF ResolutionTypeOK
  <2>4. Settled'
    BY <1>0, <1>a, <2>1, <2>2 DEF Settled
  <2> QED BY <2>1, <2>2, <2>3, <2>4, PhaseStep
<1>1. CASE ReceiveRequest
  <2>1. request'.shape \in Shapes /\ phase = "request" /\ phase' = "profiles"
        /\ UNCHANGED <<pack, registry, eligible, adjustments, cohort, plan, kernel, bundle>>
    BY <1>1 DEF ReceiveRequest, Requests
  <2>2. bundle = {}
    BY <1>0, <2>1 DEF ResolutionTypeOK
  <2>3. ResolutionTypeOK'
    BY <1>0, <2>1, <2>2 DEF ResolutionTypeOK
  <2>4. Settled'
    BY <1>0, <2>1, <2>2 DEF Settled
  <2> QED BY <2>1, <2>2, <2>3, <2>4, PhaseStep
<1>2. CASE LoadRoutingProfiles
  <2>1. CASE /\ phase = "profiles" /\ phase' = "pack"
             /\ UNCHANGED <<request, pack, registry, eligible, cohort, plan, kernel, bundle>>
    <3>1. bundle = {}
      BY <1>0, <2>1 DEF ResolutionTypeOK
    <3>2. ResolutionTypeOK'
      BY <1>0, <2>1, <3>1 DEF ResolutionTypeOK
    <3>3. Settled'
      BY <1>0, <2>1, <3>1 DEF Settled
    <3> QED BY <2>1, <3>1, <3>2, <3>3, PhaseStep
  <2> QED BY <1>a, <1>2, <2>1 DEF LoadRoutingProfiles
<1>3. CASE LoadGuardPack
  <2>1. CASE /\ phase = "pack" /\ phase' = "eligibility"
             /\ pack' \in UNION {kSubset(n, Artifact) : n \in 0..MaxPack}
             /\ UNCHANGED <<request, registry, eligible, adjustments, cohort, plan, kernel, bundle>>
    <3>1. bundle = {}
      BY <1>0, <2>1 DEF ResolutionTypeOK
    <3>2. pack' \subseteq Artifact /\ Cardinality(pack') <= MaxPack
      <4>1. PICK n \in 0..MaxPack : pack' \in kSubset(n, Artifact)
        BY <2>1
      <4>2. pack' \subseteq Artifact /\ Cardinality(pack') = n
        BY <4>1 DEF kSubset
      <4> QED BY <4>2
    <3>3. ResolutionTypeOK'
      BY <1>0, <2>1, <3>1, <3>2 DEF ResolutionTypeOK
    <3>4. Settled'
      BY <1>0, <2>1, <3>1 DEF Settled
    <3> QED BY <2>1, <3>1, <3>3, <3>4, PhaseStep
  <2> QED BY <1>a, <1>3, <2>1 DEF LoadGuardPack
<1>4. CASE AskEligibility
  <2>1. phase = "eligibility" /\ phase' = "cohort" /\ eligible' = registry
        /\ UNCHANGED <<request, pack, registry, adjustments, cohort, plan, kernel, bundle>>
    BY <1>4 DEF AskEligibility
  <2>2. bundle = {}
    BY <1>0, <2>1 DEF ResolutionTypeOK
  <2>3. ResolutionTypeOK'
    BY <1>0, <2>1, <2>2 DEF ResolutionTypeOK
  <2>4. Settled'
    BY <1>0, <2>1, <2>2 DEF Settled
  <2> QED BY <2>1, <2>2, <2>3, <2>4, PhaseStep
<1>5. CASE RegistryUpdated
  <2>1. phase \in {"eligibility", "cohort", "advice", "workflows"} /\ phase' = phase
        /\ registry < MaxRegistry /\ registry' = registry + 1
        /\ UNCHANGED <<request, pack, eligible, adjustments, cohort, plan, kernel, bundle>>
    BY <1>5 DEF RegistryUpdated
  <2>2. bundle = {}
    BY <1>0, <2>1 DEF ResolutionTypeOK
  <2>3. registry' \in 1..MaxRegistry /\ eligible \in 0..registry'
    BY <1>0, <2>1 DEF ResolutionTypeOK
  <2>4. ResolutionTypeOK'
    BY <1>0, <2>1, <2>2, <2>3 DEF ResolutionTypeOK
  <2>5. Settled'
    BY <1>0, <2>1, <2>2 DEF Settled
  <2> QED BY <2>1, <2>2, <2>4, <2>5, PhaseStep
<1>6. CASE AssignExperiment
  <2>1. CASE /\ phase = "cohort" /\ phase' = "advice"
             /\ \/ cohort' = "none"
                \/ \E experiment \in Experiments, drawn \in BOOLEAN :
                      cohort' = AssignCohort(experiment, drawn)
             /\ UNCHANGED <<request, pack, registry, eligible, plan, kernel, bundle>>
    <3>1. bundle = {}
      BY <1>0, <2>1 DEF ResolutionTypeOK
    <3>2. cohort' \in {"none", "holdout", "control", "treatment"}
      BY <2>1 DEF Experiments, AssignCohort
    <3>3. ResolutionTypeOK'
      BY <1>0, <2>1, <3>1, <3>2 DEF ResolutionTypeOK
    <3>4. Settled'
      BY <1>0, <2>1, <3>1 DEF Settled
    <3> QED BY <2>1, <3>1, <3>3, <3>4, PhaseStep
  <2> QED BY <1>a, <1>6, <2>1 DEF AssignExperiment
<1>7. CASE ResolveAdvice
  <2>1. CASE /\ phase = "advice" /\ phase' = "workflows" /\ \A a \in adjustments' : Adaptive(a)
             /\ UNCHANGED <<request, pack, registry, eligible, cohort, plan, kernel, bundle>>
    <3>1. bundle = {}
      BY <1>0, <2>1 DEF ResolutionTypeOK
    <3>2. ResolutionTypeOK'
      BY <1>0, <2>1, <3>1 DEF ResolutionTypeOK
    <3>3. Settled'
      BY <1>0, <2>1, <3>1 DEF Settled
    <3> QED BY <2>1, <3>1, <3>2, <3>3, PhaseStep
  <2> QED BY <1>a, <1>7, <2>1 DEF ResolveAdvice
<1>8. CASE PlanWorkflows
  <2>1. CASE /\ phase = "workflows" /\ phase' = "kernel"
             /\ UNCHANGED <<request, pack, registry, eligible, adjustments, cohort, kernel, bundle>>
    <3>1. bundle = {}
      BY <1>0, <2>1 DEF ResolutionTypeOK
    <3>2. ResolutionTypeOK'
      BY <1>0, <2>1, <3>1 DEF ResolutionTypeOK
    <3>3. Settled'
      BY <1>0, <2>1, <3>1 DEF Settled
    <3> QED BY <2>1, <3>1, <3>2, <3>3, PhaseStep
  <2> QED BY <1>a, <1>8, <2>1 DEF PlanWorkflows
<1>9. CASE ComposeKernel
  <2>1. CASE /\ phase = "kernel" /\ phase' = "guards" /\ Expand(plan.required) \subseteq Stages
             /\ kernel' = OrderKernel(StagesOf(request.shape, adjustments, plan.required))
             /\ UNCHANGED <<request, pack, registry, eligible, adjustments, cohort, plan, bundle>>
    <3>1. bundle = {}
      BY <1>0, <2>1 DEF ResolutionTypeOK
    <3>2. request.shape \in Shapes /\ \A a \in adjustments : Adaptive(a)
      BY <1>0, <2>1 DEF Settled
    <3>3. ToSet(kernel') \subseteq Stages /\ Len(kernel') <= Cardinality(Stages)
      <4>1. KernelFor(kernel', SelectedStages(request.shape, adjustments) \cup Expand(plan.required))
        BY <2>1, <3>2, KernelFact
      <4> QED BY <4>1 DEF KernelFor
    <3>4. ResolutionTypeOK'
      BY <1>0, <2>1, <3>1, <3>3 DEF ResolutionTypeOK
    <3>5. Settled'
      BY <1>0, <2>1, <3>1, <3>2 DEF Settled
    <3> QED BY <2>1, <3>1, <3>4, <3>5, PhaseStep
  <2> QED BY <1>a, <1>9, <2>1 DEF ComposeKernel, StagesOf
<1>10. CASE CompileGuards
  <2> DEFINE routes == GuardRoutes("suppress")
             applicable == ApplicableGuards(pack, request.facets, request.canaries, routes)
             G == AlwaysOn \cup applicable
  <2>1. CASE /\ phase = "guards" /\ phase' = "resolved"
             /\ \E active \in CompileTaskGuards(G, GuardRoutes("prefer")) :
                   bundle' = {RuntimeBundle(active, routes)}
             /\ UNCHANGED <<request, pack, registry, eligible, adjustments, cohort, plan, kernel>>
    <3>1. PICK active \in CompileTaskGuards(G, GuardRoutes("prefer")) :
             bundle' = {RuntimeBundle(active, routes)}
      BY <2>1
    <3>2. applicable \subseteq pack /\ pack \subseteq Artifact
      BY <1>0 DEF ApplicableGuards, ResolutionTypeOK
    <3>3. G \in SUBSET Guards
      BY <3>2 DEF Guards
    <3>4. PICK R \in SUBSET G : active \in WithinBudget(R, GuardRoutes("prefer"))
      <4> HIDE DEF G
      <4> QED BY <3>3, CompiledSubset
    <3>5. R \in SUBSET Guards
      BY <3>3
    <3>6. active \subseteq AlwaysOn \/ Cost(active) <= TokenBudget
      <4> HIDE DEF G
      <4> QED BY <3>4, <3>5, BudgetFact
    <3>7. active \subseteq G
      <4> HIDE DEF G
      <4> QED BY <3>4 DEF WithinBudget
    <3>8. ASSUME NEW b \in bundle'
          PROVE  /\ b.guards = active /\ b.kernel = kernel /\ b.workflows = plan
                 /\ \A g \in AlwaysOn \cup pack :
                       b.assignments[g] = Assignment(g, request.facets, request.canaries, routes)
      <4>1. b = RuntimeBundle(active, routes)
        BY <3>1
      <4> HIDE DEF routes
      <4> QED BY <4>1 DEF RuntimeBundle, EffectivePolicy
    <3>9. ASSUME NEW g \in active \ AlwaysOn
          PROVE  Assignment(g, request.facets, request.canaries, routes) = "treatment"
      <4>1. g \in applicable
        BY <3>7
      <4> HIDE DEF routes
      <4> QED BY <4>1, TreatmentFact
    <3>10. active \subseteq AlwaysOn \cup pack
      BY <3>2, <3>7
    <3> HIDE DEF G, applicable, routes
    <3>11. ActiveIsTreatment'
      BY <3>8, <3>9, <3>10 DEF ActiveIsTreatment
    <3>12. BudgetHolds'
      BY <3>6, <3>8 DEF BudgetHolds
    <3>13. Settled'
      BY <1>0, <2>1, <3>8 DEF Settled
    <3>14. bundle' # {}
      BY <3>1
    <3>15. ResolutionTypeOK'
      BY <1>0, <2>1, <3>8, <3>10, <3>14 DEF ResolutionTypeOK
    <3> QED BY <3>11, <3>12, <3>13, <3>15 DEF ResolutionInd
  <2> QED BY <1>a, <1>10, <2>1 DEF CompileGuards
<1>11. CASE UNCHANGED resolutionVars
  BY <1>11 DEF resolutionVars, ResolutionInd, ResolutionTypeOK, Settled, BudgetHolds, ActiveIsTreatment
<1> QED BY <1>1, <1>2, <1>3, <1>4, <1>5, <1>6, <1>7, <1>8, <1>9, <1>10, <1>11 DEF ResolutionNext

(* For every pipeline without cycles, every guard pack, profile, experiment and advice:
   the kernel of a resolved task is the least set of stages closed under the manifest's
   requirements, in its order; adaptation takes ward and sispis from no profile and adds
   no stage of its own; optional guards fit the budget, and what runs is what is reported
   as the experiment's exposure (compose_task_kernel, validate_adaptive_adjustment,
   compile_task_guards, resolve_task_guards). *)
THEOREM ResolutionIsBounded == ResolutionSpec => []ResolutionInv
<1> QED BY ResolutionStart, ResolutionStep, ResolutionImplied, PTL DEF ResolutionSpec

-----------------------------------------------------------------------------
(* What the run explores are behaviors of resolve() and of the store, so that the theorems
   above hold of the run's specification as well. *)
LEMMA RunIsBoth == MCSpec => ResolutionSpec /\ Store!StoreSpec
<1>1. MCInit => ResolutionInit /\ Store!StoreInit
  BY DEF MCInit
<1>2. [MCNext]_<<part, resolutionVars, storeVars>>
         => [ResolutionNext]_resolutionVars /\ [Store!StoreNext]_(Store!storeVars)
  BY DEF MCNext, storeVars, Store!storeVars
<1> QED BY <1>1, <1>2, PTL DEF MCSpec, ResolutionSpec, Store!StoreSpec
=============================================================================
