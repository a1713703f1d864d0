-------------------------- MODULE PolicySnapshotStore --------------------------
(* The files a starting session leaves under the runtime state directory:       *)
(* write_snapshot and write_task_manifest of resolver/api.py, called at the end *)
(* of initialize_runtime_session, for several sessions of one attempt.  The     *)
(* policy artifact is named by the policy hash and written under a file lock;   *)
(* the task snapshot is named by policy hash and attempt identity, so sessions  *)
(* of one attempt share it, and is looked for and then replaced without a lock; *)
(* the manifest is named by the session.                                        *)
(*                                                                              *)
(* A bundle is a record: hash is its policy hash; document is the part of the   *)
(* policy artifact the hash does not determine (a routing profile's lifecycle   *)
(* revision, timestamps and observations); envelope is the rest of the task     *)
(* projection (the times of an advice exchange among it); intact says that its  *)
(* content is what its policy pins.                                             *)
EXTENDS Naturals, FiniteSets

CONSTANTS
    Starters,       \* sessions of one attempt that are started or resumed
    Bundles,        \* what resolve() may return for the attempt
    MaxStarts       \* bound: starts and resumes of one session

VARIABLES
    policies,       \* policy hash -> {} or the document of its artifact
    snapshots,      \* policy hash -> {} or the bundle in the attempt's snapshot
    manifests,      \* session -> {} or the bundle its manifest joins
    journal,        \* session -> {} or the policy hash its journal is bound to
    held,           \* session -> {} or the bundle it is started with
    at,             \* session -> how far its start has come
    starts,         \* starts and resumes so far
    raced           \* history: hashes whose snapshot was replaced by another one

storeVars == <<policies, snapshots, manifests, journal, held, at, starts, raced>>

Hashes == {b.hash : b \in Bundles}

StoreConstants ==
    /\ MaxStarts \in Nat
    /\ \A b \in Bundles : b.intact \in BOOLEAN

StoreInit ==
    /\ policies = [h \in Hashes |-> {}] /\ snapshots = [h \in Hashes |-> {}]
    /\ manifests = [s \in Starters |-> {}] /\ journal = [s \in Starters |-> {}] /\ held = [s \in Starters |-> {}]
    /\ at = [s \in Starters |-> "down"] /\ starts = [s \in Starters |-> 0] /\ raced = {}

Goes(s, place) == at' = [at EXCEPT ![s] = place]

(* A session is started, which binds its new journal to the policy, or resumed
   with what resolve() returns this time; the replay refuses another policy. *)
StartSession(s) ==
    /\ at[s] = "down" /\ starts[s] < MaxStarts
    /\ \E b \in Bundles :
          /\ journal[s] \in {{}, {b.hash}}
          /\ journal' = [journal EXCEPT ![s] = {b.hash}]
          /\ held' = [held EXCEPT ![s] = {b}]
    /\ starts' = [starts EXCEPT ![s] = @ + 1]
    /\ Goes(s, "policy")
    /\ UNCHANGED <<policies, snapshots, manifests, raced>>

FaultyAgrees(stored, wanted) == TRUE

(* A file that is there must say what would be written. *)
Agrees(stored, wanted) == stored \in {{}, {wanted}}

(* The policy artifact, compared or created while the lock of its hash is held. *)
WritePolicy(s) ==
    /\ at[s] = "policy"
    /\ \E b \in held[s] :
          \/ /\ Agrees(policies[b.hash], b.document)
             /\ policies' = [policies EXCEPT ![b.hash] = {b.document}]
             /\ Goes(s, "verify")
          \/ /\ ~Agrees(policies[b.hash], b.document)
             /\ Goes(s, "refused")
             /\ UNCHANGED policies
    /\ UNCHANGED <<snapshots, manifests, journal, held, starts, raced>>

(* _policy_from_bundle: only now is the bundle compared with its own policy. *)
PolicyFromBundle(b) == b.intact

(* An existing snapshot must agree; an absent one will be written. *)
CheckSnapshot(s) ==
    /\ at[s] = "verify"
    /\ \E b \in held[s] :
          \/ ~PolicyFromBundle(b) /\ Goes(s, "refused")
          \/ PolicyFromBundle(b) /\ snapshots[b.hash] = {} /\ Goes(s, "snapshot")
          \/ PolicyFromBundle(b) /\ snapshots[b.hash] = {b} /\ Goes(s, "manifest")
          \/ /\ PolicyFromBundle(b) /\ ~Agrees(snapshots[b.hash], b)
             /\ Goes(s, "refused")
    /\ UNCHANGED <<policies, snapshots, manifests, journal, held, starts, raced>>

(* os.replace over whatever is there by now. *)
Replaced(hash, b) == [snapshots EXCEPT ![hash] = {b}]

WriteSnapshot(s) ==
    /\ at[s] = "snapshot"
    /\ \E b \in held[s] :
          /\ snapshots' = Replaced(b.hash, b)
          /\ raced' = IF Agrees(snapshots[b.hash], b) THEN raced ELSE raced \union {b.hash}
    /\ Goes(s, "manifest")
    /\ UNCHANGED <<policies, manifests, journal, held, starts>>

FaultyManifestAccepted(s, b) == manifests[s] = {} \/ \A m \in manifests[s] : m.hash = b.hash

(* write_task_manifest: the manifest holds the policy and what was pinned with
   it, except the freeze time; the session's own earlier one must be the same. *)
ManifestAccepted(s, b) == Agrees(manifests[s], b)

WriteManifest(s) ==
    /\ at[s] = "manifest"
    /\ \E b \in held[s] :
          \/ /\ ManifestAccepted(s, b)
             /\ manifests' = [manifests EXCEPT ![s] = IF @ = {} THEN {b} ELSE @]
             /\ Goes(s, "started")
          \/ /\ ~ManifestAccepted(s, b)
             /\ Goes(s, "refused")
             /\ UNCHANGED manifests
    /\ UNCHANGED <<policies, snapshots, journal, held, starts, raced>>

(* The process ends, in the middle of the start or later; a temporary file is
   all it can leave besides the files above. *)
StopSession(s) ==
    /\ at[s] # "down"
    /\ held' = [held EXCEPT ![s] = {}]
    /\ Goes(s, "down")
    /\ UNCHANGED <<policies, snapshots, manifests, journal, starts, raced>>

StoreNext ==
    \E s \in Starters :
        \/ StartSession(s) \/ WritePolicy(s) \/ CheckSnapshot(s)
        \/ WriteSnapshot(s) \/ WriteManifest(s) \/ StopSession(s)

StoreSpec == StoreInit /\ [][StoreNext]_storeVars

-----------------------------------------------------------------------------
(* Types, and one content per file. *)
StoreTypeOK ==
    /\ \A h \in Hashes : /\ policies[h] \subseteq {b.document : b \in Bundles}
                         /\ snapshots[h] \subseteq Bundles
                         /\ Cardinality(policies[h]) <= 1 /\ Cardinality(snapshots[h]) <= 1
    /\ \A s \in Starters : /\ manifests[s] \subseteq Bundles /\ held[s] \subseteq Bundles
                           /\ Cardinality(held[s]) = IF at[s] = "down" THEN 0 ELSE 1
                           /\ starts[s] \in 0..MaxStarts
                           /\ \A b \in held[s] \union manifests[s] : journal[s] = {b.hash}
    /\ raced \subseteq Hashes

(* A policy hash means one artifact for good: whatever sessions are started,
   refused, stopped and resumed, a stored artifact is never replaced. *)
ArtifactsKept == \A h \in Hashes : policies[h] # {} => policies'[h] = policies[h]

PolicyArtifactImmutable == [][ArtifactsKept]_storeVars

(* What a started session runs is on disk: its artifact, its manifest, and its
   snapshot unless two sessions of the attempt wrote different ones at once. *)
StartedIsOnRecord ==
    \A s \in Starters : at[s] = "started" =>
        \A b \in held[s] :
            /\ policies[b.hash] = {b.document} /\ manifests[s] = {b} /\ b.intact
            /\ b.hash \in raced \/ snapshots[b.hash] = {b}

(* Every manifest joins telemetry to a policy whose artifact exists and to a
   bundle that was intact, even after the session was refused on a resume. *)
ManifestsAreBacked ==
    \A s \in Starters : \A b \in manifests[s] :
        policies[b.hash] = {b.document} /\ b.intact /\ snapshots[b.hash] # {}
=============================================================================
