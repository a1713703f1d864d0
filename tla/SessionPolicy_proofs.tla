--------------------------- MODULE SessionPolicy_proofs ---------------------------
(***************************************************************************)
(* The component overlays of an external authority, the installation and   *)
(* the standalone behavior, proved for any stages, projections,            *)
(* registries, releases, criteria, actions, routes, limits and bounds.     *)
(***************************************************************************)
EXTENDS MCSessionPolicy, FiniteSetTheorems, WellFoundedInduction, TLAPS

-----------------------------------------------------------------------------
(* The overlay in force is that of the projection reported, a rollback leads to a
   projection that was in force, and the stages shown are the active ones. *)
OverlayInd ==
    /\ index \in Nat
    /\ projection \in Projections \cup {NoProjection}
    /\ batch.prior \in Projections \cup {NoProjection}
    /\ overlay = Overlay(projection)
    /\ ReportedIsInForce

(* No projection is the overlay of none. *)
LEMMA OverlayOfNone == Overlay(NoProjection) = NoOverlay
BY DEF Overlay, NoProjection, NoOverlay

(* The leases of what is in force have integer bounds. *)
LEMMA LeasesTyped ==
    ASSUME OverlayInd
    PROVE  \A l \in overlay.leases : l.expires \in Nat
BY LifecycleAssumption DEF OverlayInd, Overlay, NoProjection

(* As long as no lease runs out, what is permitted stays. *)
LEMMA SameUntilExpiry ==
    ASSUME OverlayInd, NEW i \in Nat, i > index, ~Expires(i)
    PROVE  Active(lc, overlay, i) = Active(lc, overlay, index)
<1>1. ASSUME NEW target, NEW unleased
      PROVE  Leased(overlay, i, target, unleased) = Leased(overlay, index, target, unleased)
  <2> DEFINE leases == {l \in overlay.leases : l.target = target}
             Value(live) ==
                IF leases = {} THEN unleased
                ELSE IF live # {}
                     THEN (CHOOSE l \in live : \A m \in live : Newer(l, m)).applied
                     ELSE (CHOOSE l \in leases : \A m \in leases : Newer(m, l)).previous
             Live(j) == {l \in leases : j <= l.expires}
  <2>1. Live(i) = Live(index)
    <3>1. ASSUME NEW l \in overlay.leases
          PROVE  i <= l.expires <=> index <= l.expires
      <4>1. l.expires \in Nat /\ index \in Nat
        BY LeasesTyped DEF OverlayInd
      <4> QED BY <4>1 DEF Expires
    <3> QED BY <3>1
  <2>2. \A j : Leased(overlay, j, target, unleased) = Value(Live(j))
    BY Zenon DEF Leased
  <2> HIDE DEF Value, Live
  <2> QED BY <2>1, <2>2
<1>2. \A s : StagePermitted(overlay, i, lc.startup, s) = StagePermitted(overlay, index, lc.startup, s)
  BY <1>1 DEF StagePermitted, ComponentMode
<1> QED BY <1>2 DEF Active

(* Without an overlay every stage in use is active. *)
LEMMA AllWithoutOverlay ==
    ASSUME NEW l, NEW i
    PROVE  Active(l, NoOverlay, i) = InUse(l)
BY DEF Active, StagePermitted

(* Applying a projection puts its overlay in force. *)
LEMMA MaterializeStep ==
    ASSUME OverlayInd, NEW p \in Projections \cup {NoProjection}, Materialize(p), batch' = batch \/ batch' = NoBatch
    PROVE  OverlayInd' /\ index' >= index
<1>1. p.index \in Nat
  BY LifecycleAssumption DEF NoProjection
<1>2. index' \in Nat /\ index' >= index
  BY <1>1 DEF Materialize, Show, Larger, OverlayInd
<1>3. /\ projection' = p /\ overlay' = Overlay(p) /\ transition'.overlay = Overlay(p)
      /\ active' = Active(lc', overlay', index')
  BY DEF Materialize, Show
<1>4. batch'.prior \in Projections \cup {NoProjection}
  BY DEF OverlayInd, NoBatch
<1> QED
  BY <1>2, <1>3, <1>4, OverlayOfNone DEF OverlayInd, ReportedIsInForce

(* So does undoing the last transition, which leads back to the projection before. *)
LEMMA RollbackStep ==
    ASSUME OverlayInd, NEW p \in Projections \cup {NoProjection}, NEW expected,
           Rollback(p, expected), batch' = batch \/ batch' = NoBatch
    PROVE  OverlayInd' /\ index' >= index
<1>1. CASE Materialize(p)
  BY <1>1, MaterializeStep
<1>2. CASE /\ transition.previous = Overlay(p) /\ Show(transition.state, transition.previous, index)
           /\ projection' = p /\ transition' = NoTransition
  <2>1. batch'.prior \in Projections \cup {NoProjection}
    BY DEF OverlayInd, NoBatch
  <2> QED BY <1>2, <2>1, OverlayOfNone DEF OverlayInd, ReportedIsInForce, Show
<1> QED BY <1>1, <1>2 DEF Rollback

(* Steps of the session keep projection, overlay and rollback record. *)
LEMMA SessionStep ==
    ASSUME OverlayInd, projection' = projection, overlay' = overlay, transition' = transition,
           batch' = batch, index' \in Nat, index' >= index,
           active' = Active(lc', overlay', index')
    PROVE  OverlayInd' /\ index' >= index
BY DEF OverlayInd, ReportedIsInForce

(* Every action keeps what is reported in force, and turns the action index back
   only by a restart. *)
LEMMA OverlayStep ==
    ASSUME OverlayInd, [Next]_vars
    PROVE  OverlayInd' /\ (index' >= index \/ Restart)
<1>0. index \in Nat /\ index >= index /\ active = Active(lc, overlay, index)
  BY DEF OverlayInd, ReportedIsInForce
<1>1. ASSUME NEW l, Session(l)
      PROVE  OverlayInd' /\ index' >= index
  BY <1>0, <1>1, SessionStep DEF Session, Show, adapter
<1>2. CASE BindAuthority
  BY <1>0, <1>2, SessionStep DEF BindAuthority
<1>3. CASE Restart
  <2>1. /\ projection' = NoProjection /\ overlay' = NoOverlay /\ index' = 0
        /\ transition' = NoTransition /\ active' = InUse(lc') /\ batch' = NoBatch
    BY <1>3 DEF Restart, Fresh
  <2>2. active' = Active(lc', overlay', index')
    BY <2>1, AllWithoutOverlay
  <2> QED BY <1>3, <2>1, <2>2, OverlayOfNone DEF OverlayInd, ReportedIsInForce, NoBatch
<1>4. ASSUME NEW ds \in Batches, PrepareBatch(ds)
      PROVE  OverlayInd' /\ index' >= index
  <2>1. batch'.prior = projection
    BY <1>4 DEF PrepareBatch
  <2> QED BY <1>0, <1>4, <2>1 DEF PrepareBatch, OverlayInd, ReportedIsInForce
<1>5. ASSUME NEW p \in Projections, ApplyProjection(p) \/ SynchronizeProjection(p)
      PROVE  OverlayInd' /\ index' >= index
  BY <1>5, MaterializeStep DEF ApplyProjection, SynchronizeProjection
<1>6. ASSUME RollbackBatch
      PROVE  OverlayInd' /\ index' >= index
  <2>1. CASE RestoreStartup
    BY <1>0, <1>6, <2>1, OverlayOfNone
       DEF RollbackBatch, RestoreStartup, Show, OverlayInd, ReportedIsInForce, NoBatch
  <2>2. CASE Rollback(batch.prior, projection.revision)
    BY <1>6, <2>2, RollbackStep DEF RollbackBatch, OverlayInd
  <2> QED BY <1>6, <2>1, <2>2 DEF RollbackBatch
<1>7. ASSUME NEW p \in Projections, NEW e, RestoreProjection(p, e)
      PROVE  OverlayInd' /\ index' >= index
  BY <1>7, RollbackStep DEF RestoreProjection
<1>8. ASSUME NEW i \in 1..MaxIndex, ExpireLeases(i)
      PROVE  OverlayInd' /\ index' >= index
  <2>1. /\ i \in Nat /\ i > index /\ index' = i /\ lc' = lc /\ overlay' = overlay
        /\ index' >= index
    BY <1>0, <1>8, LifecycleAssumption DEF ExpireLeases
  <2>2. active' = Active(lc', overlay', index')
    BY <1>0, <1>8, <2>1, SameUntilExpiry DEF ExpireLeases
  <2> QED BY <1>8, <2>1, <2>2, SessionStep DEF ExpireLeases
<1>9. ASSUME CompleteAction
      PROVE  OverlayInd' /\ index' >= index
  <2>1. index' = index + 1 /\ index' \in Nat /\ index' >= index
    BY <1>0, <1>9 DEF CompleteAction, Show
  <2> QED BY <1>9, <2>1, SessionStep DEF CompleteAction, Show, adapter
<1>10. ASSUME CompleteSegment
       PROVE  OverlayInd' /\ index' >= index
  BY <1>0, <1>10, SessionStep DEF CompleteSegment, adapter
<1>11. ASSUME AdvanceSegment
       PROVE  OverlayInd' /\ index' >= index
  <2>1. CASE Show(ForSegment(lc), overlay, index)
    BY <1>0, <1>11, <2>1, SessionStep DEF AdvanceSegment, adapter, Show
  <2>2. CASE UNCHANGED <<segment, lc, index, overlay, active>>
    BY <1>0, <1>11, <2>2, SessionStep DEF AdvanceSegment, adapter
  <2> QED BY <1>11, <2>1, <2>2 DEF AdvanceSegment
<1>12. CASE UNCHANGED vars
  BY <1>0, <1>12, SessionStep DEF vars
<1>13. CASE BeforeModelCall
  BY <1>1, <1>13 DEF BeforeModelCall
<1>14. CASE \E risky \in BOOLEAN : BeforeToolPlanning(risky)
  BY <1>1, <1>14 DEF BeforeToolPlanning
<1>15. CASE \E risky, allowed \in BOOLEAN : OnAction(risky, allowed)
  BY <1>1, <1>15 DEF OnAction
<1>16. CASE \E flow, durable, changed \in BOOLEAN : OnArtifact(flow, durable, changed)
  BY <1>1, <1>16 DEF OnArtifact
<1>17. CASE ArtifactProcessed
  BY <1>1, <1>17 DEF ArtifactProcessed
<1>18. CASE RenderFinal
  BY <1>1, <1>18 DEF RenderFinal
<1> QED
  BY <1>2, <1>3, <1>4, <1>5, <1>6, <1>7, <1>8, <1>9, <1>10, <1>11, <1>12, <1>13, <1>14,
     <1>15, <1>16, <1>17, <1>18 DEF Next

(* The invariant holds at the start. *)
LEMMA OverlayStart == Init => OverlayInd
<1> SUFFICES ASSUME Init PROVE OverlayInd
  OBVIOUS
<1>1. active = Active(lc, overlay, index)
  BY AllWithoutOverlay DEF Init
<1> QED BY <1>1, OverlayOfNone DEF Init, OverlayInd, ReportedIsInForce, NoBatch

(* The overlay in force is the projection the session reports, the rollback record is
   about that overlay, and the stages shown to the model are the controller's, for
   every kernel and every set of projections the authority may offer
   (_materialize_external_behavior_projection, rollback_external_behavior_projection,
   expire_external_behavior_leases). *)
THEOREM ReportIsInForce == Spec => []ReportedIsInForce
<1>1. OverlayInd /\ [Next]_vars => OverlayInd'
  BY OverlayStep
<1>2. OverlayInd => ReportedIsInForce
  BY DEF OverlayInd
<1> QED BY <1>1, <1>2, OverlayStart, PTL DEF Spec

(* While the process runs an expired lease never becomes live again
   (synchronize_action_index, expire_behavior_leases). *)
THEOREM LeaseExpiryIsFinal == Spec => ExpiredStaysExpired
<1>1. OverlayInd /\ [Next]_vars => OverlayInd'
  BY OverlayStep
<1>2. OverlayInd /\ OverlayInd' /\ [Next]_vars => [ExpiredKept]_vars
  <2> SUFFICES ASSUME OverlayInd, OverlayInd', [Next]_vars, bound', NEW l \in overlay.leases,
                      l.expires < index
               PROVE  l.expires < index'
    BY DEF ExpiredKept
  <2>1. ~Restart
    BY DEF Restart, Fresh
  <2>2. index' >= index /\ index \in Nat /\ index' \in Nat /\ l.expires \in Nat
    BY <2>1, OverlayStep, LeasesTyped DEF OverlayInd
  <2> QED BY <2>2
<1> QED BY <1>1, <1>2, OverlayStart, PTL DEF Spec, ExpiredStaysExpired
-----------------------------------------------------------------------------
(* What a journal or a manifest may hold for some of the files. *)
Partial == UNION {[S -> Installer!Content] : S \in SUBSET Installer!Files}

(* A release, or none. *)
Releases0 == Installer!Releases \cup {0}

(* Manifests that the installer reads or writes. *)
Manifests == [owner : {"none", "other", "cfw"}, paths : SUBSET Installer!Files, digests : Partial]

(* What a registry may look like on disk. *)
RegistrySet == [disk : [Installer!Files -> Installer!Content], dirs : SUBSET Installer!Dirs,
                runtime : Releases0, backup : Releases0, manifest : Manifests]

(* The steps of an install that has begun with a registry. *)
Begun == {"copy", "backup", "aside", "publish", "drop", "cleanup", "commit", "unwind"}

(* The states of the installer process. *)
Processes == [pc : Begun \cup {"idle", "next"}, todo : Seq(Registries),
              reg : Registries \cup {"none"}, release : Releases0, replace : BOOLEAN,
              prev : Manifests, next : Nat \ {0}, owned : SUBSET Installer!Files,
              files : Partial, manifest : Manifests, runtime : Releases0,
              outcome : {"none", "committed", "restored"}]

(* Every variable has its type, a process at work has a release, and one that has begun
   has a registry. *)
InstallTyped ==
    /\ site \in [Registries -> RegistrySet]
    /\ inst \in Processes
    /\ before \in RegistrySet
    /\ touched \in SUBSET Registries /\ crashed \in SUBSET Registries
    /\ exposed \in SUBSET Registries
    /\ fresh \in [Registries -> Releases0]
    /\ edits \in 0..MaxEdits
    /\ inst.pc # "idle" => inst.release \in Installer!Releases
    /\ inst.owned \subseteq IF inst.pc = "idle" THEN {} ELSE Installer!ShipSet(inst.release)
    /\ inst.pc \in Begun => inst.reg \in Registries

(* The manifest records this content of a file. *)
Recorded(m, f, content) == f \in DOMAIN m.digests /\ m.digests[f] = content

(* Digests are of paths in the manifest, and none is of an edit made at rest. *)
ManifestInv(m) ==
    /\ DOMAIN m.digests \subseteq m.paths
    /\ \A f \in DOMAIN m.digests : m.digests[f] \notin quiet /\ m.digests[f] >= -edits

(* What an undisturbed registry looks like: the manifest is that of the runtime in
   place and records every file that an install wrote. *)
Coherent(reg) ==
    /\ reg.manifest.paths = IF reg.runtime = 0 THEN {} ELSE Installer!ShipSet(reg.runtime)
    /\ \A f \in Installer!Files :
          reg.disk[f] > 0 => Recorded(reg.manifest, f, reg.disk[f])

(* A registry holds a whole release. *)
Whole(reg, release) ==
    /\ reg.runtime = release
    /\ \A f \in Installer!ShipSet(release) : reg.disk[f] = release

(* A registry that no install has begun with. *)
AtRest(r) ==
    /\ r \notin crashed => Coherent(site[r])
    /\ r \notin exposed /\ site[r].manifest.owner = "cfw" => site[r].runtime # 0
    /\ fresh[r] # 0 => Whole(site[r], fresh[r])

(* What the process captured is what it found, for every file it may have changed. *)
CaptureInv ==
    /\ inst.manifest = before.manifest /\ inst.prev = before.manifest
    /\ inst.runtime = before.runtime
    /\ inst.prev.paths \cup inst.owned \subseteq DOMAIN inst.files
    /\ inst.reg \notin touched =>
          \A f \in Installer!Files :
             IF f \in DOMAIN inst.files THEN inst.files[f] = before.disk[f]
             ELSE site[inst.reg].disk[f] = before.disk[f]
    /\ inst.reg \notin exposed /\ inst.manifest.owner = "cfw" => inst.runtime # 0
    /\ fresh[inst.reg] # 0 => inst.reg \notin touched /\ Whole(before, fresh[inst.reg])

(* Files of an install stand in the manifest it found or are its own. *)
OriginInv ==
    inst.reg \notin crashed =>
       /\ inst.manifest.paths =
             IF inst.runtime = 0 THEN {} ELSE Installer!ShipSet(inst.runtime)
       /\ \A f \in DOMAIN inst.files :
             inst.files[f] > 0 => Recorded(inst.manifest, f, inst.files[f])
       /\ \A f \in Installer!Files \ inst.owned :
             site[inst.reg].disk[f] > 0 => Recorded(inst.manifest, f, site[inst.reg].disk[f])
       /\ inst.pc = "commit" => Coherent(site[inst.reg])

(* How far the install is. *)
ProgressInv ==
    /\ inst.pc = "copy" => \A k \in DOMAIN Shipped[inst.release] :
          k < inst.next => Shipped[inst.release][k] \in inst.owned
    /\ inst.pc \notin {"copy", "unwind"} => inst.owned = Installer!ShipSet(inst.release)
    /\ inst.pc \in {"drop", "cleanup", "commit"} => site[inst.reg].runtime = inst.release
    /\ inst.pc \notin {"publish", "unwind"} =>
          \/ inst.reg \in exposed
          \/ site[inst.reg].manifest.owner = "cfw" => site[inst.reg].runtime # 0
    /\ inst.pc # "unwind" /\ inst.reg \notin touched =>
          \A f \in inst.owned : site[inst.reg].disk[f] = inst.release

(* An edit made at rest is still there, captured as it is, or was replaced. *)
EditInv ==
    /\ \A f \in inst.owned : site[inst.reg].disk[f] \notin quiet
    /\ \A f \in DOMAIN inst.files :
          /\ inst.files[f] >= -edits
          /\ site[inst.reg].disk[f] \in quiet => inst.files[f] = site[inst.reg].disk[f]

(* The inductive invariant of the installer. *)
InstallInd ==
    /\ InstallTyped
    /\ quiet \in SUBSET Int /\ \A q \in quiet : q < 0 /\ q >= -edits
    /\ \A r \in Registries :
          /\ ManifestInv(site[r].manifest)
          /\ \A f \in Installer!Files : site[r].disk[f] >= -edits
          /\ inst.pc \notin Begun \/ inst.reg # r => AtRest(r)
    /\ inst.pc \in Begun =>
          /\ ManifestInv(inst.manifest)
          /\ CaptureInv /\ OriginInv /\ ProgressInv /\ EditInv
    /\ inst.outcome = "restored" => inst.pc = "idle" /\ inst.reg \in Registries
    /\ Installer!FailedInstallRestores
-----------------------------------------------------------------------------
(* What the constants of the installer give. *)
LEMMA InstallFacts ==
    /\ \A r \in Installer!Releases :
          /\ r \in Nat /\ r > 0 /\ r \in Installer!Content
          /\ Shipped[r] \in Seq(Installer!Files) /\ Installer!ShipSet(r) \subseteq Installer!Files
          /\ \A k \in DOMAIN Shipped[r] : Shipped[r][k] \in Installer!ShipSet(r)
          /\ \A f \in Installer!ShipSet(r) : \E k \in DOMAIN Shipped[r] : f = Shipped[r][k]
    /\ 0 \in Installer!Content /\ Installer!Content \subseteq Int
    /\ \A e \in 0..MaxEdits : e < MaxEdits => -(e + 1) \in Installer!Content
    /\ \A f \in Installer!Files : f[1] \in Installer!Dirs
    /\ MaxEdits \in Nat
<1>1. Installer!InstallerConstants
  BY InstallerAssumption
<1>2. /\ MaxEdits \in Nat
      /\ \A r \in Installer!Releases : r \in Nat \ {0} /\ Shipped[r] \in Seq(Installer!Files)
  BY <1>1 DEF Installer!InstallerConstants
<1>3. \A r \in Installer!Releases :
         /\ Installer!ShipSet(r) \subseteq Installer!Files
         /\ \A k \in DOMAIN Shipped[r] : Shipped[r][k] \in Installer!ShipSet(r)
         /\ \A f \in Installer!ShipSet(r) : \E k \in DOMAIN Shipped[r] : f = Shipped[r][k]
  BY DEF Installer!Files, Installer!ShipSet, Installer!Range
<1>4. /\ 0 \in Installer!Content /\ Installer!Content \subseteq Int
      /\ \A e \in 0..MaxEdits : e < MaxEdits => -(e + 1) \in Installer!Content
      /\ \A r \in Installer!Releases : r \in Installer!Content
  BY <1>2 DEF Installer!Content
<1>5. \A f \in Installer!Files : f[1] \in Installer!Dirs
  BY DEF Installer!Dirs
<1> QED BY <1>2, <1>3, <1>4, <1>5

(* The blank values are well typed. *)
LEMMA BlankTyped ==
    /\ Installer!Nothing \in Partial /\ DOMAIN Installer!Nothing = {}
    /\ Installer!NoManifest \in Manifests /\ Installer!ForeignManifest \in Manifests
    /\ Installer!NewRegistry(Installer!NoManifest) \in RegistrySet
    /\ Installer!NewRegistry(Installer!ForeignManifest) \in RegistrySet
    /\ Installer!NoInstall \in Processes
<1>1. Installer!Nothing \in Partial /\ DOMAIN Installer!Nothing = {}
  BY DEF Partial, Installer!Nothing
<1>2. Installer!NoManifest \in Manifests /\ Installer!ForeignManifest \in Manifests
  BY <1>1 DEF Manifests, Installer!NoManifest, Installer!ForeignManifest
<1>3. /\ Installer!NewRegistry(Installer!NoManifest) \in RegistrySet
      /\ Installer!NewRegistry(Installer!ForeignManifest) \in RegistrySet
  BY <1>2, InstallFacts DEF RegistrySet, Installer!NewRegistry, Releases0
<1>4. Installer!NoInstall \in Processes
  BY <1>1, <1>2 DEF Processes, Installer!NoInstall, Releases0, Begun
<1> QED BY <1>1, <1>2, <1>3, <1>4

(* Every action of the installer keeps the state well typed. *)
LEMMA InstallTypeStep ==
    ASSUME InstallTyped, [Installer!Next]_(Installer!vars)
    PROVE  InstallTyped'
<1> USE DEF InstallTyped
<1>0. site \in [Registries -> RegistrySet] /\ inst \in Processes
  OBVIOUS
<1>1. ASSUME NEW targets \in Installer!Targets, NEW release \in Installer!Releases,
             NEW replace \in BOOLEAN, Installer!StartInstall(targets, release, replace)
      PROVE  InstallTyped'
  <2>1. targets \in Seq(Registries)
    <3>1. PICK n \in 1..Cardinality(Registries) : targets \in [1..n -> Registries]
      BY DEF Installer!Targets, Installer!Cardinality, Cardinality
    <3>2. n \in Nat
      BY <3>1
    <3> QED BY <3>1, <3>2
  <2>2. inst' = [Installer!NoInstall EXCEPT !.pc = "next", !.todo = targets,
                                            !.release = release, !.replace = replace]
    BY <1>1 DEF Installer!StartInstall
  <2>3. inst' \in Processes
    BY <2>1, <2>2, BlankTyped DEF Processes, Releases0
  <2>4. inst'.pc = "next" /\ inst'.release = release /\ inst'.owned = {}
    BY <2>2 DEF Installer!NoInstall
  <2> QED BY <1>1, <2>3, <2>4 DEF Installer!StartInstall, Installer!history, Begun
<1>2. CASE Installer!SkipRegistry
  <2>1. inst' \in Processes /\ inst'.pc = "next" /\ inst'.release = inst.release
        /\ inst'.owned = inst.owned /\ inst.pc = "next"
    <3>1. Tail(inst.todo) \in Seq(Registries) /\ inst.todo # <<>>
      BY <1>0, <1>2 DEF Installer!SkipRegistry, Processes
    <3>2. inst' = [inst EXCEPT !.todo = Tail(inst.todo)] /\ inst.pc = "next"
      BY <1>2 DEF Installer!SkipRegistry
    <3> QED BY <1>0, <3>1, <3>2 DEF Processes
  <2> QED BY <1>2, <2>1 DEF Installer!SkipRegistry, Installer!history, Installer!counters, Begun
<1>3. ASSUME inst' = Installer!NoInstall, UNCHANGED <<site, Installer!history, Installer!counters>>
      PROVE  InstallTyped'
  BY <1>3, BlankTyped DEF Installer!history, Installer!counters, Begun, Installer!NoInstall
<1>4. CASE Installer!BeginRegistry
  <2> DEFINE r == Head(inst.todo)
             files == [f \in site[r].manifest.paths |-> site[r].disk[f]]
  <2>1. r \in Registries /\ Tail(inst.todo) \in Seq(Registries)
    BY <1>0, <1>4 DEF Installer!BeginRegistry, Processes
  <2>2. site[r] \in RegistrySet /\ site[r].manifest \in Manifests /\ site[r].runtime \in Releases0
    BY <1>0, <2>1 DEF RegistrySet
  <2>3. files \in Partial
    BY <2>2 DEF Partial, RegistrySet, Manifests
  <2>4. inst' = [inst EXCEPT !.pc = "copy", !.todo = Tail(@), !.reg = r,
                    !.prev = site[r].manifest, !.next = 1, !.owned = {}, !.files = files,
                    !.manifest = site[r].manifest, !.runtime = site[r].runtime, !.outcome = "none"]
    BY <1>4 DEF Installer!BeginRegistry, Installer!Captures
  <2> DEFINE rest == Tail(inst.todo)
             m == site[r].manifest
             old == site[r].runtime
  <2>a. inst' = [inst EXCEPT !.pc = "copy", !.todo = rest, !.reg = r, !.prev = m, !.next = 1,
                   !.owned = {}, !.files = files, !.manifest = m, !.runtime = old, !.outcome = "none"]
    BY <2>4
  <2>b. /\ rest \in Seq(Registries) /\ m \in Manifests /\ old \in Releases0
        /\ "copy" \in Begun /\ {} \in SUBSET Installer!Files /\ 1 \in Nat \ {0}
    BY <2>1, <2>2 DEF Begun
  <2>6. inst'.pc = "copy" /\ inst'.owned = {} /\ inst'.reg = r /\ inst'.release = inst.release
    BY <1>0, <2>4 DEF Processes
  <2> HIDE DEF r, files, rest, m, old
  <2>5. inst' \in Processes
    BY <1>0, <2>1, <2>3, <2>a, <2>b DEF Processes
  <2>7. before' \in RegistrySet /\ touched' \in SUBSET Registries
    BY <1>4, <2>2 DEF Installer!BeginRegistry, r
  <2> QED BY <1>4, <2>1, <2>5, <2>6, <2>7 DEF Installer!BeginRegistry, Installer!counters
<1>5. ASSUME NEW pc \in Begun, Installer!Go(pc), inst.pc \in Begun
      PROVE  /\ inst' \in Processes /\ inst'.pc = pc /\ inst'.owned = inst.owned
             /\ inst'.reg = inst.reg /\ inst'.release = inst.release
  BY <1>0, <1>5 DEF Installer!Go, Processes
<1>6. ASSUME inst.pc \in Begun, site' \in [Registries -> RegistrySet], NEW pc \in Begun,
             Installer!Go(pc), UNCHANGED <<Installer!history, Installer!counters>>
      PROVE  InstallTyped'
  BY <1>5, <1>6 DEF Installer!history, Installer!counters, Begun
<1>7. CASE Installer!CopyFile
  <2> DEFINE f == Shipped[inst.release][inst.next]
  <2>1. inst.pc = "copy" /\ inst.release \in Installer!Releases /\ inst.reg \in Registries
        /\ inst.next \in Nat \ {0}
    BY <1>0, <1>7 DEF Installer!CopyFile, Processes, Begun
  <2>2. f \in Installer!Files /\ f \in Installer!ShipSet(inst.release) /\ f[1] \in Installer!Dirs
    <3>1. Shipped[inst.release] \in Seq(Installer!Files)
      BY <2>1, InstallFacts
    <3>2. inst.next \in DOMAIN Shipped[inst.release]
      BY <1>7, <2>1, <3>1 DEF Installer!CopyFile
    <3> QED BY <2>1, <3>2, InstallFacts
  <2>3. site[inst.reg].disk[f] \in Installer!Content
    BY <1>0, <2>1, <2>2 DEF RegistrySet
  <2>4. Installer!Captured(f) \in Partial
    <3>1. inst.files \in Partial
      BY <1>0 DEF Processes
    <3>2. PICK S \in SUBSET Installer!Files : inst.files \in [S -> Installer!Content]
      BY <3>1 DEF Partial
    <3>3. [g \in DOMAIN inst.files \cup {f} |->
              IF g = f THEN site[inst.reg].disk[f] ELSE inst.files[g]]
            \in [S \cup {f} -> Installer!Content]
      BY <2>3, <3>2
    <3>4. S \cup {f} \in SUBSET Installer!Files
      BY <2>2, <3>2
    <3>5. [g \in DOMAIN inst.files \cup {f} |->
              IF g = f THEN site[inst.reg].disk[f] ELSE inst.files[g]] \in Partial
      BY <3>3, <3>4 DEF Partial
    <3> QED BY <3>1, <3>5 DEF Installer!Captured, Installer!Here
  <2>5. /\ inst' = [inst EXCEPT !.next = @ + 1, !.owned = @ \cup {f}, !.files = Installer!Captured(f)]
        /\ site' = [site EXCEPT ![inst.reg].disk[f] = inst.release,
                                ![inst.reg].dirs = @ \cup {f[1]}]
    BY <1>7 DEF Installer!CopyFile, Installer!Written
  <2> DEFINE C == Installer!Captured(f)
             O == inst.owned \cup {f}
             n == inst.next + 1
  <2>a. inst' = [inst EXCEPT !.next = n, !.owned = O, !.files = C]
    BY <2>5
  <2>b. n \in Nat \ {0} /\ O \in SUBSET Installer!Files /\ C \in Partial
    BY <1>0, <2>1, <2>2, <2>4 DEF Processes
  <2> HIDE DEF f, C, n
  <2>6. /\ inst' \in Processes /\ inst'.pc = inst.pc /\ inst'.release = inst.release
        /\ inst'.reg = inst.reg /\ inst'.owned = inst.owned \cup {f}
    BY <1>0, <2>a, <2>b DEF Processes
  <2>7. site' \in [Registries -> RegistrySet]
    <3>1. site[inst.reg] \in RegistrySet /\ inst.release \in Installer!Content
      BY <1>0, <2>1, InstallFacts
    <3>2. [site[inst.reg] EXCEPT !.disk[f] = inst.release, !.dirs = @ \cup {f[1]}] \in RegistrySet
      BY <2>2, <3>1 DEF RegistrySet
    <3>3. site' = [site EXCEPT ![inst.reg] =
                     [site[inst.reg] EXCEPT !.disk[f] = inst.release, !.dirs = @ \cup {f[1]}]]
      BY <1>0, <2>1, <2>5, <3>1 DEF RegistrySet
    <3> QED BY <1>0, <2>1, <3>2, <3>3
  <2> QED BY <1>7, <2>1, <2>2, <2>6, <2>7
          DEF Installer!CopyFile, Installer!history, Installer!counters, Begun
<1>8. ASSUME inst.pc \in Begun, NEW R \in RegistrySet, site' = [site EXCEPT ![inst.reg] = R]
      PROVE  site' \in [Registries -> RegistrySet]
  BY <1>0, <1>8
<1>h. inst.pc \in Begun => site[inst.reg] \in RegistrySet /\ inst.release \in Installer!Releases
  BY <1>0 DEF Begun
<1>9. CASE Installer!CopyRefused
  <2>1. PICK d \in Installer!Dirs : site' = [site EXCEPT ![inst.reg].dirs = @ \cup {d}]
    <3>1. inst.pc = "copy" /\ inst.release \in Installer!Releases /\ inst.next \in Nat \ {0}
      BY <1>0, <1>9 DEF Installer!CopyRefused, Processes, Begun
    <3>2. inst.next \in DOMAIN Shipped[inst.release]
      <4>1. Shipped[inst.release] \in Seq(Installer!Files)
        BY <3>1, InstallFacts
      <4> QED BY <1>9, <3>1, <4>1 DEF Installer!CopyRefused
    <3>3. Shipped[inst.release][inst.next] \in Installer!Files
      BY <3>1, <3>2, InstallFacts
    <3>4. Shipped[inst.release][inst.next][1] \in Installer!Dirs
      BY <3>3, InstallFacts
    <3> QED BY <1>9, <3>4 DEF Installer!CopyRefused
  <2>2. inst.pc \in Begun
    BY <1>9 DEF Installer!CopyRefused, Begun
  <2>3. [site[inst.reg] EXCEPT !.dirs = @ \cup {d}] \in RegistrySet
    BY <1>h, <2>2 DEF RegistrySet
  <2>4. site' \in [Registries -> RegistrySet]
    BY <1>8, <2>1, <2>2, <2>3
  <2>5. "unwind" \in Begun
    BY DEF Begun
  <2> QED BY <1>6, <1>9, <2>2, <2>4, <2>5 DEF Installer!CopyRefused
<1>10. CASE Installer!StageRuntime
  BY <1>0, <1>6, <1>10 DEF Installer!StageRuntime, Begun
<1>11. CASE Installer!RemoveStaleBackup \/ Installer!DropBackup
  <2>1. inst.pc \in Begun /\ site' = [site EXCEPT ![inst.reg].backup = 0]
    BY <1>11 DEF Installer!RemoveStaleBackup, Installer!DropBackup, Begun
  <2>2. [site[inst.reg] EXCEPT !.backup = 0] \in RegistrySet
    BY <1>h, <2>1 DEF RegistrySet, Releases0
  <2>3. site' \in [Registries -> RegistrySet]
    BY <1>8, <2>1, <2>2
  <2> QED BY <1>6, <1>11, <2>1, <2>3 DEF Installer!RemoveStaleBackup, Installer!DropBackup, Begun
<1>12. CASE Installer!SetAside
  <2>1. /\ inst.pc \in Begun
        /\ site' = [site EXCEPT ![inst.reg].backup = site[inst.reg].runtime, ![inst.reg].runtime = 0]
    BY <1>12 DEF Installer!SetAside, Begun, Installer!Here
  <2>2. [site[inst.reg] EXCEPT !.backup = site[inst.reg].runtime, !.runtime = 0] \in RegistrySet
    BY <1>h, <2>1 DEF RegistrySet, Releases0
  <2>3. site' = [site EXCEPT ![inst.reg] =
                   [site[inst.reg] EXCEPT !.backup = site[inst.reg].runtime, !.runtime = 0]]
    BY <1>0, <1>h, <2>1
  <2>4. site' \in [Registries -> RegistrySet]
    BY <1>8, <2>1, <2>2, <2>3
  <2> QED BY <1>6, <1>12, <2>1, <2>4 DEF Installer!SetAside, Begun
<1>13. CASE Installer!Publish
  <2>1. inst.pc \in Begun /\ site' = [site EXCEPT ![inst.reg].runtime = inst.release]
    BY <1>13 DEF Installer!Publish, Begun
  <2>2. [site[inst.reg] EXCEPT !.runtime = inst.release] \in RegistrySet
    BY <1>h, <2>1 DEF RegistrySet, Releases0
  <2>3. site' \in [Registries -> RegistrySet]
    BY <1>8, <2>1, <2>2
  <2> QED BY <1>6, <1>13, <2>1, <2>3 DEF Installer!Publish, Begun
<1>14. CASE Installer!ReplaceFails
  <2> DEFINE old == IF inst.pc = "publish" THEN site[inst.reg].backup ELSE 0
  <2>1. /\ inst.pc \in Begun
        /\ site' = [site EXCEPT ![inst.reg].runtime = old, ![inst.reg].backup = 0]
    BY <1>14 DEF Installer!ReplaceFails, Begun, Installer!Here
  <2>2. old \in Releases0
    BY <1>h, <2>1 DEF RegistrySet, Releases0
  <2> HIDE DEF old
  <2>3. [site[inst.reg] EXCEPT !.runtime = old, !.backup = 0] \in RegistrySet
    BY <1>h, <2>1, <2>2 DEF RegistrySet, Releases0
  <2>4. site' = [site EXCEPT ![inst.reg] = [site[inst.reg] EXCEPT !.runtime = old, !.backup = 0]]
    BY <1>0, <1>h, <2>1
  <2>5. site' \in [Registries -> RegistrySet]
    BY <1>8, <2>1, <2>3, <2>4
  <2> QED BY <1>6, <1>14, <2>1, <2>5 DEF Installer!ReplaceFails, Begun
<1>15. ASSUME NEW f \in Installer!Files, Installer!CleanupFile(f)
       PROVE  InstallTyped'
  <2>1. inst.pc \in Begun /\ site' = [site EXCEPT ![inst.reg].disk[f] = 0] /\ inst' = inst
    BY <1>15 DEF Installer!CleanupFile, Begun
  <2>2. [site[inst.reg] EXCEPT !.disk[f] = 0] \in RegistrySet
    BY <1>h, <2>1, InstallFacts DEF RegistrySet
  <2>3. site' \in [Registries -> RegistrySet]
    BY <1>8, <2>1, <2>2
  <2> QED BY <1>15, <2>1, <2>3 DEF Installer!CleanupFile, Installer!history, Installer!counters
<1>16. CASE Installer!WriteManifest
  <2> DEFINE m == [owner |-> "cfw", paths |-> inst.owned, digests |-> Installer!Digests]
  <2>1. inst.pc \in Begun /\ site' = [site EXCEPT ![inst.reg].manifest = m]
    BY <1>16 DEF Installer!WriteManifest, Begun
  <2>2. Installer!Digests \in Partial
    <3> DEFINE S == {g \in inst.owned : site[inst.reg].disk[g] # 0}
    <3>1. S \in SUBSET Installer!Files /\ site[inst.reg].disk \in [Installer!Files -> Installer!Content]
      BY <1>0, <1>h, <2>1 DEF Processes, RegistrySet
    <3>2. [f \in S |-> site[inst.reg].disk[f]] \in [S -> Installer!Content]
      BY <3>1
    <3>3. Installer!Digests = [f \in S |-> site[inst.reg].disk[f]]
      BY DEF Installer!Digests, Installer!Here
    <3> HIDE DEF S
    <3> QED BY <3>1, <3>2, <3>3 DEF Partial
  <2>3. m \in Manifests
    BY <1>0, <2>2 DEF Manifests, Processes
  <2> HIDE DEF m
  <2>4. [site[inst.reg] EXCEPT !.manifest = m] \in RegistrySet
    BY <1>h, <2>1, <2>3 DEF RegistrySet
  <2>5. site' \in [Registries -> RegistrySet]
    BY <1>8, <2>1, <2>4
  <2> QED BY <1>6, <1>16, <2>1, <2>5 DEF Installer!WriteManifest, Begun
<1>17. CASE Installer!Commit
  <2>1. inst.pc \in Begun
    BY <1>17 DEF Installer!Commit, Begun
  <2>2. inst' = [Installer!NoInstall EXCEPT !.pc = "next", !.todo = inst.todo, !.reg = inst.reg,
                   !.release = inst.release, !.replace = inst.replace, !.outcome = "committed"]
    BY <1>17 DEF Installer!Commit
  <2>3. inst' \in Processes
    BY <1>0, <2>2, BlankTyped DEF Processes
  <2>4. inst'.pc = "next" /\ inst'.release = inst.release /\ inst'.owned = {}
    BY <2>2 DEF Installer!NoInstall
  <2>5. fresh' \in [Registries -> Releases0] /\ exposed' \in SUBSET Registries
    BY <1>h, <1>17, <2>1 DEF Installer!Commit, Releases0
  <2> QED BY <1>h, <1>17, <2>1, <2>3, <2>4, <2>5 DEF Installer!Commit, Installer!counters, Begun
<1>18. CASE Installer!Fail
  BY <1>0, <1>6, <1>18 DEF Installer!Fail, Begun
<1>19. CASE Installer!Rollback
  <2>1. inst.pc \in Begun
    BY <1>19 DEF Installer!Rollback, Begun
  <2>2. Installer!Restored \in [Installer!Files -> Installer!Content]
    <3>1. PICK S \in SUBSET Installer!Files : inst.files \in [S -> Installer!Content]
      BY <1>0 DEF Partial, Processes
    <3> QED BY <1>h, <2>1, <3>1 DEF Installer!Restored, Installer!Here, RegistrySet
  <2>3. PICK D \in SUBSET Installer!Dirs :
           site' = [site EXCEPT ![inst.reg] =
               [@ EXCEPT !.disk = Installer!Restored, !.manifest = inst.manifest,
                         !.runtime = inst.runtime, !.dirs = D]]
    <3>1. site[inst.reg].dirs \in SUBSET Installer!Dirs
      BY <1>h, <2>1 DEF RegistrySet
    <3> QED BY <1>19, <3>1 DEF Installer!Rollback, Installer!Here
  <2>4. [site[inst.reg] EXCEPT !.disk = Installer!Restored, !.manifest = inst.manifest,
                               !.runtime = inst.runtime, !.dirs = D] \in RegistrySet
    BY <1>0, <1>h, <2>1, <2>2 DEF RegistrySet, Processes
  <2>5. site' \in [Registries -> RegistrySet]
    BY <1>8, <2>1, <2>3, <2>4
  <2>6. inst' = [Installer!NoInstall EXCEPT !.reg = inst.reg, !.outcome = "restored"]
    BY <1>19 DEF Installer!Rollback
  <2>7. inst' \in Processes /\ inst'.pc = "idle" /\ inst'.owned = {}
    BY <1>0, <2>1, <2>6, BlankTyped DEF Processes, Installer!NoInstall
  <2> QED BY <1>19, <2>5, <2>7 DEF Installer!Rollback, Installer!history, Installer!counters, Begun
<1>20. CASE Installer!Crash
  <2>1. exposed' \in SUBSET Registries /\ crashed' \in SUBSET Registries
        /\ fresh' \in [Registries -> Releases0]
    <3>1. inst.pc \in Begun
      BY <1>0, <1>20 DEF Installer!Crash, Processes
    <3> QED BY <1>20, <3>1 DEF Installer!Crash, Releases0
  <2> QED BY <1>20, <2>1, BlankTyped DEF Installer!Crash, Begun, Installer!NoInstall
<1>21. ASSUME NEW r \in Registries, NEW f \in Installer!Files, Installer!Edit(r, f)
       PROVE  InstallTyped'
  <2>1. /\ edits \in 0..MaxEdits /\ edits < MaxEdits /\ edits' = edits + 1 /\ edits' \in 0..MaxEdits
        /\ -(edits + 1) \in Installer!Content
    BY <1>21, InstallFacts DEF Installer!Edit
  <2>2. site[r] \in RegistrySet
    BY <1>0
  <2>3. CASE site' = [site EXCEPT ![r].disk[f] = -(edits + 1), ![r].dirs = @ \cup {f[1]}]
    <3>1. [site[r] EXCEPT !.disk[f] = -(edits + 1), !.dirs = @ \cup {f[1]}] \in RegistrySet
      BY <2>1, <2>2, InstallFacts DEF RegistrySet
    <3>2. site' = [site EXCEPT ![r] =
                     [site[r] EXCEPT !.disk[f] = -(edits + 1), !.dirs = @ \cup {f[1]}]]
      BY <1>0, <2>2, <2>3
    <3>3. site' \in [Registries -> RegistrySet]
      BY <1>0, <3>1, <3>2
    <3> QED BY <1>21, <2>1, <3>3 DEF Installer!Edit, Releases0
  <2>4. CASE site' = [site EXCEPT ![r].disk[f] = 0]
    <3>1. [site[r] EXCEPT !.disk[f] = 0] \in RegistrySet
      BY <2>2, InstallFacts DEF RegistrySet
    <3>2. site' \in [Registries -> RegistrySet]
      BY <1>0, <2>4, <3>1
    <3> QED BY <1>21, <2>1, <3>2 DEF Installer!Edit, Releases0
  <2> QED BY <1>21, <2>3, <2>4 DEF Installer!Edit
<1>22. CASE UNCHANGED Installer!vars
  BY <1>22 DEF Installer!vars, Installer!history, Installer!counters
<1> QED
  BY <1>1, <1>2, <1>3, <1>4, <1>7, <1>9, <1>10, <1>11, <1>12, <1>13, <1>14, <1>15, <1>16,
     <1>17, <1>18, <1>19, <1>20, <1>21, <1>22
     DEF Installer!Next, Installer!RefuseOwner, Installer!FinishInstall
-----------------------------------------------------------------------------
(* What the types give about one registry. *)
LEMMA RegistryFacts ==
    ASSUME InstallTyped, NEW r \in Registries
    PROVE  /\ site[r] \in RegistrySet /\ site[r].manifest \in Manifests
           /\ site[r].disk \in [Installer!Files -> Installer!Content]
           /\ \A f \in Installer!Files : site[r].disk[f] \in Int
           /\ \A f \in DOMAIN site[r].manifest.digests :
                 f \in Installer!Files /\ site[r].manifest.digests[f] \in Int
           /\ site[r].manifest.paths \subseteq Installer!Files
<1>1. site[r] \in RegistrySet
  BY DEF InstallTyped
<1>2. /\ site[r].manifest \in Manifests
      /\ site[r].disk \in [Installer!Files -> Installer!Content]
  BY <1>1 DEF RegistrySet
<1>3. \A f \in DOMAIN site[r].manifest.digests :
         f \in Installer!Files /\ site[r].manifest.digests[f] \in Int
  <2>1. PICK S \in SUBSET Installer!Files : site[r].manifest.digests \in [S -> Installer!Content]
    BY <1>2 DEF Manifests, Partial
  <2> QED BY <2>1, InstallFacts
<1> QED BY <1>1, <1>2, <1>3, InstallFacts DEF Manifests

(* What the types give about the process. *)
LEMMA ProcessFacts ==
    ASSUME InstallTyped
    PROVE  /\ inst.manifest \in Manifests /\ inst.owned \subseteq Installer!Files
           /\ DOMAIN inst.files \subseteq Installer!Files
           /\ \A f \in DOMAIN inst.files : inst.files[f] \in Int
           /\ \A f \in DOMAIN inst.manifest.digests : inst.manifest.digests[f] \in Int
           /\ edits \in Nat
<1>1. inst \in Processes
  BY DEF InstallTyped
<1>2. PICK S \in SUBSET Installer!Files : inst.files \in [S -> Installer!Content]
  BY <1>1 DEF Processes, Partial
<1>3. PICK T \in SUBSET Installer!Files : inst.manifest.digests \in [T -> Installer!Content]
  BY <1>1 DEF Processes, Partial, Manifests
<1>4. edits \in Nat
  BY InstallFacts DEF InstallTyped
<1> QED BY <1>1, <1>2, <1>3, <1>4, InstallFacts DEF Processes

(* A registry that a step does not touch stays at rest. *)
LEMMA RestKept ==
    ASSUME NEW r \in Registries, AtRest(r), site'[r] = site[r],
           r \in crashed => r \in crashed', r \in exposed => r \in exposed',
           fresh'[r] = fresh[r] \/ fresh'[r] = 0
    PROVE  AtRest(r)'
BY DEF AtRest, Coherent, Whole, Recorded

(* Steps between registries. *)
LEMMA IdleStep ==
    ASSUME InstallInd, InstallTyped', inst.pc \notin Begun, inst'.pc \notin Begun,
           inst'.outcome # "restored",
           UNCHANGED <<site, Installer!history, edits>>
    PROVE  InstallInd'
<1>1. /\ quiet' = quiet /\ edits' = edits /\ site' = site /\ fresh' = fresh /\ crashed' = crashed
      /\ exposed' = exposed
  BY DEF Installer!history
<1>2. \A r \in Registries : AtRest(r)'
  BY <1>1, RestKept DEF InstallInd
<1>3. \A r \in Registries : ManifestInv(site[r].manifest)'
  BY <1>1 DEF InstallInd, ManifestInv
<1>4. Installer!FailedInstallRestores'
  BY DEF Installer!FailedInstallRestores
<1> QED BY <1>1, <1>2, <1>3, <1>4 DEF InstallInd

(* Steps of an install in a registry. *)
LEMMA WorkStep ==
    ASSUME InstallInd, InstallTyped', inst.pc \in Begun, inst'.pc \in Begun,
           inst'.reg = inst.reg, inst'.outcome = inst.outcome,
           UNCHANGED <<Installer!history, Installer!counters>>,
           \A r \in Registries \ {inst.reg} : site'[r] = site[r],
           ManifestInv(site'[inst.reg].manifest), inst'.manifest = inst.manifest,
           \A f \in Installer!Files : site'[inst.reg].disk[f] >= -edits,
           CaptureInv', OriginInv', ProgressInv', EditInv'
    PROVE  InstallInd'
<1>1. /\ quiet' = quiet /\ edits' = edits /\ fresh' = fresh /\ crashed' = crashed
      /\ exposed' = exposed
  BY DEF Installer!history, Installer!counters
<1>2. \A r \in Registries \ {inst.reg} : AtRest(r)'
  BY <1>1, RestKept DEF InstallInd
<1>3. \A r \in Registries : ManifestInv(site[r].manifest)'
  <2>1. ASSUME NEW r \in Registries \ {inst.reg} PROVE ManifestInv(site[r].manifest)'
    BY <1>1 DEF InstallInd, ManifestInv
  <2>2. ManifestInv(site[inst.reg].manifest)'
    BY <1>1 DEF ManifestInv
  <2> QED BY <2>1, <2>2
<1>4. ManifestInv(inst.manifest)'
  BY <1>1 DEF InstallInd, ManifestInv
<1>5. inst.outcome # "restored" /\ Installer!FailedInstallRestores'
  BY DEF InstallInd, Installer!FailedInstallRestores, Begun
<1>6. \A r \in Registries, f \in Installer!Files : site'[r].disk[f] >= -edits'
  BY <1>1 DEF InstallInd
<1> QED BY <1>1, <1>2, <1>3, <1>4, <1>5, <1>6 DEF InstallInd

(* Steps that only move the process and the runtime tree. *)
LEMMA GoStep ==
    ASSUME InstallInd, InstallTyped', inst.pc \in Begun, NEW pc \in Begun \ {"copy", "commit"},
           Installer!Go(pc), UNCHANGED <<Installer!history, Installer!counters>>,
           \A r \in Registries \ {inst.reg} : site'[r] = site[r],
           site'[inst.reg].disk = site[inst.reg].disk,
           site'[inst.reg].manifest = site[inst.reg].manifest,
           pc # "unwind" => inst.owned = Installer!ShipSet(inst.release) /\ inst.pc # "unwind",
           pc \in {"drop", "cleanup"} => site'[inst.reg].runtime = inst.release,
           pc \notin {"publish", "unwind"} =>
              \/ inst.reg \in exposed
              \/ site[inst.reg].manifest.owner = "cfw" => site'[inst.reg].runtime # 0
    PROVE  InstallInd'
<1>1. /\ inst'.pc = pc /\ inst'.reg = inst.reg /\ inst'.outcome = inst.outcome
      /\ inst'.manifest = inst.manifest /\ inst'.prev = inst.prev /\ inst'.files = inst.files
      /\ inst'.owned = inst.owned /\ inst'.release = inst.release /\ inst'.runtime = inst.runtime
  BY DEF Installer!Go, InstallInd, InstallTyped, Processes
<1>2. /\ quiet' = quiet /\ edits' = edits /\ fresh' = fresh /\ crashed' = crashed
      /\ exposed' = exposed /\ touched' = touched /\ before' = before
  BY DEF Installer!history, Installer!counters
<1>3. CaptureInv'
  BY <1>1, <1>2 DEF InstallInd, CaptureInv, Whole
<1>4. OriginInv'
  BY <1>1, <1>2 DEF InstallInd, OriginInv, Recorded
<1>5. ProgressInv'
  BY <1>1, <1>2 DEF InstallInd, ProgressInv
<1>6. EditInv'
  BY <1>1, <1>2 DEF InstallInd, EditInv
<1>7. inst.reg \in Registries
  BY DEF InstallInd, InstallTyped
<1>8. /\ ManifestInv(site'[inst.reg].manifest)
      /\ \A f \in Installer!Files : site'[inst.reg].disk[f] >= -edits
  BY <1>7 DEF InstallInd
<1> QED BY <1>1, <1>3, <1>4, <1>5, <1>6, <1>8, WorkStep

(* Copying a file. *)
LEMMA CopyStep ==
    ASSUME InstallInd, InstallTyped', Installer!CopyFile
    PROVE  InstallInd'
<1> DEFINE f == Shipped[inst.release][inst.next]
           R == inst.reg
<1>1. /\ inst.pc = "copy" /\ inst.pc \in Begun /\ R \in Registries /\ inst.next \in Nat
      /\ inst.release \in Installer!Releases /\ inst.release > 0 /\ inst.release \in Nat
      /\ inst.release \notin quiet
  <2>1. inst.pc = "copy" /\ inst.pc \in Begun /\ R \in Registries /\ inst.next \in Nat
        /\ inst.release \in Installer!Releases
    BY DEF Installer!CopyFile, Begun, InstallInd, InstallTyped, Processes
  <2>2. inst.release > 0 /\ inst.release \in Nat
    BY <2>1, InstallFacts
  <2> QED BY <2>1, <2>2 DEF InstallInd
<1>2. f \in Installer!Files
  <2>1. Shipped[inst.release] \in Seq(Installer!Files)
    BY <1>1, InstallFacts
  <2>2. inst.next \in DOMAIN Shipped[inst.release]
    BY <1>1, <2>1 DEF Installer!CopyFile, InstallInd, InstallTyped, Processes
  <2> QED BY <1>1, <2>2, InstallFacts
<1>3. /\ inst'.pc = inst.pc /\ inst'.reg = R /\ inst'.outcome = inst.outcome
      /\ inst'.manifest = inst.manifest /\ inst'.prev = inst.prev
      /\ inst'.release = inst.release /\ inst'.runtime = inst.runtime
      /\ inst'.next = inst.next + 1 /\ inst'.owned = inst.owned \cup {f}
      /\ inst'.files = Installer!Captured(f)
  BY DEF Installer!CopyFile, InstallInd, InstallTyped, Processes
<1>4. /\ \A r \in Registries \ {R} : site'[r] = site[r]
      /\ site'[R].disk = [site[R].disk EXCEPT ![f] = inst.release]
      /\ site'[R].manifest = site[R].manifest /\ site'[R].runtime = site[R].runtime
  BY <1>1, <1>2 DEF Installer!CopyFile, Installer!Written, InstallInd, InstallTyped, RegistrySet
<1>5. /\ site'[R].disk[f] = inst.release
      /\ \A g \in Installer!Files : g # f => site'[R].disk[g] = site[R].disk[g]
      /\ \A g \in Installer!Files : site[R].disk[g] \in Int
  <2>1. site[R].disk \in [Installer!Files -> Installer!Content]
    BY <1>1, RegistryFacts DEF InstallInd
  <2> QED BY <1>1, <1>2, <1>4, <2>1, RegistryFacts DEF InstallInd
<1>6. /\ DOMAIN inst'.files = DOMAIN inst.files \cup {f}
      /\ f \in DOMAIN inst.files => inst'.files = inst.files
      /\ f \notin DOMAIN inst.files => inst'.files[f] = site[R].disk[f]
      /\ \A g \in DOMAIN inst.files : inst'.files[g] = inst.files[g]
  BY <1>3 DEF Installer!Captured, Installer!Here
<1>7. /\ quiet' = quiet /\ edits' = edits /\ fresh' = fresh /\ crashed' = crashed
      /\ exposed' = exposed /\ touched' = touched /\ before' = before
      /\ UNCHANGED <<Installer!history, Installer!counters>>
  BY DEF Installer!CopyFile, Installer!history, Installer!counters
<1>8. /\ inst.owned \subseteq Installer!Files /\ DOMAIN inst.files \subseteq Installer!Files
      /\ edits \in Nat
  BY ProcessFacts DEF InstallInd
<1>9. CaptureInv /\ OriginInv /\ ProgressInv /\ EditInv /\ ManifestInv(site[R].manifest)
      /\ \A g \in Installer!Files : site[R].disk[g] >= -edits
  BY <1>1 DEF InstallInd
<1> HIDE DEF f, R
<1>10. CaptureInv'
  <2>1. ASSUME inst'.reg \notin touched', NEW g \in Installer!Files
        PROVE  IF g \in DOMAIN inst'.files THEN inst'.files[g] = before'.disk[g]
               ELSE site'[inst'.reg].disk[g] = before'.disk[g]
    BY <1>2, <1>3, <1>5, <1>6, <1>7, <1>9, <2>1 DEF CaptureInv, R
  <2> QED BY <1>3, <1>6, <1>7, <1>9, <2>1 DEF CaptureInv, Whole, R
<1>11. OriginInv'
  <2> SUFFICES ASSUME R \notin crashed PROVE OriginInv'
    BY <1>3, <1>7 DEF OriginInv, R
  <2>1. ASSUME NEW g \in DOMAIN inst'.files, inst'.files[g] > 0
        PROVE  Recorded(inst'.manifest, g, inst'.files[g])
    <3>1. CASE g \in DOMAIN inst.files
      BY <1>3, <1>6, <1>9, <2>1, <3>1 DEF OriginInv, R, Recorded
    <3>2. CASE g \notin DOMAIN inst.files
      <4>1. g = f /\ f \notin inst.owned /\ inst'.files[g] = site[R].disk[f]
        BY <1>6, <1>9, <3>2 DEF CaptureInv
      <4> QED BY <1>2, <1>3, <1>9, <2>1, <4>1 DEF OriginInv, R, Recorded
    <3> QED BY <3>1, <3>2
  <2>2. ASSUME NEW g \in Installer!Files \ inst'.owned, site'[R].disk[g] > 0
        PROVE  Recorded(inst'.manifest, g, site'[R].disk[g])
    BY <1>3, <1>5, <1>9, <2>2 DEF OriginInv, R, Recorded
  <2>3. inst.manifest.paths = IF inst.runtime = 0 THEN {} ELSE Installer!ShipSet(inst.runtime)
    BY <1>9 DEF OriginInv, R
  <2> QED BY <1>1, <1>3, <1>7, <2>1, <2>2, <2>3 DEF OriginInv
<1>12. ProgressInv'
  <2>1. ASSUME NEW k \in DOMAIN Shipped[inst.release], k < inst.next + 1
        PROVE  Shipped[inst.release][k] \in inst'.owned
    <3>1. k \in Nat
      <4>1. Shipped[inst.release] \in Seq(Installer!Files)
        BY <1>1, InstallFacts
      <4> QED BY <4>1
    <3>2. k < inst.next \/ k = inst.next
      BY <1>1, <2>1, <3>1
    <3> QED BY <1>1, <1>3, <1>9, <3>2 DEF ProgressInv, f
  <2>2. ASSUME R \notin touched, NEW g \in inst'.owned
        PROVE  site'[R].disk[g] = inst.release
    BY <1>1, <1>2, <1>3, <1>5, <1>8, <1>9, <2>2 DEF ProgressInv, R
  <2> QED BY <1>1, <1>3, <1>4, <1>7, <1>9, <2>1, <2>2 DEF ProgressInv, R
<1>13. EditInv'
  <2>1. ASSUME NEW g \in inst'.owned PROVE site'[R].disk[g] \notin quiet
    BY <1>1, <1>3, <1>5, <1>8, <1>9, <2>1 DEF EditInv, R
  <2>2. ASSUME NEW g \in DOMAIN inst'.files
        PROVE  /\ inst'.files[g] >= -edits
               /\ site'[R].disk[g] \in quiet => inst'.files[g] = site'[R].disk[g]
    <3>1. CASE g \in DOMAIN inst.files
      BY <1>1, <1>5, <1>6, <1>8, <1>9, <3>1 DEF EditInv, R
    <3>2. CASE g \notin DOMAIN inst.files
      BY <1>1, <1>2, <1>5, <1>6, <1>9, <2>2, <3>2
    <3> QED BY <3>1, <3>2
  <2> QED BY <1>3, <1>7, <2>1, <2>2 DEF EditInv
<1>14. \A g \in Installer!Files : site'[R].disk[g] >= -edits
  BY <1>1, <1>5, <1>8, <1>9
<1> QED BY <1>1, <1>3, <1>4, <1>7, <1>9, <1>10, <1>11, <1>12, <1>13, <1>14, WorkStep DEF R

(* Removing a file that the release no longer ships. *)
LEMMA CleanupStep ==
    ASSUME InstallInd, InstallTyped', NEW f \in Installer!Files, Installer!CleanupFile(f)
    PROVE  InstallInd'
<1> DEFINE R == inst.reg
<1>1. /\ inst.pc = "cleanup" /\ inst.pc \in Begun /\ R \in Registries
      /\ f \in inst.prev.paths /\ f \notin inst.owned /\ inst' = inst
  BY DEF Installer!CleanupFile, Installer!Stale, Begun, InstallInd, InstallTyped
<1>2. /\ \A r \in Registries \ {R} : site'[r] = site[r]
      /\ site'[R].disk = [site[R].disk EXCEPT ![f] = 0]
      /\ site'[R].manifest = site[R].manifest /\ site'[R].runtime = site[R].runtime
  BY <1>1 DEF Installer!CleanupFile, InstallInd, InstallTyped, RegistrySet
<1>3. /\ site'[R].disk[f] = 0
      /\ \A g \in Installer!Files : g # f => site'[R].disk[g] = site[R].disk[g]
  <2>1. site[R].disk \in [Installer!Files -> Installer!Content]
    BY <1>1, RegistryFacts DEF InstallInd
  <2> QED BY <1>2, <2>1
<1>4. /\ quiet' = quiet /\ edits' = edits /\ fresh' = fresh /\ crashed' = crashed
      /\ exposed' = exposed /\ touched' = touched /\ before' = before
      /\ UNCHANGED <<Installer!history, Installer!counters>>
  BY DEF Installer!CleanupFile, Installer!history, Installer!counters
<1>5. /\ inst.owned \subseteq Installer!Files /\ DOMAIN inst.files \subseteq Installer!Files
      /\ edits \in Nat /\ 0 \notin quiet
  BY ProcessFacts DEF InstallInd
<1>6. CaptureInv /\ OriginInv /\ ProgressInv /\ EditInv /\ ManifestInv(site[R].manifest)
      /\ \A g \in Installer!Files : site[R].disk[g] >= -edits
  BY <1>1 DEF InstallInd
<1> HIDE DEF R
<1>7. CaptureInv'
  <2>1. ASSUME R \notin touched, NEW g \in Installer!Files
        PROVE  IF g \in DOMAIN inst.files THEN inst.files[g] = before.disk[g]
               ELSE site'[R].disk[g] = before.disk[g]
    BY <1>1, <1>3, <1>6, <2>1 DEF CaptureInv, R
  <2> QED BY <1>1, <1>4, <1>6, <2>1 DEF CaptureInv, Whole, R
<1>8. OriginInv'
  BY <1>1, <1>3, <1>4, <1>6 DEF OriginInv, Recorded, R
<1>9. ProgressInv'
  BY <1>1, <1>2, <1>3, <1>4, <1>5, <1>6 DEF ProgressInv, R
<1>10. EditInv'
  BY <1>1, <1>3, <1>4, <1>5, <1>6 DEF EditInv, R
<1>11. \A g \in Installer!Files : site'[R].disk[g] >= -edits
  BY <1>3, <1>5, <1>6
<1> QED BY <1>1, <1>2, <1>4, <1>6, <1>7, <1>8, <1>9, <1>10, <1>11, WorkStep DEF R

(* Writing the manifest: with nothing stale left, every file an install wrote is one
   of this release. *)
LEMMA ManifestStep ==
    ASSUME InstallInd, InstallTyped', Installer!WriteManifest
    PROVE  InstallInd'
<1> DEFINE R == inst.reg
           m == [owner |-> "cfw", paths |-> inst.owned, digests |-> Installer!Digests]
<1>1. /\ inst.pc = "cleanup" /\ inst.pc \in Begun /\ R \in Registries /\ Installer!Stale = {}
      /\ inst.release \in Installer!Releases /\ inst.release > 0
  <2>1. /\ inst.pc = "cleanup" /\ inst.pc \in Begun /\ R \in Registries /\ Installer!Stale = {}
        /\ inst.release \in Installer!Releases
    BY DEF Installer!WriteManifest, Begun, InstallInd, InstallTyped
  <2> QED BY <2>1, InstallFacts
<1>2. /\ inst'.pc = "commit" /\ inst'.reg = R /\ inst'.outcome = inst.outcome
      /\ inst'.manifest = inst.manifest /\ inst'.prev = inst.prev /\ inst'.files = inst.files
      /\ inst'.owned = inst.owned /\ inst'.release = inst.release /\ inst'.runtime = inst.runtime
  BY DEF Installer!WriteManifest, Installer!Go, InstallInd, InstallTyped, Processes
<1>3. /\ \A r \in Registries \ {R} : site'[r] = site[r]
      /\ site'[R].disk = site[R].disk /\ site'[R].runtime = site[R].runtime
      /\ site'[R].manifest = m
  BY <1>1 DEF Installer!WriteManifest, InstallInd, InstallTyped, RegistrySet
<1>4. /\ quiet' = quiet /\ edits' = edits /\ fresh' = fresh /\ crashed' = crashed
      /\ exposed' = exposed /\ touched' = touched /\ before' = before
      /\ UNCHANGED <<Installer!history, Installer!counters>>
  BY DEF Installer!WriteManifest, Installer!history, Installer!counters
<1>5. CaptureInv /\ OriginInv /\ ProgressInv /\ EditInv
      /\ ManifestInv(inst.manifest)
      /\ \A g \in Installer!Files : site[R].disk[g] >= -edits /\ site[R].disk[g] \in Int
  BY <1>1, RegistryFacts DEF InstallInd
<1>6. /\ DOMAIN m.digests = {g \in inst.owned : site[R].disk[g] # 0}
      /\ \A g \in DOMAIN m.digests : m.digests[g] = site[R].disk[g]
      /\ m.paths = inst.owned /\ m.owner = "cfw"
  BY DEF Installer!Digests, Installer!Here
<1>7. inst.owned \subseteq Installer!Files
  BY ProcessFacts DEF InstallInd
<1> HIDE DEF R, m
<1>8. ManifestInv(m)
  BY <1>5, <1>6, <1>7 DEF ManifestInv, EditInv, R
<1>9. CaptureInv'
  BY <1>2, <1>3, <1>4, <1>5 DEF CaptureInv, Whole, R
<1>10. OriginInv'
  <2> SUFFICES ASSUME R \notin crashed PROVE OriginInv'
    BY <1>2, <1>4 DEF OriginInv, R
  <2>1. ASSUME NEW g \in Installer!Files, site[R].disk[g] > 0
        PROVE  Recorded(m, g, site[R].disk[g])
    <3>1. g \in inst.owned
      <4> SUFFICES ASSUME g \notin inst.owned PROVE FALSE
        OBVIOUS
      <4>1. Recorded(inst.manifest, g, site[R].disk[g])
        BY <1>5, <2>1 DEF OriginInv, R
      <4>2. g \in inst.prev.paths /\ Recorded(inst.prev, g, site[R].disk[g])
        BY <1>5, <4>1 DEF CaptureInv, ManifestInv, Recorded
      <4>3. site[R].disk[g] # 0
        BY <1>5, <2>1
      <4>4. g \in Installer!Stale
        BY <4>2, <4>3 DEF Installer!Stale, Installer!Removable, Installer!Here, Recorded, R
      <4> QED BY <1>1, <4>4
    <3>2. site[R].disk[g] # 0
      BY <1>5, <2>1
    <3> QED BY <1>6, <3>1, <3>2 DEF Recorded
  <2>2. m.paths = Installer!ShipSet(inst.release) /\ site[R].runtime = inst.release
        /\ inst.release # 0
    BY <1>1, <1>5, <1>6, InstallFacts DEF ProgressInv, R
  <2>3. Coherent(site'[R])
    BY <1>3, <2>1, <2>2 DEF Coherent
  <2> QED BY <1>2, <1>3, <1>4, <1>5, <2>3 DEF OriginInv, Recorded, R, Coherent
<1>11. ProgressInv'
  <2>1. inst.release # 0
    BY <1>1, InstallFacts
  <2> QED BY <1>1, <1>2, <1>3, <1>4, <1>5, <2>1 DEF ProgressInv, R
<1>12. EditInv'
  BY <1>2, <1>3, <1>4, <1>5 DEF EditInv, R
<1>13. inst'.pc \in Begun
  BY <1>2 DEF Begun
<1> QED BY <1>1, <1>2, <1>3, <1>4, <1>5, <1>8, <1>9, <1>10, <1>11, <1>12, <1>13, WorkStep DEF R

(* Beginning with a registry: the journal captures what is there. *)
LEMMA BeginStep ==
    ASSUME InstallInd, InstallTyped', Installer!BeginRegistry
    PROVE  InstallInd'
<1>t. inst \in Processes /\ inst.todo \in Seq(Registries) /\ inst.todo # <<>>
  BY DEF InstallInd, InstallTyped, Processes, Installer!BeginRegistry
<1>r. PICK R \in Registries : R = Head(inst.todo)
  <2>1. Head(inst.todo) \in Registries
    BY <1>t
  <2> QED BY <2>1
<1>1. /\ inst.pc = "next" /\ inst.pc \notin Begun /\ R \in Registries
      /\ site' = site /\ edits' = edits /\ quiet' = quiet /\ fresh' = fresh
      /\ crashed' = crashed /\ exposed' = exposed
      /\ before' = site[R] /\ touched' = touched \ {R}
  BY <1>r DEF Installer!BeginRegistry, Begun, InstallInd, InstallTyped, Processes, Installer!counters
<1>2. /\ inst'.pc = "copy" /\ inst'.reg = R /\ inst'.outcome = "none"
      /\ inst'.manifest = site[R].manifest /\ inst'.prev = site[R].manifest
      /\ inst'.files = [f \in site[R].manifest.paths |-> site[R].disk[f]]
      /\ inst'.owned = {} /\ inst'.release = inst.release /\ inst'.runtime = site[R].runtime
      /\ inst'.next = 1
  <2>1. inst' = [inst EXCEPT !.pc = "copy", !.todo = Tail(@), !.reg = R,
                    !.prev = site[R].manifest, !.next = 1, !.owned = {},
                    !.files = [f \in site[R].manifest.paths |-> site[R].disk[f]],
                    !.manifest = site[R].manifest, !.runtime = site[R].runtime, !.outcome = "none"]
    BY <1>r DEF Installer!BeginRegistry, Installer!Captures
  <2> QED BY <1>t, <2>1 DEF Processes
<1>3. /\ DOMAIN inst'.files = site[R].manifest.paths
      /\ \A f \in DOMAIN inst'.files : inst'.files[f] = site[R].disk[f]
      /\ site[R].manifest.paths \subseteq Installer!Files
  BY <1>r, <1>1, <1>2, RegistryFacts DEF InstallInd
<1>4. /\ ManifestInv(site[R].manifest) /\ AtRest(R)
      /\ \A f \in Installer!Files : site[R].disk[f] >= -edits
      /\ \A r \in Registries : AtRest(r)
  BY <1>r, <1>1 DEF InstallInd
<1>5. CaptureInv'
  BY <1>r, <1>1, <1>2, <1>3, <1>4 DEF CaptureInv, AtRest, Whole
<1>6. OriginInv'
  BY <1>r, <1>1, <1>2, <1>3, <1>4 DEF OriginInv, AtRest, Coherent, Recorded
<1>7. ProgressInv'
  <2>1. ASSUME NEW k \in DOMAIN Shipped[inst.release], k < 1
        PROVE  FALSE
    <3>1. inst.release \in Installer!Releases
      BY <1>r, <1>1 DEF InstallInd, InstallTyped
    <3>2. Shipped[inst.release] \in Seq(Installer!Files)
      BY <1>r, <3>1, InstallFacts
    <3> QED BY <1>r, <2>1, <3>2
  <2> QED BY <1>r, <1>1, <1>2, <1>4, <2>1 DEF ProgressInv, AtRest
<1>8. EditInv'
  BY <1>r, <1>1, <1>2, <1>3, <1>4 DEF EditInv
<1>9. \A r \in Registries : AtRest(r)' /\ ManifestInv(site[r].manifest)'
  BY <1>r, <1>1, <1>4, RestKept DEF InstallInd, ManifestInv
<1>10. ManifestInv(inst.manifest)'
  BY <1>r, <1>1, <1>2, <1>4 DEF ManifestInv
<1>11. Installer!FailedInstallRestores'
  BY <1>r, <1>2 DEF Installer!FailedInstallRestores
<1> QED BY <1>r, <1>1, <1>2, <1>5, <1>6, <1>7, <1>8, <1>9, <1>10, <1>11 DEF InstallInd

(* Committing a registry. *)
LEMMA CommitStep ==
    ASSUME InstallInd, InstallTyped', Installer!Commit
    PROVE  InstallInd'
<1>r. PICK R \in Registries : R = inst.reg
  BY DEF InstallInd, InstallTyped, Processes, Begun, Installer!Commit
<1>1. /\ inst.pc = "commit" /\ inst.pc \in Begun /\ R \in Registries
      /\ site' = site /\ edits' = edits /\ quiet' = quiet
      /\ crashed' = crashed /\ exposed' = exposed \ {R}
      /\ fresh' = [fresh EXCEPT ![R] = IF R \in touched THEN 0 ELSE inst.release]
      /\ fresh \in [Registries -> Releases0] /\ inst.release \in Installer!Releases
  BY <1>r DEF Installer!Commit, Begun, InstallInd, InstallTyped, Installer!counters
<1>2. inst'.pc = "next" /\ inst'.outcome = "committed"
  BY <1>r DEF Installer!Commit, Installer!NoInstall
<1>3. OriginInv /\ ProgressInv
  BY <1>r, <1>1 DEF InstallInd
<1>4. ASSUME NEW r \in Registries, r # R
      PROVE  AtRest(r)'
  BY <1>r, <1>1, <1>4 DEF InstallInd, AtRest, Coherent, Whole, Recorded
<1>5. AtRest(R)'
  <2>1. R \notin crashed => Coherent(site[R])
    BY <1>r, <1>1, <1>3 DEF OriginInv
  <2>2. site[R].runtime = inst.release /\ inst.release # 0
    BY <1>r, <1>1, <1>3, InstallFacts DEF ProgressInv
  <2>3. R \notin touched => Whole(site[R], inst.release)
    BY <1>r, <1>1, <1>3, <2>2 DEF ProgressInv, Whole
  <2>4. R \notin crashed' => Coherent(site[R])'
    BY <1>r, <1>1, <2>1 DEF Coherent, Recorded
  <2>5. fresh'[R] # 0 => Whole(site'[R], fresh'[R])
    BY <1>r, <1>1, <2>3
  <2> QED BY <1>r, <1>1, <2>2, <2>4, <2>5 DEF AtRest
<1>6. \A r \in Registries : ManifestInv(site[r].manifest)'
  BY <1>r, <1>1 DEF InstallInd, ManifestInv
<1>7. Installer!FailedInstallRestores'
  BY <1>r, <1>2 DEF Installer!FailedInstallRestores
<1>8. inst'.pc \notin Begun
  BY <1>r, <1>2 DEF Begun
<1> QED BY <1>r, <1>1, <1>2, <1>4, <1>5, <1>6, <1>7, <1>8 DEF InstallInd

(* Rolling back puts back what was captured, and that is what was found unless the user
   wrote there. *)
LEMMA RollbackInstallStep ==
    ASSUME InstallInd, InstallTyped', Installer!Rollback
    PROVE  InstallInd'
<1>r. PICK R \in Registries : R = inst.reg
  BY DEF InstallInd, InstallTyped, Processes, Begun, Installer!Rollback
<1>1. /\ inst.pc = "unwind" /\ inst.pc \in Begun /\ R \in Registries
      /\ edits' = edits /\ quiet' = quiet /\ fresh' = fresh /\ touched' = touched
      /\ crashed' = crashed /\ exposed' = exposed /\ before' = before
      /\ before \in RegistrySet
  BY <1>r DEF Installer!Rollback, Begun, InstallInd, InstallTyped, Installer!counters, Installer!history
<1>2. inst'.pc = "idle" /\ inst'.outcome = "restored" /\ inst'.reg = R
  BY <1>r DEF Installer!Rollback, Installer!NoInstall
<1>3. /\ \A r \in Registries \ {R} : site'[r] = site[r]
      /\ site'[R].disk = Installer!Restored
      /\ site'[R].manifest = inst.manifest /\ site'[R].runtime = inst.runtime
  BY <1>r, <1>1 DEF Installer!Rollback, InstallInd, InstallTyped, RegistrySet
<1>4. /\ Installer!Restored = [f \in Installer!Files |->
             IF f \in DOMAIN inst.files THEN inst.files[f] ELSE site[R].disk[f]]
  BY <1>r DEF Installer!Restored, Installer!Here
<1>5. CaptureInv /\ OriginInv /\ EditInv /\ ManifestInv(inst.manifest)
      /\ \A g \in Installer!Files : site[R].disk[g] >= -edits
  BY <1>r, <1>1 DEF InstallInd
<1>6. inst.owned \subseteq DOMAIN inst.files
  BY <1>r, <1>5 DEF CaptureInv
<1>7. ASSUME NEW r \in Registries, r # R
      PROVE  AtRest(r)'
  BY <1>r, <1>1, <1>3, <1>7, RestKept DEF InstallInd
<1>8. R \notin touched =>
         /\ site'[R].disk = before.disk /\ site'[R].manifest = before.manifest
         /\ site'[R].runtime = before.runtime
  <2> SUFFICES ASSUME R \notin touched PROVE site'[R].disk = before.disk
    BY <1>r, <1>3, <1>5 DEF CaptureInv
  <2>1. before.disk \in [Installer!Files -> Installer!Content]
    BY <1>r, <1>1 DEF RegistrySet
  <2>2. \A f \in Installer!Files : Installer!Restored[f] = before.disk[f]
    BY <1>r, <1>4, <1>5 DEF CaptureInv
  <2> QED BY <1>r, <1>3, <1>4, <2>1, <2>2
<1>9. AtRest(R)'
  <2>1. R \notin crashed => Coherent(site'[R])
    <3> SUFFICES ASSUME R \notin crashed PROVE Coherent(site'[R])
      OBVIOUS
    <3>1. ASSUME NEW f \in Installer!Files, Installer!Restored[f] > 0
          PROVE  Recorded(inst.manifest, f, Installer!Restored[f])
      <4>1. CASE f \in DOMAIN inst.files
        BY <1>r, <1>4, <1>5, <3>1, <4>1 DEF OriginInv
      <4>2. CASE f \notin DOMAIN inst.files
        BY <1>r, <1>4, <1>5, <1>6, <3>1, <4>2 DEF OriginInv
      <4> QED BY <1>r, <4>1, <4>2
    <3> QED BY <1>r, <1>3, <1>5, <3>1 DEF Coherent, OriginInv
  <2>2. R \notin exposed /\ site'[R].manifest.owner = "cfw" => site'[R].runtime # 0
    BY <1>r, <1>3, <1>5 DEF CaptureInv
  <2>3. fresh[R] # 0 => Whole(site'[R], fresh[R])
    BY <1>r, <1>5, <1>8 DEF CaptureInv, Whole
  <2> QED BY <1>r, <1>1, <2>1, <2>2, <2>3 DEF AtRest
<1>10. ASSUME NEW r \in Registries
       PROVE  ManifestInv(site[r].manifest)' /\ \A f \in Installer!Files : site'[r].disk[f] >= -edits
  <2>1. CASE r # R
    BY <1>r, <1>1, <1>3, <2>1 DEF InstallInd, ManifestInv
  <2>2. CASE r = R
    <3>1. ManifestInv(site[R].manifest)'
      BY <1>r, <1>1, <1>3, <1>5 DEF ManifestInv
    <3>2. \A f \in Installer!Files : site'[R].disk[f] >= -edits
      BY <1>r, <1>3, <1>4, <1>5 DEF EditInv
    <3> QED BY <1>r, <2>2, <3>1, <3>2
  <2> QED BY <1>r, <2>1, <2>2
<1>11. Installer!FailedInstallRestores'
  BY <1>r, <1>1, <1>2, <1>8 DEF Installer!FailedInstallRestores
<1>12. inst'.pc \notin Begun
  BY <1>r, <1>2 DEF Begun
<1> QED BY <1>r, <1>1, <1>2, <1>7, <1>9, <1>10, <1>11, <1>12 DEF InstallInd

(* The installer dies where it is. *)
LEMMA CrashStep ==
    ASSUME InstallInd, InstallTyped', Installer!Crash
    PROVE  InstallInd'
<1>r. PICK R \in Registries : R = inst.reg
  BY DEF InstallInd, InstallTyped, Processes, Begun, Installer!Crash
<1>1. /\ inst.pc \in Begun /\ R \in Registries
      /\ site' = site /\ edits' = edits /\ quiet' = quiet
      /\ crashed' = crashed \cup {R} /\ fresh' = [fresh EXCEPT ![R] = 0]
      /\ exposed' = IF inst.pc \in {"publish", "unwind"} /\ site[R].runtime = 0
                    THEN exposed \cup {R} ELSE exposed
      /\ fresh \in [Registries -> Releases0]
  BY <1>r DEF Installer!Crash, Begun, InstallInd, InstallTyped, Processes, Installer!Here
<1>2. inst'.pc = "idle" /\ inst'.outcome = "none"
  BY <1>r DEF Installer!Crash, Installer!NoInstall
<1>3. ProgressInv
  BY <1>r, <1>1 DEF InstallInd
<1>4. ASSUME NEW r \in Registries, r # R
      PROVE  AtRest(r)'
  <2>1. AtRest(r) /\ site'[r] = site[r] /\ (r \in crashed => r \in crashed')
        /\ (r \in exposed => r \in exposed') /\ fresh'[r] = fresh[r]
    BY <1>r, <1>1, <1>4 DEF InstallInd
  <2> QED BY <1>r, <2>1, RestKept
<1>5. AtRest(R)'
  BY <1>r, <1>1, <1>3 DEF AtRest, ProgressInv
<1>6. \A r \in Registries : ManifestInv(site[r].manifest)'
  BY <1>r, <1>1 DEF InstallInd, ManifestInv
<1>7. Installer!FailedInstallRestores'
  BY <1>r, <1>2 DEF Installer!FailedInstallRestores
<1>8. inst'.pc \notin Begun
  BY <1>r, <1>2 DEF Begun
<1> QED BY <1>r, <1>1, <1>2, <1>4, <1>5, <1>6, <1>7, <1>8 DEF InstallInd

(* The user writes or deletes a file: at rest what is written is a new edit, during an
   install nothing the installer relies on. *)
LEMMA EditStep ==
    ASSUME InstallInd, InstallTyped', NEW r \in Registries, NEW f \in Installer!Files,
           Installer!Edit(r, f)
    PROVE  InstallInd'
<1>1. /\ edits \in Nat /\ edits' = edits + 1 /\ inst' = inst /\ before' = before
      /\ crashed' = crashed /\ exposed' = exposed /\ touched' = touched \cup {r}
      /\ fresh' = [fresh EXCEPT ![r] = 0] /\ fresh \in [Registries -> Releases0]
  BY ProcessFacts DEF Installer!Edit, InstallInd, InstallTyped
<1>2. PICK content \in {0, -(edits + 1)} :
         /\ \A q \in Registries \ {r} : site'[q] = site[q]
         /\ site'[r].disk = [site[r].disk EXCEPT ![f] = content]
         /\ site'[r].manifest = site[r].manifest /\ site'[r].runtime = site[r].runtime
  <2> DEFINE Kept(content) ==
         /\ \A q \in Registries \ {r} : site'[q] = site[q]
         /\ site'[r].disk = [site[r].disk EXCEPT ![f] = content]
         /\ site'[r].manifest = site[r].manifest /\ site'[r].runtime = site[r].runtime
  <2>1. site \in [Registries -> RegistrySet]
    BY DEF InstallInd, InstallTyped
  <2>2. CASE site' = [site EXCEPT ![r].disk[f] = -(edits + 1), ![r].dirs = @ \union {f[1]}]
    <3>1. Kept(-(edits + 1))
      BY <2>1, <2>2 DEF RegistrySet
    <3> QED BY <3>1
  <2>3. CASE site' = [site EXCEPT ![r].disk[f] = 0]
    <3>1. Kept(0)
      BY <2>1, <2>3 DEF RegistrySet
    <3> QED BY <3>1
  <2> QED BY <2>2, <2>3 DEF Installer!Edit
<1>3. /\ site'[r].disk[f] = content
      /\ \A g \in Installer!Files : g # f => site'[r].disk[g] = site[r].disk[g]
  <2>1. site[r].disk \in [Installer!Files -> Installer!Content]
    BY RegistryFacts DEF InstallInd
  <2> QED BY <1>2, <2>1
<1>4. /\ quiet' \in {quiet, quiet \cup {-(edits + 1)}}
      /\ inst.pc \in Begun /\ inst.reg = r => quiet' = quiet
  BY DEF Installer!Edit, Installer!Busy, Begun
<1>5. /\ quiet \in SUBSET Int /\ \A q \in quiet : q < 0 /\ q >= -edits
  BY DEF InstallInd
<1>6. quiet' \in SUBSET Int /\ \A q \in quiet' : q < 0 /\ q >= -edits'
  BY <1>1, <1>4, <1>5
<1>7. \A v \in Int : v >= -edits => (v \in quiet' <=> v \in quiet) /\ v >= -edits'
  BY <1>1, <1>4, <1>5
<1>8. ASSUME NEW m, \A g \in DOMAIN m.digests : m.digests[g] \in Int, ManifestInv(m)
      PROVE  /\ DOMAIN m.digests \subseteq m.paths
             /\ \A g \in DOMAIN m.digests : m.digests[g] \notin quiet' /\ m.digests[g] >= -edits'
  BY <1>7, <1>8 DEF ManifestInv
<1>9. ASSUME NEW q \in Registries
      PROVE  /\ ManifestInv(site[q].manifest)'
             /\ \A g \in Installer!Files : site'[q].disk[g] >= -edits'
  <2>1. site'[q].manifest = site[q].manifest
    BY <1>2
  <2>2. \A g \in DOMAIN site[q].manifest.digests : site[q].manifest.digests[g] \in Int
    BY RegistryFacts DEF InstallInd
  <2>3. ManifestInv(site[q].manifest)
    BY DEF InstallInd
  <2>4. ManifestInv(site[q].manifest)'
    BY <1>8, <2>1, <2>2, <2>3 DEF ManifestInv
  <2>5. ASSUME NEW g \in Installer!Files
        PROVE  site'[q].disk[g] >= -edits'
    <3>1. site[q].disk[g] \in Int /\ site[q].disk[g] >= -edits
      BY RegistryFacts DEF InstallInd
    <3>2. CASE q = r /\ g = f
      <4>1. content \in Int /\ content >= -(edits + 1)
        BY <1>1, <1>2
      <4>2. -edits' = -(edits + 1) /\ site'[q].disk[g] = content
        BY <1>1, <1>3, <3>2
      <4> QED BY <4>1, <4>2
    <3>3. CASE ~(q = r /\ g = f)
      <4>1. site'[q].disk[g] = site[q].disk[g]
        BY <1>2, <1>3, <3>3
      <4> QED BY <1>7, <3>1, <4>1
    <3> QED BY <3>2, <3>3
  <2> QED BY <2>4, <2>5
<1>10. ~(content > 0) /\ content \notin quiet
  BY <1>1, <1>5
<1>11. ASSUME NEW q \in Registries, AtRest(q)
       PROVE  AtRest(q)'
  <2>1. CASE q # r
    BY <1>1, <1>2, <1>11, <2>1, RestKept
  <2>2. CASE q = r
    <3>1. Coherent(site[r]) => Coherent(site'[r])
      BY <1>2, <1>3, <1>10 DEF Coherent, Recorded
    <3> QED BY <1>1, <1>2, <1>11, <2>2, <3>1 DEF AtRest
  <2> QED BY <2>1, <2>2
<1>12. Installer!FailedInstallRestores'
  <2> SUFFICES ASSUME inst.outcome = "restored", inst.reg \notin touched'
               PROVE  Installer!FailedInstallRestores'
    BY <1>1 DEF Installer!FailedInstallRestores
  <2>1. inst.reg \in Registries \ {r} /\ inst.reg \notin touched
    BY <1>1 DEF InstallInd
  <2> QED BY <1>1, <1>2, <2>1 DEF InstallInd, Installer!FailedInstallRestores
<1>13. ASSUME inst.pc \in Begun
       PROVE  ManifestInv(inst.manifest)' /\ CaptureInv' /\ OriginInv' /\ ProgressInv' /\ EditInv'
  <2>1. PICK R \in Registries : R = inst.reg
    BY <1>13 DEF InstallInd, InstallTyped
  <2>2. /\ ManifestInv(inst.manifest) /\ CaptureInv /\ OriginInv /\ ProgressInv /\ EditInv
        /\ \A g \in Installer!Files : site[R].disk[g] \in Int /\ site[R].disk[g] >= -edits
    BY <1>13, RegistryFacts DEF InstallInd
  <2>3. /\ \A g \in DOMAIN inst.manifest.digests : inst.manifest.digests[g] \in Int
        /\ inst.owned \subseteq Installer!Files /\ DOMAIN inst.files \subseteq Installer!Files
        /\ \A g \in DOMAIN inst.files : inst.files[g] \in Int
    BY ProcessFacts DEF InstallInd
  <2>4. ManifestInv(inst.manifest)'
    BY <1>1, <1>8, <2>2, <2>3 DEF ManifestInv
  <2>5. \A g \in Installer!Files :
           \/ site'[R].disk[g] = site[R].disk[g]
           \/ R = r /\ g = f /\ site'[R].disk[g] = content
    BY <1>2, <1>3
  <2>6. site'[R].manifest = site[R].manifest /\ site'[R].runtime = site[R].runtime
        /\ (R # r => site'[R] = site[R])
    BY <1>2
  <2>7. CaptureInv'
    BY <1>1, <2>1, <2>2, <2>6 DEF CaptureInv, Whole
  <2>8. OriginInv'
    <3> SUFFICES ASSUME R \notin crashed PROVE OriginInv'
      BY <1>1, <2>1 DEF OriginInv
    <3>1. inst.pc = "commit" => Coherent(site'[R])
      BY <1>10, <2>1, <2>2, <2>5, <2>6 DEF OriginInv, Coherent, Recorded
    <3>2. \A g \in Installer!Files \ inst.owned :
             site'[R].disk[g] > 0 => Recorded(inst.manifest, g, site'[R].disk[g])
      BY <1>10, <2>1, <2>2, <2>5 DEF OriginInv
    <3> QED BY <1>1, <2>1, <2>2, <3>1, <3>2 DEF OriginInv, Recorded, Coherent
  <2>9. ProgressInv'
    BY <1>1, <2>1, <2>2, <2>6 DEF ProgressInv
  <2>10. EditInv'
    <3>1. ASSUME NEW g \in Installer!Files
          PROVE  site'[R].disk[g] \in quiet' => site'[R].disk[g] = site[R].disk[g] /\ site[R].disk[g] \in quiet
      <4>1. CASE site'[R].disk[g] = site[R].disk[g]
        BY <1>7, <2>2, <4>1
      <4>2. CASE R = r /\ site'[R].disk[g] = content
        BY <1>4, <1>10, <1>13, <2>1, <4>2
      <4> QED BY <2>5, <4>1, <4>2
    <3>2. \A g \in DOMAIN inst.files : inst.files[g] >= -edits'
      BY <1>7, <2>2, <2>3 DEF EditInv
    <3> QED BY <1>1, <2>1, <2>2, <2>3, <3>1, <3>2 DEF EditInv
  <2> QED BY <2>4, <2>7, <2>8, <2>9, <2>10
<1>14. \A q \in Registries : inst'.pc \notin Begun \/ inst'.reg # q => AtRest(q)'
  BY <1>1, <1>11 DEF InstallInd
<1>15. inst'.outcome = "restored" => inst'.pc = "idle" /\ inst'.reg \in Registries
  BY <1>1 DEF InstallInd
<1> QED BY <1>1, <1>6, <1>9, <1>12, <1>13, <1>14, <1>15 DEF InstallInd

(* When every file was copied the release is owned. *)
LEMMA AllCopied ==
    ASSUME InstallInd, inst.pc = "copy", inst.next > Len(Shipped[inst.release])
    PROVE  inst.owned = Installer!ShipSet(inst.release)
<1>1. /\ inst.pc \in Begun /\ inst.release \in Installer!Releases /\ inst.next \in Nat
      /\ inst.owned \subseteq Installer!ShipSet(inst.release)
  BY DEF InstallInd, InstallTyped, Begun, Processes
<1>2. Shipped[inst.release] \in Seq(Installer!Files)
  BY <1>1, InstallFacts
<1>3. ASSUME NEW f \in Installer!ShipSet(inst.release)
      PROVE  f \in inst.owned
  <2>1. PICK k \in DOMAIN Shipped[inst.release] : f = Shipped[inst.release][k]
    BY <1>1, InstallFacts
  <2>2. k < inst.next
    BY <1>1, <1>2
  <2> QED BY <1>1, <2>1, <2>2 DEF InstallInd, ProgressInv
<1> QED BY <1>1, <1>3

(* Every step of the installer and of the user keeps the invariant. *)
LEMMA InstallStep ==
    ASSUME InstallInd, [Installer!Next]_(Installer!vars)
    PROVE  InstallInd'
<1>1. InstallTyped'
  BY InstallTypeStep DEF InstallInd
<1>2. inst \in Processes /\ site \in [Registries -> RegistrySet]
  BY DEF InstallInd, InstallTyped
<1>3. inst.pc \in Begun => /\ inst.reg \in Registries /\ site[inst.reg] \in RegistrySet
                           /\ inst.release \in Installer!Releases /\ ProgressInv
  BY <1>2 DEF InstallInd, InstallTyped, Begun
<1>4. CASE \E targets \in Installer!Targets, release \in Installer!Releases, replace \in BOOLEAN :
              Installer!StartInstall(targets, release, replace)
  <2>1. PICK targets \in Installer!Targets, release \in Installer!Releases, replace \in BOOLEAN :
              Installer!StartInstall(targets, release, replace)
    BY <1>4
  <2>2. inst.pc \notin Begun /\ inst'.pc \notin Begun /\ inst'.outcome # "restored"
        /\ UNCHANGED <<site, Installer!history, edits>>
    BY <2>1 DEF Installer!StartInstall, Installer!NoInstall, Begun
  <2> QED BY <1>1, <2>2, IdleStep
<1>5. CASE Installer!SkipRegistry
  <2>1. inst.pc \notin Begun /\ inst'.pc \notin Begun /\ inst'.outcome # "restored"
        /\ UNCHANGED <<site, Installer!history, edits>>
    BY <1>2, <1>5 DEF Installer!SkipRegistry, Begun, InstallInd, Processes, Installer!counters
  <2> QED BY <1>1, <2>1, IdleStep
<1>6. CASE Installer!RefuseOwner \/ Installer!FinishInstall
  <2>1. inst.pc \notin Begun /\ inst'.pc \notin Begun /\ inst'.outcome # "restored"
        /\ UNCHANGED <<site, Installer!history, edits>>
    BY <1>6 DEF Installer!RefuseOwner, Installer!FinishInstall, Installer!NoInstall, Begun,
                Installer!counters
  <2> QED BY <1>1, <2>1, IdleStep
<1>7. CASE Installer!CopyRefused
  <2>1. inst.pc \in Begun /\ "unwind" \in Begun \ {"copy", "commit"}
    BY <1>7 DEF Installer!CopyRefused, Begun
  <2>2. /\ \A r \in Registries \ {inst.reg} : site'[r] = site[r]
        /\ site'[inst.reg].disk = site[inst.reg].disk
        /\ site'[inst.reg].manifest = site[inst.reg].manifest
    BY <1>2, <1>3, <1>7, <2>1 DEF Installer!CopyRefused, RegistrySet
  <2> QED BY <1>1, <1>7, <2>1, <2>2, GoStep DEF Installer!CopyRefused
<1>8. CASE Installer!StageRuntime
  <2>1. inst.pc \in Begun /\ "backup" \in Begun \ {"copy", "commit"} /\ inst.pc = "copy"
    BY <1>8 DEF Installer!StageRuntime, Begun
  <2>2. inst.owned = Installer!ShipSet(inst.release)
    BY <1>8, AllCopied DEF Installer!StageRuntime
  <2>3. inst.reg \in exposed \/ (site[inst.reg].manifest.owner = "cfw" => site'[inst.reg].runtime # 0)
    BY <1>3, <1>8, <2>1 DEF ProgressInv, Installer!StageRuntime
  <2> QED BY <1>1, <1>8, <2>1, <2>2, <2>3, GoStep DEF Installer!StageRuntime
<1>9. CASE Installer!RemoveStaleBackup
  <2>1. inst.pc \in Begun /\ "aside" \in Begun \ {"copy", "commit"} /\ inst.pc = "backup"
    BY <1>9 DEF Installer!RemoveStaleBackup, Begun
  <2>2. /\ \A r \in Registries \ {inst.reg} : site'[r] = site[r]
        /\ site'[inst.reg].disk = site[inst.reg].disk
        /\ site'[inst.reg].manifest = site[inst.reg].manifest
        /\ site'[inst.reg].runtime = site[inst.reg].runtime
    BY <1>2, <1>3, <1>9, <2>1 DEF Installer!RemoveStaleBackup, RegistrySet
  <2>3. /\ inst.owned = Installer!ShipSet(inst.release)
        /\ inst.reg \in exposed \/ (site[inst.reg].manifest.owner = "cfw" => site[inst.reg].runtime # 0)
    BY <1>3, <2>1 DEF ProgressInv
  <2> QED BY <1>1, <1>9, <2>1, <2>2, <2>3, GoStep DEF Installer!RemoveStaleBackup
<1>10. CASE Installer!SetAside
  <2>1. inst.pc \in Begun /\ "publish" \in Begun \ {"copy", "commit"} /\ inst.pc = "aside"
    BY <1>10 DEF Installer!SetAside, Begun
  <2>2. /\ \A r \in Registries \ {inst.reg} : site'[r] = site[r]
        /\ site'[inst.reg].disk = site[inst.reg].disk
        /\ site'[inst.reg].manifest = site[inst.reg].manifest
    BY <1>2, <1>3, <1>10, <2>1 DEF Installer!SetAside, RegistrySet
  <2>3. inst.owned = Installer!ShipSet(inst.release)
    BY <1>3, <2>1 DEF ProgressInv
  <2> QED BY <1>1, <1>10, <2>1, <2>2, <2>3, GoStep DEF Installer!SetAside
<1>11. CASE Installer!Publish
  <2>1. inst.pc \in Begun /\ "drop" \in Begun \ {"copy", "commit"} /\ inst.pc = "publish"
    BY <1>11 DEF Installer!Publish, Begun
  <2>2. /\ \A r \in Registries \ {inst.reg} : site'[r] = site[r]
        /\ site'[inst.reg].disk = site[inst.reg].disk
        /\ site'[inst.reg].manifest = site[inst.reg].manifest
        /\ site'[inst.reg].runtime = inst.release
    BY <1>2, <1>3, <1>11, <2>1 DEF Installer!Publish, RegistrySet
  <2>3. inst.owned = Installer!ShipSet(inst.release) /\ inst.release # 0
    BY <1>3, <2>1, InstallFacts DEF ProgressInv
  <2> QED BY <1>1, <1>11, <2>1, <2>2, <2>3, GoStep DEF Installer!Publish
<1>12. CASE Installer!ReplaceFails
  <2>1. inst.pc \in Begun /\ "unwind" \in Begun \ {"copy", "commit"}
    BY <1>12 DEF Installer!ReplaceFails, Begun
  <2>2. /\ \A r \in Registries \ {inst.reg} : site'[r] = site[r]
        /\ site'[inst.reg].disk = site[inst.reg].disk
        /\ site'[inst.reg].manifest = site[inst.reg].manifest
    BY <1>2, <1>3, <1>12, <2>1 DEF Installer!ReplaceFails, RegistrySet
  <2> QED BY <1>1, <1>12, <2>1, <2>2, GoStep DEF Installer!ReplaceFails
<1>13. CASE Installer!DropBackup
  <2>1. inst.pc \in Begun /\ "cleanup" \in Begun \ {"copy", "commit"} /\ inst.pc = "drop"
    BY <1>13 DEF Installer!DropBackup, Begun
  <2>2. /\ \A r \in Registries \ {inst.reg} : site'[r] = site[r]
        /\ site'[inst.reg].disk = site[inst.reg].disk
        /\ site'[inst.reg].manifest = site[inst.reg].manifest
        /\ site'[inst.reg].runtime = site[inst.reg].runtime
    BY <1>2, <1>3, <1>13, <2>1 DEF Installer!DropBackup, RegistrySet
  <2>3. /\ inst.owned = Installer!ShipSet(inst.release) /\ site[inst.reg].runtime = inst.release
        /\ inst.release # 0
    BY <1>3, <2>1, InstallFacts DEF ProgressInv
  <2> QED BY <1>1, <1>13, <2>1, <2>2, <2>3, GoStep DEF Installer!DropBackup
<1>14. CASE Installer!Fail
  <2>1. inst.pc \in Begun /\ "unwind" \in Begun \ {"copy", "commit"}
    BY <1>14 DEF Installer!Fail, Begun
  <2> QED BY <1>1, <1>14, <2>1, GoStep DEF Installer!Fail
<1>15. CASE UNCHANGED Installer!vars
  BY <1>15 DEF Installer!vars, Installer!history, Installer!counters, InstallInd, InstallTyped,
               ManifestInv, AtRest, Coherent, Whole, Recorded, CaptureInv, OriginInv, ProgressInv,
               EditInv, Installer!FailedInstallRestores
<1> QED
  BY <1>1, <1>4, <1>5, <1>6, <1>7, <1>8, <1>9, <1>10, <1>11, <1>12, <1>13, <1>14, <1>15,
     BeginStep, CopyStep, CleanupStep, ManifestStep, CommitStep, RollbackInstallStep, CrashStep,
     EditStep
     DEF Installer!Next

(* The registries start empty or as another installer's. *)
LEMMA InstallStart == Installer!Init => InstallInd
<1> SUFFICES ASSUME Installer!Init PROVE InstallInd
  OBVIOUS
<1> USE DEF Installer!Init
<1>1. InstallTyped
  <2>1. \A r \in Registries : site[r] \in RegistrySet
    BY BlankTyped
  <2>2. site \in [Registries -> RegistrySet]
    BY <2>1
  <2> QED BY <2>2, BlankTyped, InstallFacts DEF InstallTyped, Begun, Installer!NoInstall, Releases0
<1>2. ASSUME NEW r \in Registries
      PROVE  /\ site[r].manifest.paths = {} /\ site[r].manifest.owner # "cfw"
             /\ site[r].manifest.digests = Installer!Nothing /\ site[r].runtime = 0
             /\ site[r].disk = [f \in Installer!Files |-> 0]
  BY DEF Installer!NewRegistry, Installer!NoManifest, Installer!ForeignManifest
<1>3. ASSUME NEW r \in Registries
      PROVE  /\ ManifestInv(site[r].manifest) /\ AtRest(r)
             /\ \A f \in Installer!Files : site[r].disk[f] >= -edits
  <2>1. ManifestInv(site[r].manifest)
    BY <1>2, BlankTyped DEF ManifestInv
  <2>2. edits = 0 /\ fresh[r] = 0 /\ \A f \in Installer!Files : site[r].disk[f] = 0
    BY <1>2
  <2>3. Coherent(site[r])
    BY <1>2, <2>2 DEF Coherent
  <2>4. AtRest(r)
    BY <1>2, <2>2, <2>3 DEF AtRest
  <2>5. \A f \in Installer!Files : site[r].disk[f] >= -edits
    BY <2>2
  <2> QED BY <2>1, <2>4, <2>5
<1> QED BY <1>1, <1>3 DEF InstallInd, Installer!FailedInstallRestores, Installer!NoInstall, Begun

(* Given the invariant, a registry is busy exactly when the install in it has begun. *)
LEMMA BusyIsBegun ==
    ASSUME InstallInd, NEW r \in Registries
    PROVE  Installer!Busy(r) <=> inst.pc \in Begun /\ inst.reg = r
BY DEF InstallInd, InstallTyped, Processes, Begun, Installer!Busy

(* What the invariant says of a registry at rest and of the runtime tree. *)
LEMMA InstalledIsSound ==
    ASSUME InstallInd
    PROVE  InstallerInv
<1>1. Installer!TypeOK
  <2>1. ASSUME NEW r \in Registries
        PROVE  /\ site[r].disk \in [Installer!Files -> Installer!Content]
               /\ site[r].dirs \subseteq Installer!Dirs
               /\ {site[r].runtime, site[r].backup} \subseteq Installer!Releases \cup {0}
               /\ DOMAIN site[r].manifest.digests \subseteq site[r].manifest.paths
    <3>1. site[r] \in RegistrySet /\ ManifestInv(site[r].manifest)
      BY DEF InstallInd, InstallTyped
    <3> QED BY <3>1 DEF RegistrySet, Releases0, ManifestInv
  <2>2. inst.pc # "idle" => inst.release \in Installer!Releases
                            /\ inst.owned \subseteq Installer!ShipSet(inst.release)
    BY DEF InstallInd, InstallTyped
  <2>3. fresh \in [Registries -> Installer!Releases \cup {0}]
    BY DEF InstallInd, InstallTyped, Releases0
  <2> QED BY <2>1, <2>2, <2>3 DEF Installer!TypeOK
<1>2. Installer!ManifestMatchesRuntime
  <2> SUFFICES ASSUME NEW r \in Registries \ crashed, ~Installer!Busy(r)
               PROVE  /\ site[r].manifest.paths =
                            IF site[r].runtime = 0 THEN {} ELSE Installer!ShipSet(site[r].runtime)
                      /\ \A f \in Installer!Files : site[r].disk[f] > 0 => f \in site[r].manifest.paths
    BY DEF Installer!ManifestMatchesRuntime
  <2>1. Coherent(site[r]) /\ ManifestInv(site[r].manifest)
    BY BusyIsBegun DEF InstallInd, AtRest
  <2> QED BY <2>1 DEF Coherent, ManifestInv, Recorded
<1>3. Installer!RuntimeKept
  <2> SUFFICES ASSUME NEW r \in Registries \ exposed, site[r].manifest.owner = "cfw",
                      site[r].runtime = 0
               PROVE  Installer!Busy(r) /\ inst.pc \in {"publish", "unwind"}
    BY DEF Installer!RuntimeKept
  <2>1. inst.pc \in Begun /\ inst.reg = r
    BY DEF InstallInd, AtRest
  <2>2. inst.pc \in {"publish", "unwind"}
    BY <2>1 DEF InstallInd, ProgressInv
  <2> QED BY <2>1, <2>2, BusyIsBegun
<1> QED BY <1>1, <1>2, <1>3 DEF InstallerInv, Installer!InstallerInv

(* doctor.py compares a registry that holds a whole release with that release. *)
LEMMA DoctorOnWhole ==
    ASSUME InstallInd, NEW r \in Registries, fresh[r] # 0, Whole(site[r], fresh[r])
    PROVE  Installer!DoctorPasses(r, fresh[r])
              <=> \A w \in Installer!Bundled(fresh[r]) : WrapperSource[w] # "runtime"
<1>r. PICK F \in Installer!Releases : F = fresh[r]
  BY DEF InstallInd, InstallTyped, Releases0
<1>1. F # 0 /\ site[r].runtime = F /\ \A f \in Installer!ShipSet(F) : site[r].disk[f] = F
  BY <1>r DEF Whole
<1>2. /\ \A s \in CoreSkills \cup {"cogframe"} : <<s, "SKILL">> \in Installer!ShipSet(F)
      /\ \A w \in StateWorks : <<w, "SKILL">> \in Installer!ShipSet(F)
                                  => <<w, "fingerprint">> \in Installer!ShipSet(F)
      /\ WrapperSource \in [StateWorks -> {"SKILL", "STATEWORK", "runtime"}]
  BY InstallerAssumption DEF Installer!InstallerConstants
<1>3. \A s \in CoreSkills : Installer!SkillMatches(r, s, F)
  BY <1>1, <1>2 DEF Installer!SkillMatches
<1>4. site[r].disk[<<"cogframe", "SKILL">>] = F
  BY <1>1, <1>2
<1>5. ASSUME NEW w \in Installer!Bundled(F)
      PROVE  Installer!WrapperMatches(r, w, F) <=> WrapperSource[w] # "runtime"
  <2>1. /\ w \in StateWorks /\ site[r].disk[<<w, "SKILL">>] = F
        /\ site[r].disk[<<w, "fingerprint">>] = F
        /\ WrapperSource[w] \in {"SKILL", "STATEWORK", "runtime"}
    BY <1>1, <1>2 DEF Installer!Bundled
  <2>2. CASE WrapperSource[w] = "SKILL"
    BY <1>1, <2>1, <2>2 DEF Installer!WrapperMatches
  <2>3. CASE WrapperSource[w] = "STATEWORK"
    BY <1>1, <2>1, <2>3 DEF Installer!WrapperMatches
  <2>4. CASE WrapperSource[w] = "runtime"
    BY <1>1, <2>1, <2>4 DEF Installer!WrapperMatches
  <2> QED BY <2>1, <2>2, <2>3, <2>4
<1>6. Installer!RuntimeComplete(r)
  BY <1>1 DEF Installer!RuntimeComplete
<1> QED BY <1>r, <1>1, <1>3, <1>4, <1>5, <1>6 DEF Installer!DoctorPasses

(* No step but the user's own changes a file the user wrote at rest, short of a
   requested replacement. *)
LEMMA EditsSurvive ==
    ASSUME InstallInd, [Installer!Next]_(Installer!vars)
    PROVE  Installer!UserEditKept
<1> SUFFICES ASSUME NEW r \in Registries, NEW f \in Installer!Files,
                    site[r].disk[f] \in quiet, site'[r].disk[f] # site[r].disk[f], edits' = edits
             PROVE  inst.replace
  BY DEF Installer!UserEditKept
<1>1. /\ site \in [Registries -> RegistrySet] /\ site[r] \in RegistrySet
      /\ site[r].disk \in [Installer!Files -> Installer!Content]
      /\ inst \in Processes /\ edits \in Nat
      /\ site[r].disk[f] \in Int /\ site[r].disk[f] < 0
  BY RegistryFacts, ProcessFacts DEF InstallInd, InstallTyped, RegistrySet
<1>2. inst.pc \in Begun =>
         /\ inst.reg \in Registries /\ inst.release \in Nat
         /\ inst.prev = inst.manifest /\ ManifestInv(inst.manifest) /\ EditInv
  BY InstallFacts DEF InstallInd, InstallTyped, CaptureInv, Begun
<1>3. inst.pc \in Begun => ~Recorded(inst.prev, f, site[r].disk[f])
  BY <1>2 DEF ManifestInv, Recorded
<1>4. CASE Installer!CopyFile
  <2> DEFINE g == Shipped[inst.release][inst.next]
  <2>1. inst.pc \in Begun /\ Installer!Overwritable(g)
    BY <1>4 DEF Installer!CopyFile, Begun
  <2>2. inst.reg = r /\ g = f
    BY <1>1, <1>4 DEF Installer!CopyFile, RegistrySet
  <2>3. site[r].disk[f] \notin {0, inst.release}
    BY <1>1, <1>2, <2>1
  <2> QED BY <1>3, <2>1, <2>2, <2>3 DEF Installer!Overwritable, Installer!Here, Recorded
<1>5. CASE \E g \in Installer!Files : Installer!CleanupFile(g)
  <2>1. PICK g \in Installer!Files : Installer!CleanupFile(g)
    BY <1>5
  <2>2. inst.pc \in Begun /\ Installer!Removable(g)
    BY <2>1 DEF Installer!CleanupFile, Begun, Installer!Stale
  <2>3. inst.reg = r /\ g = f
    BY <1>1, <2>1 DEF Installer!CleanupFile, RegistrySet
  <2> QED BY <1>3, <2>2, <2>3 DEF Installer!Removable, Installer!Here, Recorded
<1>6. CASE Installer!Rollback
  <2>1. inst.pc \in Begun
    BY <1>6 DEF Installer!Rollback, Begun
  <2>2. inst.reg = r /\ site'[r].disk = Installer!Restored
    BY <1>1, <1>6 DEF Installer!Rollback, RegistrySet
  <2>3. Installer!Restored[f] = IF f \in DOMAIN inst.files THEN inst.files[f] ELSE site[r].disk[f]
    BY <2>2 DEF Installer!Restored, Installer!Here
  <2> QED BY <1>2, <2>1, <2>2, <2>3 DEF EditInv
<1>7. CASE \E q \in Registries, g \in Installer!Files : Installer!Edit(q, g)
  BY <1>1, <1>7 DEF Installer!Edit
<1>8. CASE \/ Installer!CopyRefused \/ Installer!RemoveStaleBackup \/ Installer!SetAside
           \/ Installer!Publish \/ Installer!ReplaceFails \/ Installer!DropBackup
           \/ Installer!WriteManifest
  <2>1. site'[r].disk = site[r].disk
    BY <1>1, <1>8
       DEF Installer!CopyRefused, Installer!RemoveStaleBackup, Installer!SetAside,
           Installer!Publish, Installer!ReplaceFails, Installer!DropBackup,
           Installer!WriteManifest, RegistrySet
  <2> QED BY <2>1
<1>9. site' # site
  OBVIOUS
<1> QED
  BY <1>4, <1>5, <1>6, <1>7, <1>8, <1>9
     DEF Installer!Next, Installer!StartInstall, Installer!SkipRegistry, Installer!RefuseOwner,
         Installer!BeginRegistry, Installer!FinishInstall, Installer!StageRuntime,
         Installer!Commit, Installer!Fail, Installer!Crash, Installer!vars

(* Whatever releases, registries, failures, edits and deaths of the process: away from
   a dead install the manifest at rest is that of the runtime in place and names every
   file an install wrote, and no exception loses the runtime tree (_atomic_replace_directory,
   _cleanup_owned_paths, _write_owned_paths). *)
THEOREM InstallationIsSound == Installer!Spec => []InstallerInv
<1>1. InstallInd /\ [Installer!Next]_(Installer!vars) => InstallInd'
  BY InstallStep
<1>2. InstallInd => InstallerInv
  BY InstalledIsSound
<1> QED BY <1>1, <1>2, InstallStart, PTL DEF Installer!Spec

(* Wherever an install fails, its registry is left with the files, the manifest and the
   runtime it was found with, unless the user wrote there meanwhile (main's handler and
   InstallJournal.rollback). *)
THEOREM FailureRestores == Installer!Spec => []FailedInstallRestores
<1>1. InstallInd /\ [Installer!Next]_(Installer!vars) => InstallInd'
  BY InstallStep
<1>2. InstallInd => FailedInstallRestores
  BY DEF InstallInd, FailedInstallRestores
<1> QED BY <1>1, <1>2, InstallStart, PTL DEF Installer!Spec

(* doctor.py accepts an untouched commit exactly when no wrapper of it came from a
   bundle's runtime.md (check_registry; _main_impl writes the wrappers). *)
THEOREM DoctorAcceptsCommit == Installer!Spec => []DoctorAcceptsInstall
<1>1. InstallInd /\ [Installer!Next]_(Installer!vars) => InstallInd'
  BY InstallStep
<1>2. InstallInd => DoctorAcceptsInstall
  <2> SUFFICES ASSUME InstallInd, NEW r \in Registries, fresh[r] # 0, ~Installer!Busy(r)
               PROVE  Installer!DoctorPasses(r, fresh[r])
                         <=> \A w \in Installer!Bundled(fresh[r]) : WrapperSource[w] # "runtime"
    BY DEF DoctorAcceptsInstall, Installer!DoctorAcceptsInstall
  <2>1. Whole(site[r], fresh[r])
    BY BusyIsBegun DEF InstallInd, AtRest
  <2> QED BY <2>1, DoctorOnWhole
<1> QED BY <1>1, <1>2, InstallStart, PTL DEF Installer!Spec

(* A file the user wrote while nothing was installed there changes only by the user's
   hand, unless replacement was asked for (copy_owned_file, _cleanup_owned_paths,
   InstallJournal.rollback). *)
THEOREM EditsAreKept == Installer!Spec => UserEditsKept
<1>1. InstallInd /\ [Installer!Next]_(Installer!vars) => InstallInd'
  BY InstallStep
<1>2. InstallInd /\ [Installer!Next]_(Installer!vars) => [Installer!UserEditKept]_installerVars
  BY EditsSurvive
<1> QED BY <1>1, <1>2, InstallStart, PTL DEF Installer!Spec, UserEditsKept

-----------------------------------------------------------------------------
(* The standalone behavior. *)

(* When the criteria were last acted on and what number the last activity has, as a
   resume would find them. *)
Recent == journal.attention.recent
Sequence == journal.ledger.sequence

(* The criteria that had a turn since c had one. *)
Served(c) == {d \in Criteria : Recent[d] > Recent[c] /\ Sequence > Recent[c]}
(* c was acted on under a number that is still to be given: the ledger's row is lost. *)
Early(c) == IF Recent[c] > Sequence THEN 1 ELSE 0

(* Every turn that c waited for was had by another criterion or lost in a crash. *)
TurnInv ==
    \A c \in Criteria :
       /\ Recent[c] <= Sequence + 1
       /\ waited[c] + Early(c) <= Cardinality(Served(c)) + faults

(* A yielded turn is for another criterion than the one redirected last. *)
Elsewhere(a) == a.yield # 0 => a.last # <<>> /\ a.last[2] # a.yield

(* Memory is what the rows hold, and blank while the process is down. *)
InStep ==
    IF up THEN ledger = journal.ledger /\ attention = journal.attention
               /\ counters = journal.counters
    ELSE ledger = Behavior!NewLedger /\ attention = Behavior!NewAttention
         /\ counters = Behavior!NewCounters

(* A redirect that was answered is counted in the journal. *)
RedirectInv ==
    /\ Elsewhere(journal.attention)
    /\ \A k \in Behavior!Keys :
          /\ journal.attention.redirects[k] <= MaxRedirects
          /\ refused[k] <= journal.attention.redirects[k] /\ refused[k] < MaxRedirects

(* The inductive invariant of the standalone behavior. *)
BehaviorInd == Behavior!TypeOK /\ InStep /\ RedirectInv /\ TurnInv

(* A set of naturals that is not empty has a least element. *)
LEMMA LeastFact ==
    ASSUME NEW T \in SUBSET Nat, T # {}
    PROVE  \E x \in T : \A y \in T : x <= y
<1> DEFINE Below == {p \in Nat \X Nat : p[1] < p[2]}
<1>1. IsWellFoundedOn(Below, Nat)
  BY NatLessThanWellFounded DEF OpToRel
<1>2. PICK x \in T : \A y \in T : <<y, x>> \notin Below
  BY <1>1, WFMin
<1>3. ASSUME NEW y \in T PROVE x <= y
  <2>1. x \in Nat /\ y \in Nat /\ ~(y < x)
    BY <1>2
  <2> QED BY <2>1
<1> QED BY <1>2, <1>3

(* The component counts as this module does. *)
LEMMA SameCounting ==
    \A S : /\ Behavior!Cardinality(S) = Cardinality(S)
           /\ Behavior!IsFiniteSet(S) <=> IsFiniteSet(S)
<1>1. \A S : Behavior!Cardinality(S) = Cardinality(S)
  BY DEF Behavior!Cardinality, Cardinality
<1>2. \A S : Behavior!IsFiniteSet(S) <=> IsFiniteSet(S)
  BY DEF Behavior!IsFiniteSet, IsFiniteSet
<1> QED BY <1>1, <1>2

(* The constants. *)
LEMMA BehaviorFacts ==
    /\ Criteria \in SUBSET Nat /\ 0 \notin Criteria /\ IsFiniteSet(Criteria)
    /\ About \in [Actions -> Criteria \cup {0}]
    /\ WindowSize \in Nat /\ YieldThreshold \in Nat /\ MaxRedirects \in Nat \ {0}
    /\ EpochLimit \in Nat \ {0} /\ SupportLimit \in Nat \ {0}
    /\ TotalLimit \in Nat \ {0} /\ SameLimit \in Nat \ {0}
    /\ MaxEpochs \in Nat /\ MaxFaults \in Nat
<1>1. Behavior!BehaviorConstants
  BY BehaviorAssumption
<1>2. /\ Criteria \subseteq Nat \ {0} /\ IsFiniteSet(Criteria)
      /\ About \in [Actions -> Criteria \cup {0}]
  BY <1>1, SameCounting, Zenon DEF Behavior!BehaviorConstants
<1>4. Criteria \in SUBSET Nat /\ 0 \notin Criteria
  BY <1>2
<1>3. /\ \A n \in {WindowSize, YieldThreshold, MaxRedirects, SupportLimit, TotalLimit,
        EpochLimit, SameLimit} : n \in Nat \ {0}
      /\ \A n \in {MaxPending, MaxSequence, MaxRevision, MaxEpochs, MaxFaults} : n \in Nat
  BY <1>1 DEF Behavior!BehaviorConstants
<1> QED BY <1>2, <1>3, <1>4

(* The window's order has a first criterion. *)
LEMMA FirstFact ==
    ASSUME NEW a \in Behavior!Attention, NEW S \in SUBSET Criteria, S # {}
    PROVE  /\ Behavior!First(S, a) \in S
           /\ \A d \in S \ {Behavior!First(S, a)} : Behavior!Before(a, Behavior!First(S, a), d)
<1> DEFINE P == {c \in S : ~Behavior!Late(a, c)}
           Q == IF P # {} THEN P ELSE S
           late(c) == Behavior!Late(a, c)
<1>1. Q # {} /\ Q \in SUBSET S /\ Q \in SUBSET Criteria
  OBVIOUS
<1>2. /\ \A c \in Criteria : a.recent[c] \in Nat /\ a.retry[c] \in Nat
      /\ Criteria \in SUBSET Nat
  BY BehaviorFacts DEF Behavior!Attention
<1>3. PICK c1 \in Q : \A d \in Q : a.recent[c1] <= a.recent[d]
  <2> DEFINE T == {a.recent[d] : d \in Q}
  <2>1. T \in SUBSET Nat /\ T # {}
    <3> HIDE DEF Q
    <3> QED BY <1>1, <1>2
  <2>2. PICK x \in T : \A y \in T : x <= y
    <3> HIDE DEF T
    <3> QED BY <2>1, LeastFact
  <2> HIDE DEF Q
  <2> QED BY <2>2
<1> DEFINE Q2 == {d \in Q : a.recent[d] = a.recent[c1]}
<1>4. PICK c2 \in Q2 : \A d \in Q2 : a.retry[c2] <= a.retry[d]
  <2> DEFINE T == {a.retry[d] : d \in Q2}
  <2>0. Q2 \in SUBSET Criteria /\ c1 \in Q2
    <3> HIDE DEF Q
    <3> QED BY <1>1, <1>3
  <2>1. T \in SUBSET Nat /\ T # {}
    <3> HIDE DEF Q2
    <3> QED BY <2>0, <1>2
  <2>2. PICK x \in T : \A y \in T : x <= y
    <3> HIDE DEF T
    <3> QED BY <2>1, LeastFact
  <2> HIDE DEF Q2
  <2> QED BY <2>2
<1> DEFINE Q3 == {d \in Q2 : a.retry[d] = a.retry[c2]}
<1>5. PICK c \in Q3 : \A d \in Q3 : c <= d
  <2>1. Q3 \in SUBSET Nat /\ Q3 # {}
    BY <1>1, <1>2
  <2> QED BY <2>1, LeastFact
<1>6. ASSUME NEW d \in S \ {c} PROVE Behavior!Before(a, c, d)
  <2>0. c \in Q /\ c \in S /\ c \in Nat /\ d \in Nat /\ d # c
        /\ a.recent[c] \in Nat /\ a.recent[d] \in Nat /\ a.retry[c] \in Nat /\ a.retry[d] \in Nat
    BY <1>1, <1>2
  <2>1. CASE d \notin Q
    <3>1. ~late(c) /\ late(d)
      BY <2>0, <2>1
    <3> HIDE DEF late
    <3> QED BY <3>1 DEF Behavior!Before, late
  <2>2. CASE d \in Q
    <3>1. late(c) = late(d)
      <4>0. c \in Q /\ d \in Q /\ Q \in SUBSET S
        BY <1>1, <2>0, <2>2
      <4>1. CASE P # {}
        <5>1. c \in P /\ d \in P
          BY <4>0, <4>1
        <5>2. ~Behavior!Late(a, c) /\ ~Behavior!Late(a, d)
          BY <5>1
        <5> QED BY <5>2 DEF Behavior!Late
      <4>2. CASE P = {}
        <5>1. c \in S /\ d \in S
          BY <4>0
        <5>2. Behavior!Late(a, c) /\ Behavior!Late(a, d)
          BY <5>1, <4>2
        <5> QED BY <5>2 DEF Behavior!Late
      <4> QED BY <4>1, <4>2
    <3>2. a.recent[c] < a.recent[d] \/ a.recent[c] = a.recent[d]
      BY <1>3, <2>0, <2>2
    <3>3. CASE a.recent[c] < a.recent[d]
      BY <3>1, <3>3 DEF Behavior!Before
    <3>4. CASE a.recent[c] = a.recent[d]
      <4>1. d \in Q2
        BY <3>4, <2>2
      <4>2. \/ a.retry[c] < a.retry[d]
            \/ a.retry[c] = a.retry[d] /\ c < d
        <5>1. CASE a.retry[c] = a.retry[d]
          <6>1. d \in Q3
            BY <5>1, <4>1, <1>5
          <6> QED BY <5>1, <6>1, <1>5, <2>0
        <5>2. CASE a.retry[c] # a.retry[d]
          <6>1. a.retry[c] <= a.retry[d]
            BY <4>1, <1>4, <1>5
          <6> QED BY <5>2, <6>1, <2>0
        <5> QED BY <5>1, <5>2
      <4> QED BY <3>1, <3>4, <4>2 DEF Behavior!Before
    <3> QED BY <3>2, <3>3, <3>4
  <2> QED BY <2>1, <2>2
<1>7. c \in S
  BY <1>1
<1> QED BY <1>6, <1>7 DEF Behavior!First

-----------------------------------------------------------------------------
(* The orders in which operations commit their rows. *)
Attentive == <<"attention", "ledger", "counters">>
Rows == {Attentive, <<"ledger", "attention", "counters">>,
         <<"counters", "ledger", "attention">>, <<"ledger">>, <<"ledger", "counters">>}

(* What an operation's rows leave in the journal: each row is as before or new, all
   are new unless the process died, and an earlier row is there before a later one. *)
LEMMA CommitFact ==
    ASSUME NEW l, NEW a, NEW n, NEW left, NEW rows \in Rows,
           Behavior!Commit(l, a, n, rows, left)
    PROVE  /\ journal'.ledger \in {l, journal.ledger}
           /\ journal'.attention \in {a, journal.attention}
           /\ journal'.counters \in {n, journal.counters}
           /\ journal' = [ledger |-> journal'.ledger, attention |-> journal'.attention,
                          counters |-> journal'.counters]
           /\ \/ Behavior!Die
              \/ /\ ledger' = l /\ attention' = a /\ counters' = n /\ pending' = left
                 /\ UNCHANGED <<up, faults, terminated, offered>>
                 /\ journal'.ledger = l
                 /\ rows # <<"ledger">> => journal'.counters = n
                 /\ rows \notin {<<"ledger">>, <<"ledger", "counters">>} => journal'.attention = a
           /\ rows = Attentive => \/ journal'.attention = a
                                  \/ journal'.attention = journal.attention
                                     /\ journal'.ledger = journal.ledger
           /\ rows = <<"ledger">> => journal'.attention = journal.attention
                                     /\ journal'.counters = journal.counters
           /\ rows = <<"ledger", "counters">> => journal'.attention = journal.attention
           /\ UNCHANGED <<contradicted, workflow, epochs>>
<1> DEFINE size == Cardinality(DOMAIN rows)
<1>1. PICK k \in 0..size :
        /\ journal' =
             [ledger |-> IF \E i \in 1..k : rows[i] = "ledger" THEN l ELSE journal.ledger,
              attention |-> IF \E i \in 1..k : rows[i] = "attention" THEN a ELSE journal.attention,
              counters |-> IF \E i \in 1..k : rows[i] = "counters" THEN n ELSE journal.counters]
        /\ IF k = size
           THEN /\ ledger' = l /\ attention' = a /\ counters' = n /\ pending' = left
                /\ UNCHANGED <<up, faults, terminated, offered>>
           ELSE Behavior!Die
  BY SameCounting DEF Behavior!Commit
<1>2. UNCHANGED <<contradicted, workflow, epochs>>
  BY DEF Behavior!Commit
<1>3. Cardinality(1..1) = 1 /\ Cardinality(1..2) = 2 /\ Cardinality(1..3) = 3
  <2>1. ASSUME NEW m \in Nat \ {0} PROVE Cardinality(1..m) = m
    BY FS_Interval
  <2>2. 1 \in Nat \ {0} /\ 2 \in Nat \ {0} /\ 3 \in Nat \ {0}
    OBVIOUS
  <2> QED BY <2>1, <2>2, Zenon
<1>4. DOMAIN rows \in {1..1, 1..2, 1..3}
      /\ (rows = <<"ledger">> => DOMAIN rows = 1..1)
      /\ (rows = <<"ledger", "counters">> => DOMAIN rows = 1..2)
      /\ (rows \notin {<<"ledger">>, <<"ledger", "counters">>} => DOMAIN rows = 1..3)
  BY DEF Rows, Attentive
<1>5. /\ rows = <<"ledger">> => size = 1
      /\ rows = <<"ledger", "counters">> => size = 2
      /\ rows \notin {<<"ledger">>, <<"ledger", "counters">>} => size = 3
  BY <1>3, <1>4
<1> HIDE DEF size
<1>6. /\ journal'.ledger = IF \E i \in 1..k : rows[i] = "ledger" THEN l ELSE journal.ledger
      /\ journal'.attention = IF \E i \in 1..k : rows[i] = "attention" THEN a ELSE journal.attention
      /\ journal'.counters = IF \E i \in 1..k : rows[i] = "counters" THEN n ELSE journal.counters
      /\ journal' = [ledger |-> journal'.ledger, attention |-> journal'.attention,
                     counters |-> journal'.counters]
  BY <1>1
<1>7. CASE rows = Attentive
  <2>1. size = 3 /\ rows[1] = "attention" /\ rows[2] = "ledger" /\ rows[3] = "counters"
        /\ rows # <<"ledger">> /\ rows # <<"ledger", "counters">>
    BY <1>5, <1>7 DEF Attentive
  <2>2. k \in 0..3
    BY <2>1, <1>1
  <2> QED BY <1>1, <1>2, <1>6, <1>7, <2>1, <2>2
<1>8. CASE rows = <<"ledger", "attention", "counters">>
  <2>1. size = 3 /\ rows[2] = "attention" /\ rows[1] = "ledger" /\ rows[3] = "counters"
        /\ rows # <<"ledger">> /\ rows # <<"ledger", "counters">> /\ rows # Attentive
    BY <1>5, <1>8 DEF Attentive
  <2>2. k \in 0..3
    BY <2>1, <1>1
  <2> QED BY <1>1, <1>2, <1>6, <2>1, <2>2
<1>9. CASE rows = <<"counters", "ledger", "attention">>
  <2>1. size = 3 /\ rows[3] = "attention" /\ rows[2] = "ledger" /\ rows[1] = "counters"
        /\ rows # <<"ledger">> /\ rows # <<"ledger", "counters">> /\ rows # Attentive
    BY <1>5, <1>9 DEF Attentive
  <2>2. k \in 0..3
    BY <2>1, <1>1
  <2> QED BY <1>1, <1>2, <1>6, <2>1, <2>2
<1>10. CASE rows = <<"ledger">>
  <2>1. size = 1 /\ rows[1] = "ledger" /\ rows # Attentive /\ rows # <<"ledger", "counters">>
    BY <1>5, <1>10 DEF Attentive
  <2>2. k \in 0..1
    BY <2>1, <1>1
  <2> QED BY <1>1, <1>2, <1>6, <1>10, <2>1, <2>2
<1>11. CASE rows = <<"ledger", "counters">>
  <2>1. size = 2 /\ rows[1] = "ledger" /\ rows[2] = "counters" /\ rows # Attentive
        /\ rows # <<"ledger">>
    BY <1>5, <1>11 DEF Attentive
  <2>2. k \in 0..2
    BY <2>1, <1>1
  <2> QED BY <1>1, <1>2, <1>6, <1>11, <2>1, <2>2
<1> QED BY <1>7, <1>8, <1>9, <1>10, <1>11 DEF Rows

-----------------------------------------------------------------------------
(* The redirect an attention remembers, or none. *)
Lasts == (Actions \X Behavior!Keys) \cup {<<>>}

(* The fields of an attention. *)
LEMMA AttentionSet ==
    /\ Behavior!Attention = [retry : [Criteria -> Nat], recent : [Criteria -> Nat],
                             redirects : [Behavior!Keys -> Nat], last : Lasts,
                             yield : Behavior!Keys, guidance : BOOLEAN, revision : Nat]
    /\ <<>> \in Lasts /\ 0 \in Behavior!Keys
    /\ \A d \in Actions, k \in Behavior!Keys : <<d, k>> \in Lasts
BY DEF Behavior!Attention, Behavior!Keys, Lasts

(* The attention after each operation is well formed. *)
LEMMA AttentionTypes ==
    ASSUME NEW a \in Behavior!Attention
    PROVE  /\ Behavior!ResetRedirects(a) \in Behavior!Attention
           /\ \A c \in Criteria \cup {0}, s \in Nat, changed \in BOOLEAN :
                 Behavior!Acted(a, c, s, changed) \in Behavior!Attention
           /\ \A c \in Criteria : Behavior!Progressed(a, c) \in Behavior!Attention
           /\ \A c \in Criteria, s \in Nat :
                 Behavior!FailedApproach(a, c, s) \in Behavior!Attention
<1>1. ASSUME NEW b \in Behavior!Attention
      PROVE  Behavior!ResetRedirects(b) \in Behavior!Attention
  BY AttentionSet DEF Behavior!ResetRedirects
<1>2. ASSUME NEW c \in Criteria \cup {0}, NEW s \in Nat, NEW changed \in BOOLEAN
      PROVE  Behavior!Acted(a, c, s, changed) \in Behavior!Attention
  <2> DEFINE b == [a EXCEPT !.recent = [d \in Criteria |-> IF d = c THEN s ELSE a.recent[d]],
                            !.revision = @ + 1]
           f == [d \in Criteria |-> IF d = c THEN s ELSE a.recent[d]]
  <2>1. b \in Behavior!Attention
    <3>1. f \in [Criteria -> Nat]
      BY AttentionSet
    <3> DEFINE n == a.revision + 1
    <3>2. b = [a EXCEPT !.recent = f, !.revision = n] /\ n \in Nat
      BY AttentionSet
    <3> HIDE DEF f, b, n
    <3> QED BY <3>1, <3>2, AttentionSet
  <2> QED BY <2>1, <1>1 DEF Behavior!Acted
<1>3. ASSUME NEW c \in Criteria
      PROVE  Behavior!Progressed(a, c) \in Behavior!Attention
  <2>1. [a EXCEPT !.retry[c] = 0, !.revision = @ + 1] \in Behavior!Attention
    BY AttentionSet
  <2> QED BY <2>1, <1>1 DEF Behavior!Progressed
<1>4. ASSUME NEW c \in Criteria, NEW s \in Nat
      PROVE  Behavior!FailedApproach(a, c, s) \in Behavior!Attention
  <2> DEFINE f == [a.recent EXCEPT ![c] = s]
             g == [a.retry EXCEPT ![c] = @ + 1]
  <2>1. f \in [Criteria -> Nat] /\ g \in [Criteria -> Nat]
    BY AttentionSet
  <2> DEFINE n == a.revision + 1
  <2>2. Behavior!FailedApproach(a, c, s) = [a EXCEPT !.retry = g, !.recent = f, !.revision = n]
        /\ n \in Nat
    BY AttentionSet DEF Behavior!FailedApproach
  <2> HIDE DEF f, g, n
  <2> QED BY <2>1, <2>2, AttentionSet
<1> QED BY <1>1, <1>2, <1>3, <1>4

(* What a redirect answers and leaves. *)
LEMMA RedirectedFact ==
    ASSUME NEW l \in Behavior!Ledger, NEW a \in Behavior!Attention, NEW d \in Actions,
           NEW key \in Behavior!Keys, Elsewhere(a), ~(key # 0 /\ key = a.yield),
           \A k \in Behavior!Keys : a.redirects[k] <= MaxRedirects
    PROVE  LET b == Behavior!Redirected(l, a, d, key).attention
               answer == Behavior!Redirected(l, a, d, key).answer
           IN  /\ b \in Behavior!Attention /\ Elsewhere(b) /\ b.recent = a.recent
               /\ b = a \/ b.revision = a.revision + 1
               /\ \A k \in Behavior!Keys : /\ a.redirects[k] <= b.redirects[k]
                                            /\ b.redirects[k] <= MaxRedirects
               /\ answer = "redirect" => /\ b.redirects[key] = a.redirects[key] + 1
                                         /\ b.redirects[key] < MaxRedirects
<1> DEFINE count == a.redirects[key] + 1
           noted == [a EXCEPT !.redirects[key] = count, !.last = <<d, key>>, !.revision = @ + 1]
           others == Behavior!Others(l, noted, key)
           first == Behavior!First(others, noted)
<1>1. MaxRedirects \in Nat \ {0} /\ 0 \notin Criteria
  BY BehaviorFacts
<1>2. /\ noted \in Behavior!Attention /\ noted.recent = a.recent /\ noted.revision = a.revision + 1
      /\ noted.last = <<d, key>> /\ noted.yield = a.yield /\ a.revision \in Nat
      /\ a.redirects \in [Behavior!Keys -> Nat] /\ a.yield \in Behavior!Keys
      /\ noted.redirects = [a.redirects EXCEPT ![key] = count]
  <2>1. count \in Nat
    BY AttentionSet
  <2> DEFINE f == [a.redirects EXCEPT ![key] = count]
  <2>2. f \in [Behavior!Keys -> Nat]
    <3> HIDE DEF count
    <3> QED BY <2>1, AttentionSet
  <2> DEFINE n == a.revision + 1
  <2>3. noted = [a EXCEPT !.redirects = f, !.last = <<d, key>>, !.revision = n] /\ n \in Nat
    BY AttentionSet
  <2>4. <<d, key>> \in Lasts
    BY AttentionSet
  <2>5. ASSUME NEW x \in Lasts
        PROVE  [a EXCEPT !.redirects = f, !.last = x, !.revision = n] \in Behavior!Attention
    <3> HIDE DEF f, n
    <3> QED BY <2>2, <2>3, AttentionSet
  <2>6. noted \in Behavior!Attention
    <3> HIDE DEF noted, f, n
    <3> QED BY <2>3, <2>4, <2>5
  <2> QED BY <2>3, <2>6, AttentionSet
<1>3. others # {} => first \in Criteria /\ first # key /\ first # 0
  <2>1. others \in SUBSET Criteria /\ key \notin others
    BY DEF Behavior!Others, Behavior!Window, Behavior!Runnable
  <2> HIDE DEF others, noted
  <2> QED BY <1>1, <1>2, <2>1, FirstFact
<1> DEFINE given == [noted EXCEPT !.guidance = TRUE]
           yielded == [noted EXCEPT !.yield = first, !.guidance = TRUE]
<1>4. Elsewhere(noted) /\ Elsewhere(given) /\ given \in Behavior!Attention
      /\ given.recent = a.recent /\ given.revision = a.revision + 1
      /\ given.redirects = noted.redirects
  <2>1. given.last = <<d, key>> /\ given.yield = a.yield /\ given \in Behavior!Attention
        /\ given.recent = a.recent /\ given.revision = a.revision + 1
        /\ given.redirects = noted.redirects
    BY <1>2 DEF Behavior!Attention
  <2>2. <<d, key>> # <<>> /\ <<d, key>>[2] = key
    OBVIOUS
  <2> HIDE DEF given, noted
  <2> QED BY <2>1, <2>2, <1>2 DEF Elsewhere
<1>5. others # {} => /\ Elsewhere(yielded) /\ yielded \in Behavior!Attention
                     /\ yielded.recent = a.recent /\ yielded.revision = a.revision + 1
                     /\ yielded.redirects = noted.redirects
  <2> HAVE others # {}
  <2> HIDE DEF first, others
  <2>1. yielded.last = <<d, key>> /\ yielded.yield = first /\ yielded \in Behavior!Attention
        /\ yielded.recent = a.recent /\ yielded.revision = a.revision + 1
        /\ yielded.redirects = noted.redirects
    BY <1>2, <1>3 DEF Behavior!Attention, Behavior!Keys
  <2>2. <<d, key>> # <<>> /\ <<d, key>>[2] = key
    OBVIOUS
  <2> HIDE DEF yielded, noted
  <2> QED BY <2>1, <2>2, <1>2, <1>3 DEF Elsewhere
<1>6. ~Behavior!Spent(a, key) =>
         \A k \in Behavior!Keys : /\ a.redirects[k] <= noted.redirects[k]
                                  /\ noted.redirects[k] <= MaxRedirects
                                  /\ noted.redirects[key] = count
  <2>1. \A k \in Behavior!Keys : a.redirects[k] \in Nat
    BY <1>2
  <2> HIDE DEF noted
  <2> QED BY <1>1, <1>2, <2>1 DEF Behavior!Spent
<1> DEFINE R == Behavior!Redirected(l, a, d, key)
<1>7. \/ R.answer \in {"repeat", "limit"} /\ R.attention = a
      \/ /\ ~Behavior!Spent(a, key)
         /\ \/ R.answer = "redirect" /\ R.attention = given /\ count < MaxRedirects
            \/ R.answer = "yield" /\ R.attention = yielded /\ others # {}
            \/ R.answer = "limit" /\ R.attention = noted
  <2>1. R = CASE a.last = <<d, key>> -> [answer |-> "repeat", attention |-> a]
         [] a.last # <<d, key>> /\ Behavior!Spent(a, key) -> [answer |-> "limit", attention |-> a]
         [] OTHER ->
       CASE count < MaxRedirects -> [answer |-> "redirect", attention |-> given]
         [] count >= MaxRedirects /\ others # {} -> [answer |-> "yield", attention |-> yielded]
         [] OTHER -> [answer |-> "limit", attention |-> noted]
    BY DEF Behavior!Redirected
  <2> HIDE DEF given, yielded, noted, others, R, count
  <2>2. CASE a.last = <<d, key>>
    BY <2>1, <2>2
  <2>3. CASE a.last # <<d, key>> /\ Behavior!Spent(a, key)
    BY <2>1, <2>3
  <2>4. CASE a.last # <<d, key>> /\ ~Behavior!Spent(a, key)
    <3>1. R = CASE count < MaxRedirects -> [answer |-> "redirect", attention |-> given]
         [] count >= MaxRedirects /\ others # {} -> [answer |-> "yield", attention |-> yielded]
         [] OTHER -> [answer |-> "limit", attention |-> noted]
      BY <2>1, <2>4
    <3>2. CASE count < MaxRedirects
      BY <3>1, <3>2, <2>4
    <3>3. CASE ~(count < MaxRedirects)
      <4>1. count >= MaxRedirects
        BY <1>1, <1>2, <3>3 DEF count
      <4> QED BY <3>1, <3>3, <4>1, <2>4
    <3> QED BY <3>2, <3>3
  <2> QED BY <2>2, <2>3, <2>4
<1> HIDE DEF given, yielded, noted, others, R
<1>8. \A k \in Behavior!Keys : a.redirects[k] <= a.redirects[k]
  BY <1>2
<1>9. CASE R.answer \in {"repeat", "limit"} /\ R.attention = a
  BY <1>8, <1>9 DEF R
<1>10. CASE ~Behavior!Spent(a, key) /\ R.answer = "redirect" /\ R.attention = given
            /\ count < MaxRedirects
  BY <1>4, <1>6, <1>10 DEF R
<1>11. CASE ~Behavior!Spent(a, key) /\ R.answer = "yield" /\ R.attention = yielded /\ others # {}
  BY <1>5, <1>6, <1>11 DEF R
<1>12. CASE ~Behavior!Spent(a, key) /\ R.answer = "limit" /\ R.attention = noted
  BY <1>2, <1>4, <1>6, <1>12 DEF R
<1> QED BY <1>7, <1>9, <1>10, <1>11, <1>12

-----------------------------------------------------------------------------
(* The ledger after a committed action. *)
LEMMA CommittedFact ==
    ASSUME NEW l \in Behavior!Ledger, NEW c \in Criteria \cup {0}, NEW changed \in BOOLEAN
    PROVE  /\ Behavior!Committed(l, c, changed) \in Behavior!Ledger
           /\ Behavior!Committed(l, c, changed).sequence = l.sequence + 1
           /\ Behavior!Committed(l, c, changed).revision = l.revision + 1
           /\ \A d \in Criteria \ {c} :
                 Behavior!Committed(l, c, changed).status[d] = l.status[d]
<1> DEFINE s1 == l.sequence + 1
           r1 == l.revision + 1
           r2 == l.revision + 2
           F == [Criteria -> Behavior!Status]
<1>1. s1 \in Nat /\ r1 \in Nat /\ r2 \in Nat /\ l.status \in F
      /\ Behavior!Ledger = [sequence : Nat, revision : Nat, status : F, due : SUBSET Criteria,
                            blockers : BOOLEAN]
  BY DEF Behavior!Ledger
<1>2. \A e \in Criteria, x \in {"active", "partially_observed", "satisfied"} :
         [l.status EXCEPT ![e] = x] \in F
  BY DEF Behavior!Ledger, Behavior!Status
<1> DEFINE moved == [l EXCEPT !.sequence = s1, !.revision = r1]
           g == [l.status EXCEPT ![c] = "active"]
           more == [moved EXCEPT !.status = g, !.due = @ \cup {c}]
<1>3. moved \in Behavior!Ledger /\ moved.sequence = s1 /\ moved.revision = r1
      /\ moved.status = l.status
  <2> HIDE DEF s1, r1, F
  <2> QED BY <1>1
<1>4. Behavior!Committed(l, c, changed) = IF changed /\ c # 0 THEN more ELSE moved
  <2>1. moved = [l EXCEPT !.sequence = @ + 1, !.revision = @ + 1]
    BY DEF Behavior!Ledger
  <2>2. more = [moved EXCEPT !.status[c] = "active", !.due = @ \cup {c}]
    BY <1>3 DEF Behavior!Ledger
  <2> HIDE DEF moved, more
  <2> QED BY <2>1, <2>2 DEF Behavior!Committed
<1>5. changed /\ c # 0 => /\ more \in Behavior!Ledger /\ more.sequence = s1
                         /\ more.revision = r1 /\ more.status = g
  <2> HAVE changed /\ c # 0
  <2>1. g \in F /\ c \in Criteria
    BY <1>2
  <2> HIDE DEF moved, g, F, s1, r1
  <2> QED BY <1>1, <1>3, <2>1
<1>6. changed /\ c # 0 => \A d \in Criteria \ {c} : g[d] = l.status[d]
  BY <1>1
<1>7. /\ Behavior!Committed(l, c, changed) \in Behavior!Ledger
       /\ Behavior!Committed(l, c, changed).sequence = s1
       /\ Behavior!Committed(l, c, changed).revision = r1
       /\ \A d \in Criteria \ {c} : Behavior!Committed(l, c, changed).status[d] = l.status[d]
  <2> HIDE DEF moved, more, g, s1, r1
  <2> QED BY <1>3, <1>4, <1>5, <1>6
<1> QED BY <1>7

(* The ledger and the counters after each operation are well formed. *)
LEMMA LedgerTypes ==
    ASSUME NEW l \in Behavior!Ledger
    PROVE  /\ \A c \in Criteria :
                 /\ [l EXCEPT !.status[c] = "partially_observed", !.sequence = @ + 1,
                              !.revision = @ + 1] \in Behavior!Ledger
                 /\ [l EXCEPT !.status[c] = "satisfied", !.due = @ \ {c}, !.revision = @ + 1]
                       \in Behavior!Ledger
           /\ [l EXCEPT !.blockers = TRUE, !.sequence = @ + 1, !.revision = @ + 2]
                 \in Behavior!Ledger
           /\ [l EXCEPT !.blockers = FALSE, !.revision = @ + 1] \in Behavior!Ledger
           /\ [l EXCEPT !.revision = @ + 1] \in Behavior!Ledger
<1> DEFINE s1 == l.sequence + 1
           r1 == l.revision + 1
           r2 == l.revision + 2
           F == [Criteria -> Behavior!Status]
<1>1. s1 \in Nat /\ r1 \in Nat /\ r2 \in Nat /\ l.status \in F
      /\ Behavior!Ledger = [sequence : Nat, revision : Nat, status : F, due : SUBSET Criteria,
                            blockers : BOOLEAN]
  BY DEF Behavior!Ledger
<1>2. \A c \in Criteria, x \in {"active", "partially_observed", "satisfied"} :
         [l.status EXCEPT ![c] = x] \in F
  BY DEF Behavior!Ledger, Behavior!Status
<1>4. ASSUME NEW c \in Criteria
      PROVE  /\ [l EXCEPT !.status[c] = "partially_observed", !.sequence = @ + 1,
                          !.revision = @ + 1] \in Behavior!Ledger
             /\ [l EXCEPT !.status[c] = "satisfied", !.due = @ \ {c}, !.revision = @ + 1]
                   \in Behavior!Ledger
  <2> DEFINE g == [l.status EXCEPT ![c] = "partially_observed"]
             h == [l.status EXCEPT ![c] = "satisfied"]
             b1 == [l EXCEPT !.status[c] = "partially_observed", !.sequence = @ + 1,
                             !.revision = @ + 1]
             b2 == [l EXCEPT !.status[c] = "satisfied", !.due = @ \ {c}, !.revision = @ + 1]
  <2>1. g \in F /\ h \in F
    BY <1>2
  <2>2. /\ b1 = [l EXCEPT !.status = g, !.sequence = s1, !.revision = r1]
        /\ b2 = [l EXCEPT !.status = h, !.due = @ \ {c}, !.revision = r1]
    BY DEF Behavior!Ledger
  <2> HIDE DEF g, h, s1, r1, F, b1, b2
  <2>3. b1 \in Behavior!Ledger /\ b2 \in Behavior!Ledger
    BY <1>1, <2>1, <2>2
  <2> QED BY <2>3 DEF b1, b2
<1>5. /\ [l EXCEPT !.blockers = TRUE, !.sequence = s1, !.revision = r2] \in Behavior!Ledger
      /\ [l EXCEPT !.blockers = FALSE, !.revision = r1] \in Behavior!Ledger
      /\ [l EXCEPT !.revision = r1] \in Behavior!Ledger
  <2> HIDE DEF s1, r1, r2, F
  <2> QED BY <1>1
<1> QED BY <1>4, <1>5

(* Blank memory is well formed. *)
LEMMA NewTypes ==
    /\ Behavior!NewLedger \in Behavior!Ledger /\ Behavior!NewAttention \in Behavior!Attention
    /\ Behavior!NewCounters \in Behavior!Counters /\ Elsewhere(Behavior!NewAttention)
    /\ \A k \in Behavior!Keys : Behavior!NewAttention.redirects[k] = 0
    /\ \A c \in Criteria : Behavior!NewAttention.recent[c] = 0
    /\ Behavior!NewLedger.sequence = 0
<1>1. Behavior!NewLedger \in Behavior!Ledger /\ Behavior!NewLedger.sequence = 0
  BY DEF Behavior!NewLedger, Behavior!Ledger, Behavior!Status
<1>2. Behavior!NewAttention \in Behavior!Attention
  BY AttentionSet DEF Behavior!NewAttention
<1>3. Behavior!NewCounters \in Behavior!Counters
  BY BehaviorFacts DEF Behavior!NewCounters, Behavior!Counters
<1> QED BY <1>1, <1>2, <1>3 DEF Behavior!NewAttention, Elsewhere

(* Types of the session, and of what an operation may touch beside it. *)
SessionTyped ==
    /\ up \in BOOLEAN
    /\ ledger \in Behavior!Ledger /\ attention \in Behavior!Attention
    /\ counters \in Behavior!Counters
    /\ journal \in [ledger : Behavior!Ledger, attention : Behavior!Attention,
                     counters : Behavior!Counters]
    /\ pending \in SUBSET Actions
    /\ contradicted \in BOOLEAN /\ terminated \in BOOLEAN
    /\ workflow \in Nat /\ offered.legal \in SUBSET Routes
    /\ epochs \in 0..MaxEpochs /\ faults \in 0..MaxFaults

(* The types but for the history. *)
LEMMA TypedFact ==
    Behavior!TypeOK <=> /\ SessionTyped
                        /\ refused \in [Behavior!Keys -> Nat] /\ waited \in [Criteria -> Nat]
                        /\ \A k \in Behavior!Keys : attention.redirects[k] <= MaxRedirects
BY DEF Behavior!TypeOK, SessionTyped

(* The process dies. *)
LEMMA DieFact ==
    ASSUME Behavior!TypeOK, Behavior!Die
    PROVE  /\ up' = FALSE /\ faults' = faults + 1 /\ faults' \in 0..MaxFaults
           /\ ledger' = Behavior!NewLedger /\ attention' = Behavior!NewAttention
           /\ counters' = Behavior!NewCounters /\ pending' \in SUBSET Actions
           /\ terminated' \in BOOLEAN /\ offered' = Behavior!NoRecommendation
           /\ offered'.legal = {}
<1>1. faults \in Nat /\ MaxFaults \in Nat /\ faults < MaxFaults /\ faults' = faults + 1
  BY BehaviorFacts DEF Behavior!Die, Behavior!TypeOK
<1>2. faults' \in 0..MaxFaults
  BY <1>1
<1> QED BY <1>1, <1>2 DEF Behavior!Die, Behavior!NoRecommendation

(* An operation that commits rows keeps the types, and memory in step. *)
LEMMA CommitKeeps ==
    ASSUME Behavior!TypeOK, InStep, up, NEW l \in Behavior!Ledger, NEW a \in Behavior!Attention,
           NEW n \in Behavior!Counters, NEW left \in SUBSET Actions, NEW rows \in Rows,
           Behavior!Commit(l, a, n, rows, left),
           rows = <<"ledger">> => a = attention /\ n = counters,
           rows = <<"ledger", "counters">> => a = attention
    PROVE  SessionTyped' /\ InStep' /\ faults' \in {faults, faults + 1}
<1>1. SessionTyped /\ faults \in Nat
  BY TypedFact, BehaviorFacts DEF SessionTyped
<1>2. journal' \in [ledger : Behavior!Ledger, attention : Behavior!Attention,
                    counters : Behavior!Counters]
  <2>1. /\ journal'.ledger \in Behavior!Ledger /\ journal'.attention \in Behavior!Attention
        /\ journal'.counters \in Behavior!Counters
    BY <1>1, CommitFact DEF SessionTyped
  <2> DEFINE x == journal'.ledger
             y == journal'.attention
             z == journal'.counters
  <2>2. journal' = [ledger |-> x, attention |-> y, counters |-> z]
        /\ x \in Behavior!Ledger /\ y \in Behavior!Attention /\ z \in Behavior!Counters
    BY <2>1, CommitFact
  <2> HIDE DEF x, y, z
  <2> QED BY <2>2
<1>3. CASE Behavior!Die
  <2>1. UNCHANGED <<contradicted, workflow, epochs>>
    BY CommitFact
  <2> QED BY <1>1, <1>2, <1>3, <2>1, DieFact, NewTypes DEF SessionTyped, InStep
<1>4. CASE ~Behavior!Die
  <2>1. /\ ledger' = l /\ attention' = a /\ counters' = n /\ pending' = left
        /\ UNCHANGED <<up, faults, terminated, offered, contradicted, workflow, epochs>>
        /\ journal'.ledger = l
        /\ rows # <<"ledger">> => journal'.counters = n
        /\ rows \notin {<<"ledger">>, <<"ledger", "counters">>} => journal'.attention = a
        /\ rows = <<"ledger">> => journal'.attention = journal.attention
                                  /\ journal'.counters = journal.counters
        /\ rows = <<"ledger", "counters">> => journal'.attention = journal.attention
    BY <1>4, CommitFact
  <2>2. journal'.attention = a /\ journal'.counters = n
    <3> HIDE DEF Rows
    <3> QED BY <2>1 DEF InStep
  <2>3. InStep'
    BY <2>1, <2>2 DEF InStep
  <2> QED BY <1>1, <1>2, <2>1, <2>3 DEF SessionTyped
<1> QED BY <1>3, <1>4

-----------------------------------------------------------------------------
(* The counts in a well typed state, and after a step. *)
LEMMA CountTypes ==
    /\ Behavior!TypeOK => /\ Recent \in [Criteria -> Nat] /\ Sequence \in Nat /\ faults \in Nat
                          /\ waited \in [Criteria -> Nat]
    /\ Behavior!TypeOK' => /\ Recent' \in [Criteria -> Nat] /\ Sequence' \in Nat
                           /\ faults' \in Nat /\ waited' \in [Criteria -> Nat]
<1>1. MaxFaults \in Nat
  BY BehaviorFacts
<1>2. \A a \in Behavior!Attention, l \in Behavior!Ledger :
         a.recent \in [Criteria -> Nat] /\ l.sequence \in Nat
  BY AttentionSet DEF Behavior!Ledger
<1>3. ASSUME Behavior!TypeOK
      PROVE  /\ Recent \in [Criteria -> Nat] /\ Sequence \in Nat /\ faults \in Nat
             /\ waited \in [Criteria -> Nat]
  <2>1. journal.attention \in Behavior!Attention /\ journal.ledger \in Behavior!Ledger
        /\ faults \in 0..MaxFaults /\ waited \in [Criteria -> Nat]
    BY <1>3 DEF Behavior!TypeOK
  <2> QED BY <1>1, <1>2, <2>1 DEF Recent, Sequence
<1>4. ASSUME Behavior!TypeOK'
      PROVE  /\ Recent' \in [Criteria -> Nat] /\ Sequence' \in Nat
             /\ faults' \in Nat /\ waited' \in [Criteria -> Nat]
  <2>1. journal'.attention \in Behavior!Attention /\ journal'.ledger \in Behavior!Ledger
        /\ faults' \in 0..MaxFaults /\ waited' \in [Criteria -> Nat]
    BY <1>4 DEF Behavior!TypeOK
  <2> QED BY <1>1, <1>2, <2>1 DEF Recent, Sequence
<1> QED BY <1>3, <1>4

(* Turns.  What the bound on the turns waited for is made of. *)
LEMMA TurnTypes ==
    ASSUME Behavior!TypeOK, NEW c \in Criteria
    PROVE  /\ Recent[c] \in Nat /\ Sequence \in Nat /\ waited[c] \in Nat /\ faults \in Nat
           /\ Early(c) \in {0, 1}
           /\ IsFiniteSet(Served(c)) /\ Cardinality(Served(c)) \in Nat
           /\ Served(c) \in SUBSET (Criteria \ {c})
           /\ Cardinality(Served(c)) < Cardinality(Criteria)
           /\ Cardinality(Criteria) \in Nat
<1>1. Recent[c] \in Nat /\ Sequence \in Nat /\ waited[c] \in Nat /\ faults \in Nat
  BY CountTypes
<1>2. Served(c) \in SUBSET (Criteria \ {c}) /\ Early(c) \in {0, 1}
  BY <1>1 DEF Served, Early
<1>3. /\ IsFiniteSet(Criteria) /\ IsFiniteSet(Criteria \ {c}) /\ Cardinality(Criteria) \in Nat
      /\ Cardinality(Criteria \ {c}) = Cardinality(Criteria) - 1
  BY BehaviorFacts, FS_RemoveElement, FS_CardinalityType
<1>4. /\ IsFiniteSet(Served(c)) /\ Cardinality(Served(c)) \in Nat
      /\ Cardinality(Served(c)) <= Cardinality(Criteria \ {c})
  BY <1>2, <1>3, FS_Subset, FS_CardinalityType
<1> QED BY <1>1, <1>2, <1>3, <1>4

(* A criterion waits for a turn. *)
Waits(c) == waited[c] + Early(c) <= Cardinality(Served(c)) + faults

(* A criterion that is not acted on, while nobody is served less, keeps waiting. *)
LEMMA TurnQuiet ==
    ASSUME Behavior!TypeOK, Behavior!TypeOK', NEW c \in Criteria, Waits(c),
           Recent'[c] = Recent[c], Sequence' >= Sequence,
           \A d \in Criteria : Recent'[d] = Recent[d] \/ Recent'[d] >= Sequence,
           \/ waited'[c] \in {waited[c], 0} /\ faults' >= faults
           \/ waited'[c] = waited[c] + 1 /\ faults' = faults + 1
    PROVE  Waits(c)'
<1>1. \A d \in Criteria : Recent[d] \in Nat /\ Recent'[d] \in Nat
  <2>1. ASSUME NEW d \in Criteria PROVE Recent[d] \in Nat /\ Recent'[d] \in Nat
    BY CountTypes
  <2> QED BY <2>1
<1>2. /\ Sequence \in Nat /\ Sequence' \in Nat /\ waited[c] \in Nat /\ faults \in Nat
      /\ faults' \in Nat /\ Early(c) \in {0, 1} /\ IsFiniteSet(Served(c))
      /\ Cardinality(Served(c)) \in Nat
  BY TurnTypes, CountTypes
<1>3. Early(c)' \in {0, 1} /\ Early(c)' <= Early(c)
  BY <1>1, <1>2 DEF Early
<1>4. Served(c) \subseteq Served(c)'
  <2> SUFFICES ASSUME NEW d \in Criteria, Recent[d] > Recent[c], Sequence > Recent[c]
               PROVE  Recent'[d] > Recent'[c] /\ Sequence' > Recent'[c]
    BY DEF Served
  <2>1. CASE Recent'[d] = Recent[d]
    BY <1>1, <1>2, <2>1
  <2>2. CASE Recent'[d] >= Sequence
    BY <1>1, <1>2, <2>2
  <2> QED BY <2>1, <2>2
<1>5. IsFiniteSet(Served(c)') /\ Cardinality(Served(c)') \in Nat
  <2>1. Served(c)' \in SUBSET Criteria
    BY DEF Served
  <2> QED BY <2>1, BehaviorFacts, FS_Subset, FS_CardinalityType
<1>6. Cardinality(Served(c)) <= Cardinality(Served(c)')
  BY <1>4, <1>5, FS_Subset
<1> QED BY <1>2, <1>3, <1>5, <1>6 DEF Waits

(* A criterion that is acted on, or finished, waits for nothing. *)
LEMMA TurnReset ==
    ASSUME Behavior!TypeOK', NEW c \in Criteria, waited'[c] = 0,
           Recent'[c] <= Sequence' \/ faults' >= 1
    PROVE  Waits(c)'
<1>1. /\ Recent'[c] \in Nat /\ Sequence' \in Nat /\ faults' \in Nat
      /\ IsFiniteSet(Served(c)') /\ Cardinality(Served(c)') \in Nat
  <2>1. Served(c)' \in SUBSET Criteria
    BY DEF Served
  <2>2. IsFiniteSet(Served(c)') /\ Cardinality(Served(c)') \in Nat
    BY <2>1, BehaviorFacts, FS_Subset, FS_CardinalityType
  <2> QED BY <2>2, CountTypes
<1>2. Early(c)' \in {0, 1} /\ (Recent'[c] <= Sequence' => Early(c)' = 0)
  BY <1>1 DEF Early
<1> QED BY <1>1, <1>2 DEF Waits

(* A turn of another criterion that stands before c serves one more. *)
LEMMA TurnTaken ==
    ASSUME Behavior!TypeOK, Behavior!TypeOK', NEW c \in Criteria, NEW h \in Criteria \ {c},
           Waits(c), Recent[c] <= Sequence + 1, Recent[h] <= Recent[c],
           Recent'[c] = Recent[c], Recent'[h] = Sequence + 1, Sequence' = Sequence + 1,
           \A d \in Criteria \ {h} : Recent'[d] = Recent[d],
           waited'[c] = waited[c] + 1, faults' >= faults
    PROVE  Waits(c)'
<1>1. \A d \in Criteria : Recent[d] \in Nat
  BY TurnTypes
<1>2. /\ Sequence \in Nat /\ waited[c] \in Nat /\ faults \in Nat
      /\ faults' \in Nat /\ Early(c) \in {0, 1} /\ IsFiniteSet(Served(c))
      /\ Cardinality(Served(c)) \in Nat
  BY TurnTypes, CountTypes
<1>3. Early(c)' = 0 /\ (Recent[c] = Sequence + 1 => Early(c) = 1)
  BY <1>1, <1>2 DEF Early
<1>4. Served(c) \subseteq Served(c)'
  <2> SUFFICES ASSUME NEW d \in Criteria, Recent[d] > Recent[c], Sequence > Recent[c]
               PROVE  Recent'[d] > Recent'[c] /\ Sequence' > Recent'[c]
    BY DEF Served
  <2>1. CASE d = h
    BY <1>1, <1>2, <2>1
  <2>2. CASE d # h
    BY <1>1, <1>2, <2>2
  <2> QED BY <2>1, <2>2
<1>5. IsFiniteSet(Served(c)') /\ Cardinality(Served(c)') \in Nat
  <2>1. Served(c)' \in SUBSET Criteria
    BY DEF Served
  <2> QED BY <2>1, BehaviorFacts, FS_Subset, FS_CardinalityType
<1>6. CASE Recent[c] = Sequence + 1
  <2>1. Cardinality(Served(c)) <= Cardinality(Served(c)')
    BY <1>4, <1>5, FS_Subset
  <2> QED BY <1>2, <1>3, <1>5, <1>6, <2>1 DEF Waits
<1>7. CASE Recent[c] # Sequence + 1
  <2>1. h \in Served(c)' /\ h \notin Served(c)
    BY <1>1, <1>2, <1>7 DEF Served
  <2>2. Served(c) \cup {h} \in SUBSET Served(c)'
    BY <1>4, <2>1
  <2>3. Cardinality(Served(c) \cup {h}) = Cardinality(Served(c)) + 1
    BY <1>2, <2>1, FS_AddElement
  <2>4. Cardinality(Served(c) \cup {h}) <= Cardinality(Served(c)')
    BY <1>5, <2>2, FS_Subset
  <2> QED BY <1>2, <1>3, <1>5, <2>3, <2>4 DEF Waits
<1> QED BY <1>6, <1>7

-----------------------------------------------------------------------------
(* The parts of the invariant after a step. *)
LEMMA TypesBack ==
    ASSUME SessionTyped', InStep', RedirectInv', refused' \in [Behavior!Keys -> Nat],
           waited' \in [Criteria -> Nat]
    PROVE  Behavior!TypeOK'
<1>1. \A k \in Behavior!Keys : attention'.redirects[k] <= MaxRedirects
  <2>1. CASE up'
    BY <2>1 DEF InStep, RedirectInv
  <2>2. CASE ~up'
    BY <2>2, NewTypes, BehaviorFacts DEF InStep
  <2> QED BY <2>1, <2>2
<1> QED BY <1>1, TypedFact DEF Behavior!TypeOK, SessionTyped

(* When only the sequence moves, or a crash is counted, nobody is passed over. *)
LEMMA QuietTurns ==
    ASSUME BehaviorInd, Behavior!TypeOK', Recent' = Recent, Sequence' \in {Sequence, Sequence + 1},
           faults' \in {faults, faults + 1}, \A c \in Criteria : waited'[c] \in {waited[c], 0}
    PROVE  TurnInv'
<1>1. Recent \in [Criteria -> Nat] /\ Sequence \in Nat /\ faults \in Nat
  BY CountTypes DEF BehaviorInd
<1>2. ASSUME NEW c \in Criteria PROVE Recent'[c] <= Sequence' + 1 /\ Waits(c)'
  <2>1. Recent[c] <= Sequence + 1 /\ Waits(c)
    BY DEF BehaviorInd, TurnInv, Waits
  <2>2. Recent[c] \in Nat /\ Recent'[c] = Recent[c] /\ Sequence' >= Sequence
        /\ faults' >= faults /\ waited'[c] \in {waited[c], 0}
    BY <1>1
  <2>3. Waits(c)'
    BY <2>1, <2>2, TurnQuiet DEF BehaviorInd
  <2> QED BY <1>1, <2>1, <2>2, <2>3
<1> QED BY <1>2 DEF TurnInv, Waits

(* The redirects, their last answer and the refusals stay; a yielded turn is taken. *)
LEMMA SameRedirects ==
    ASSUME RedirectInv, refused' = refused,
           journal'.attention.redirects = journal.attention.redirects,
           journal'.attention.last = journal.attention.last,
           journal'.attention.yield \in {journal.attention.yield, 0}
    PROVE  RedirectInv'
BY DEF RedirectInv, Elsewhere

(* The redirects are forgiven, where their row was committed. *)
LEMMA ForgivenRedirects ==
    ASSUME Behavior!TypeOK, RedirectInv, NEW a, NEW b, a = Behavior!ResetRedirects(b),
           b \in Behavior!Attention,
           journal'.attention \in {a, journal.attention}, Behavior!Forgiven(a)
    PROVE  RedirectInv' /\ refused' \in [Behavior!Keys -> Nat]
<1>1. /\ a.redirects = [k \in Behavior!Keys |-> 0] /\ a.yield = 0
      /\ MaxRedirects \in Nat \ {0}
  BY BehaviorFacts, AttentionSet DEF Behavior!ResetRedirects
<1>2. CASE journal'.attention = a
  <2>1. refused' = [k \in Behavior!Keys |-> 0]
    BY <1>2 DEF Behavior!Forgiven
  <2>2. \A k \in Behavior!Keys : refused'[k] = 0 /\ a.redirects[k] = 0
    BY <1>1, <2>1
  <2>3. Elsewhere(journal'.attention)
    BY <1>1, <1>2 DEF Elsewhere
  <2> QED BY <1>1, <1>2, <2>1, <2>2, <2>3 DEF RedirectInv
<1>3. CASE journal'.attention # a
  <2>1. refused' = refused /\ journal'.attention = journal.attention
    BY <1>3 DEF Behavior!Forgiven
  <2> QED BY <2>1 DEF RedirectInv, Behavior!TypeOK
<1> QED BY <1>2, <1>3

(* Who waits after an operation. *)
LEMMA TurnFact ==
    ASSUME Behavior!TypeOK, NEW l, NEW a, NEW c, NEW head, Behavior!Turn(l, a, c, head)
    PROVE  /\ waited' \in [Criteria -> Nat]
           /\ \A d \in Criteria :
                 /\ d = c => waited'[d] = 0
                 /\ \/ waited'[d] \in {waited[d], 0}
                    \/ /\ waited'[d] = waited[d] + 1 /\ d # c /\ c = head /\ c # 0
                       /\ d \in Behavior!Runnable(l) /\ ~Behavior!Late(attention, d)
<1> DEFINE W(d) == IF d = c \/ d \notin Behavior!Runnable(l) \/ Behavior!Late(attention, d)
                      \/ Behavior!Late(a, d)
                   THEN 0
                   ELSE IF c = head /\ c # 0 THEN waited[d] + 1 ELSE waited[d]
<1>1. waited' = [d \in Criteria |-> W(d)]
  BY DEF Behavior!Turn
<1>2. waited \in [Criteria -> Nat]
  BY DEF Behavior!TypeOK
<1>3. \A d \in Criteria : W(d) \in Nat
  BY <1>2
<1>4. waited' \in [Criteria -> Nat]
  <2> HIDE DEF W
  <2> QED BY <1>1, <1>3
<1>5. \A d \in Criteria : waited'[d] = W(d)
  <2> HIDE DEF W
  <2> QED BY <1>1
<1> QED BY <1>4, <1>5

-----------------------------------------------------------------------------
(* Every step keeps the invariant.  Steps that leave the journal, the history and the
   faults alone: *)
LEMMA StillStep ==
    ASSUME BehaviorInd, SessionTyped', InStep',
           UNCHANGED <<journal, refused, waited>>, faults' \in {faults, faults + 1}
    PROVE  BehaviorInd'
<1>1. RedirectInv'
  BY DEF BehaviorInd, RedirectInv
<1>2. Behavior!TypeOK'
  BY <1>1, TypesBack DEF BehaviorInd, Behavior!TypeOK
<1>3. TurnInv'
  <2>1. Recent' = Recent /\ Sequence' = Sequence /\ \A c \in Criteria : waited'[c] = waited[c]
    BY DEF Recent, Sequence
  <2> QED BY <1>2, <2>1, QuietTurns
<1> QED BY <1>1, <1>2, <1>3 DEF BehaviorInd

(* Steps that change the attention in memory and in its row, but not the activity. *)
LEMMA AttentionStep ==
    ASSUME BehaviorInd, up, attention' \in Behavior!Attention,
           journal' = [journal EXCEPT !.attention = attention'],
           attention'.recent = attention.recent, pending' \in SUBSET Actions,
           RedirectInv', refused' \in [Behavior!Keys -> Nat],
           UNCHANGED <<up, ledger, counters, contradicted, terminated, workflow, offered,
                       epochs, faults, waited>>
    PROVE  BehaviorInd'
<1>1. SessionTyped /\ InStep /\ waited \in [Criteria -> Nat]
  BY TypedFact DEF BehaviorInd
<1>2. /\ journal'.attention = attention' /\ journal'.ledger = journal.ledger
      /\ journal'.counters = journal.counters
      /\ journal' \in [ledger : Behavior!Ledger, attention : Behavior!Attention,
                        counters : Behavior!Counters]
  BY <1>1 DEF SessionTyped
<1>3. SessionTyped' /\ InStep'
  BY <1>1, <1>2 DEF SessionTyped, InStep
<1>4. Behavior!TypeOK'
  BY <1>1, <1>3, TypesBack
<1>5. TurnInv'
  <2>1. Recent' = Recent /\ Sequence' = Sequence
    BY <1>1, <1>2 DEF Recent, Sequence, InStep
  <2>2. \A c \in Criteria : waited'[c] = waited[c]
    OBVIOUS
  <2> QED BY <1>4, <2>1, <2>2, QuietTurns
<1> QED BY <1>3, <1>4, <1>5 DEF BehaviorInd

(* prepare_action. *)
LEMMA PrepareStep ==
    ASSUME BehaviorInd, NEW d \in Actions,
           \/ Behavior!Prepare(d) \/ Behavior!PrepareYielded(d) \/ Behavior!PrepareRedirected(d)
    PROVE  BehaviorInd'
<1>1. /\ Behavior!TypeOK /\ SessionTyped /\ InStep /\ RedirectInv
      /\ refused \in [Behavior!Keys -> Nat] /\ attention \in Behavior!Attention
      /\ ledger \in Behavior!Ledger
  BY TypedFact DEF BehaviorInd, SessionTyped
<1>2. CASE Behavior!Prepare(d)
  <2>1. UNCHANGED <<journal, refused, waited, faults, attention, up, ledger, counters, contradicted,
                    terminated, workflow, offered, epochs>>
        /\ pending' = pending \cup {d}
    BY <1>2 DEF Behavior!Prepare, Behavior!Unprepared
  <2>2. SessionTyped' /\ InStep'
    BY <1>1, <2>1 DEF SessionTyped, InStep
  <2> QED BY <2>1, <2>2, StillStep
<1>3. CASE Behavior!PrepareYielded(d)
  <2>1. /\ up /\ attention' = [attention EXCEPT !.yield = 0, !.revision = @ + 1]
        /\ journal' = [journal EXCEPT !.attention = attention'] /\ pending' = pending \cup {d}
        /\ UNCHANGED <<up, ledger, counters, contradicted, terminated, workflow, offered,
                       epochs, faults, waited, refused>>
    BY <1>3 DEF Behavior!PrepareYielded, Behavior!Unprepared, Behavior!CanPrepare
  <2> DEFINE n == attention.revision + 1
  <2>2. n \in Nat /\ attention' = [attention EXCEPT !.yield = 0, !.revision = n]
    BY <1>1, <2>1, AttentionSet
  <2> HIDE DEF n
  <2>3. /\ attention' \in Behavior!Attention /\ attention'.recent = attention.recent
        /\ attention'.yield = 0 /\ attention'.redirects = attention.redirects
        /\ attention'.last = attention.last
    BY <1>1, <2>2, AttentionSet
  <2>4. journal'.attention = attention' /\ journal.attention = attention
    BY <1>1, <2>1 DEF SessionTyped, InStep
  <2>5. RedirectInv'
    BY <1>1, <2>1, <2>3, <2>4, SameRedirects
  <2> QED BY <1>1, <2>1, <2>3, <2>5, AttentionStep DEF SessionTyped
<1>4. CASE Behavior!PrepareRedirected(d)
  <2> DEFINE key == Behavior!Focus(d)
             R == Behavior!Redirected(ledger, attention, d, key)
  <2>1. /\ up /\ attention' = R.attention
        /\ journal' = [journal EXCEPT !.attention = attention']
        /\ pending' \in {pending, pending \cup {d}}
        /\ refused' = IF R.answer = "redirect" THEN [refused EXCEPT ![key] = @ + 1] ELSE refused
        /\ ~(key # 0 /\ key = attention.yield)
        /\ UNCHANGED <<up, ledger, counters, contradicted, terminated, workflow, offered,
                       epochs, faults, waited>>
    BY <1>4 DEF Behavior!PrepareRedirected, Behavior!Unprepared, Behavior!CanPrepare
  <2>2. key \in Behavior!Keys
    <3>1. Behavior!Runnable(ledger) \in SUBSET Criteria
      BY DEF Behavior!Runnable
    <3>2. Behavior!Head(ledger, attention) \in Behavior!Keys
      BY <1>1, <3>1, FirstFact DEF Behavior!Head, Behavior!Keys
    <3> QED BY <3>2, BehaviorFacts DEF Behavior!Focus, Behavior!Keys
  <2>3. journal'.attention = attention' /\ journal.attention = attention
    BY <1>1, <2>1 DEF SessionTyped, InStep
  <2>4. Elsewhere(attention) /\ \A k \in Behavior!Keys : attention.redirects[k] <= MaxRedirects
    BY <1>1, <2>3 DEF RedirectInv
  <2> HIDE DEF key
  <2>5. /\ attention' \in Behavior!Attention /\ Elsewhere(attention')
        /\ attention'.recent = attention.recent
        /\ \A k \in Behavior!Keys : /\ attention.redirects[k] <= attention'.redirects[k]
                                     /\ attention'.redirects[k] <= MaxRedirects
        /\ R.answer = "redirect" => /\ attention'.redirects[key] = attention.redirects[key] + 1
                                    /\ attention'.redirects[key] < MaxRedirects
    BY <1>1, <2>1, <2>2, <2>4, RedirectedFact
  <2> HIDE DEF R
  <2>6. refused' \in [Behavior!Keys -> Nat]
    BY <1>1, <2>1, <2>2
  <2>7. ASSUME NEW k \in Behavior!Keys
        PROVE  refused'[k] <= attention'.redirects[k] /\ refused'[k] < MaxRedirects
    <3>1. /\ refused[k] \in Nat /\ attention.redirects[k] \in Nat
          /\ attention'.redirects[k] \in Nat /\ refused[k] <= attention.redirects[k]
          /\ refused[k] < MaxRedirects /\ MaxRedirects \in Nat
      BY <1>1, <2>3, <2>5, AttentionSet, BehaviorFacts DEF RedirectInv
    <3>2. CASE R.answer = "redirect" /\ k = key
      <4>1. refused'[k] = refused[k] + 1
        BY <1>1, <2>1, <3>2
      <4> QED BY <2>5, <3>1, <3>2, <4>1
    <3>3. CASE ~(R.answer = "redirect" /\ k = key)
      <4>1. refused'[k] = refused[k]
        BY <1>1, <2>1, <3>3
      <4> QED BY <2>5, <3>1, <4>1
    <3> QED BY <3>2, <3>3
  <2>8. RedirectInv'
    BY <2>3, <2>5, <2>7 DEF RedirectInv
  <2> QED BY <1>1, <2>1, <2>5, <2>6, <2>8, AttentionStep DEF SessionTyped
<1> QED BY <1>2, <1>3, <1>4

(* The rendering of the context takes the pending guidance. *)
LEMMA RenderStep ==
    ASSUME BehaviorInd, Behavior!RenderContext
    PROVE  BehaviorInd'
<1>1. /\ Behavior!TypeOK /\ SessionTyped /\ InStep /\ RedirectInv
      /\ refused \in [Behavior!Keys -> Nat] /\ attention \in Behavior!Attention
      /\ ledger \in Behavior!Ledger
  BY TypedFact DEF BehaviorInd, SessionTyped
<1>2. /\ up /\ attention' = [attention EXCEPT !.guidance = FALSE, !.revision = @ + 1]
      /\ journal' = [journal EXCEPT !.attention = attention']
      /\ UNCHANGED <<up, ledger, counters, pending, contradicted, terminated, workflow, offered,
                     epochs, faults, waited, refused>>
  BY DEF Behavior!RenderContext, Behavior!history
<1> DEFINE n == attention.revision + 1
<1>3. n \in Nat /\ attention' = [attention EXCEPT !.guidance = FALSE, !.revision = n]
  BY <1>1, <1>2, AttentionSet
<1> HIDE DEF n
<1>4. /\ attention' \in Behavior!Attention /\ attention'.recent = attention.recent
      /\ attention'.yield = attention.yield /\ attention'.redirects = attention.redirects
      /\ attention'.last = attention.last
  BY <1>1, <1>3, AttentionSet
<1>5. journal'.attention = attention' /\ journal.attention = attention
  BY <1>1, <1>2 DEF SessionTyped, InStep
<1>6. RedirectInv'
  BY <1>1, <1>2, <1>4, <1>5, SameRedirects
<1> QED BY <1>1, <1>2, <1>4, <1>6, AttentionStep DEF SessionTyped

(* A reset of the redirects keeps when a criterion was acted on. *)
LEMMA ResetKeeps ==
    \A x \in Behavior!Attention : Behavior!ResetRedirects(x).recent = x.recent
BY AttentionSet DEF Behavior!ResetRedirects

(* What the operations leave of the attention. *)
LEMMA ActedFact ==
    ASSUME NEW a \in Behavior!Attention, NEW c \in Criteria \cup {0}, NEW s \in Nat,
           NEW changed \in BOOLEAN
    PROVE  LET b == Behavior!Acted(a, c, s, changed)
           IN  /\ b \in Behavior!Attention
               /\ b.recent = [d \in Criteria |-> IF d = c THEN s ELSE a.recent[d]]
               /\ changed => \E x \in Behavior!Attention : b = Behavior!ResetRedirects(x)
               /\ ~changed => /\ b.redirects = a.redirects /\ b.last = a.last
                              /\ b.yield = a.yield
<1>0. Behavior!Acted(a, c, s, changed) \in Behavior!Attention
  BY AttentionTypes
<1> DEFINE f == [d \in Criteria |-> IF d = c THEN s ELSE a.recent[d]]
           x == [a EXCEPT !.recent = f, !.revision = @ + 1]
<1>1. x \in Behavior!Attention
  <2>1. Behavior!Acted(a, c, s, FALSE) = x
    BY DEF Behavior!Acted
  <2>2. Behavior!Acted(a, c, s, FALSE) \in Behavior!Attention
    BY AttentionTypes
  <2> QED BY <2>1, <2>2
<1>2. Behavior!Acted(a, c, s, changed) = IF changed THEN Behavior!ResetRedirects(x) ELSE x
  BY DEF Behavior!Acted
<1>3. x.recent = f /\ x.redirects = a.redirects /\ x.last = a.last /\ x.yield = a.yield
  <2> HIDE DEF f
  <2> QED BY AttentionSet
<1> HIDE DEF x, f
<1>4. Behavior!Acted(a, c, s, changed).recent = f
  BY ResetKeeps, <1>1, <1>2, <1>3
<1> QED BY <1>0, <1>1, <1>2, <1>3, <1>4 DEF f

(* What progress and a failed approach leave of the attention. *)
LEMMA AttentionFields ==
    ASSUME NEW a \in Behavior!Attention
    PROVE  /\ \A c \in Criteria :
                 /\ Behavior!Progressed(a, c).recent = a.recent
                 /\ \E x \in Behavior!Attention :
                       Behavior!Progressed(a, c) = Behavior!ResetRedirects(x)
           /\ \A c \in Criteria, s \in Nat :
                 LET b == Behavior!FailedApproach(a, c, s)
                 IN  /\ b.recent = [a.recent EXCEPT ![c] = s]
                     /\ b.redirects = a.redirects /\ b.last = a.last /\ b.yield = a.yield
<1>2. ASSUME NEW c \in Criteria
      PROVE  /\ Behavior!Progressed(a, c).recent = a.recent
             /\ \E x \in Behavior!Attention :
                   Behavior!Progressed(a, c) = Behavior!ResetRedirects(x)
  <2> DEFINE x == [a EXCEPT !.retry[c] = 0, !.revision = @ + 1]
  <2>1. x \in Behavior!Attention /\ x.recent = a.recent
    BY AttentionSet
  <2>2. Behavior!Progressed(a, c) = Behavior!ResetRedirects(x)
    BY DEF Behavior!Progressed
  <2> HIDE DEF x
  <2> QED BY ResetKeeps, <2>1, <2>2
<1>3. ASSUME NEW c \in Criteria, NEW s \in Nat
      PROVE  LET b == Behavior!FailedApproach(a, c, s)
             IN  /\ b.recent = [a.recent EXCEPT ![c] = s]
                 /\ b.redirects = a.redirects /\ b.last = a.last /\ b.yield = a.yield
  BY AttentionSet DEF Behavior!FailedApproach
<1> QED BY <1>2, <1>3

(* An operation that commits rows: what is left to show is the redirects and the turns. *)
LEMMA CommittedStep ==
    ASSUME BehaviorInd, SessionTyped', InStep', RedirectInv',
           refused' \in [Behavior!Keys -> Nat], waited' \in [Criteria -> Nat],
           Behavior!TypeOK' => TurnInv'
    PROVE  BehaviorInd'
<1>1. Behavior!TypeOK'
  BY TypesBack
<1> QED BY <1>1 DEF BehaviorInd

(* _record_tool_result. *)
LEMMA RecordActionStep ==
    ASSUME BehaviorInd, NEW d \in Actions, NEW changed \in BOOLEAN,
           Behavior!RecordAction(d, changed)
    PROVE  BehaviorInd'
<1> DEFINE h == About[d]
           l == Behavior!Committed(ledger, h, changed)
           a == Behavior!Acted(attention, h, l.sequence, changed)
           support == IF Relation[d] = "diagnostic_support" THEN 1 ELSE 0
           n == [counters EXCEPT !.total = @ + 1, !.support = @ + support]
           head == Behavior!Head(ledger, attention)
<1>1. /\ Behavior!TypeOK /\ SessionTyped /\ InStep /\ RedirectInv /\ TurnInv
      /\ refused \in [Behavior!Keys -> Nat] /\ attention \in Behavior!Attention
      /\ ledger \in Behavior!Ledger /\ counters \in Behavior!Counters
      /\ pending \in SUBSET Actions
  BY TypedFact DEF BehaviorInd, SessionTyped
<1>2. /\ up /\ Behavior!Commit(l, a, n, Attentive, pending \ {d})
      /\ IF changed THEN Behavior!Forgiven(a) ELSE refused' = refused
      /\ Behavior!Turn(l, a, h, head)
  BY DEF Behavior!RecordAction, Attentive
<1>3. h \in Criteria \cup {0}
  BY BehaviorFacts
<1> HIDE DEF h
<1>4. /\ l \in Behavior!Ledger /\ l.sequence = ledger.sequence + 1 /\ ledger.sequence \in Nat
      /\ \A c \in Criteria \ {h} : l.status[c] = ledger.status[c]
  <2>1. ledger.sequence \in Nat
    BY <1>1 DEF Behavior!Ledger
  <2>2. l = Behavior!Committed(ledger, h, changed)
    OBVIOUS
  <2> HIDE DEF l
  <2>3. /\ l \in Behavior!Ledger /\ l.sequence = ledger.sequence + 1
        /\ \A c \in Criteria \ {h} : l.status[c] = ledger.status[c]
    BY <1>1, <1>3, <2>2, CommittedFact
  <2> QED BY <2>1, <2>3
<1>5. n \in Behavior!Counters
  <2> DEFINE t == counters.total + 1
             u == counters.support + support
  <2>1. t \in Nat /\ u \in Nat /\ n = [counters EXCEPT !.total = t, !.support = u]
    BY <1>1 DEF Behavior!Counters
  <2> HIDE DEF t, u, n
  <2> QED BY <1>1, <2>1 DEF Behavior!Counters
<1> HIDE DEF l, n
<1>6. /\ a \in Behavior!Attention
      /\ a.recent = [c \in Criteria |-> IF c = h THEN l.sequence ELSE attention.recent[c]]
      /\ changed => \E x \in Behavior!Attention : a = Behavior!ResetRedirects(x)
      /\ ~changed => /\ a.redirects = attention.redirects /\ a.last = attention.last
                     /\ a.yield = attention.yield
  <2>1. l.sequence \in Nat /\ a = Behavior!Acted(attention, h, l.sequence, changed)
    BY <1>4
  <2> DEFINE s == l.sequence
  <2> HIDE DEF a, s
  <2>2. s \in Nat /\ a = Behavior!Acted(attention, h, s, changed)
    BY <2>1 DEF s
  <2>4. /\ a \in Behavior!Attention
        /\ a.recent = [c \in Criteria |-> IF c = h THEN s ELSE attention.recent[c]]
        /\ changed => \E x \in Behavior!Attention : a = Behavior!ResetRedirects(x)
        /\ ~changed => /\ a.redirects = attention.redirects /\ a.last = attention.last
                       /\ a.yield = attention.yield
    BY <1>1, <1>3, <2>2, ActedFact
  <2> QED BY <2>4 DEF s
<1> HIDE DEF a, head
<1>7. /\ journal.attention = attention /\ journal.ledger = ledger
      /\ Sequence = ledger.sequence /\ Recent = attention.recent
  BY <1>1, <1>2 DEF InStep, Sequence, Recent
<1>8. SessionTyped' /\ InStep' /\ faults' \in {faults, faults + 1}
  <2>1. Attentive \in Rows /\ Attentive # <<"ledger">> /\ Attentive # <<"ledger", "counters">>
    BY DEF Rows, Attentive
  <2> QED BY <1>1, <1>2, <1>4, <1>5, <1>6, <2>1, CommitKeeps
<1>9. /\ journal'.attention \in {a, attention}
      /\ \/ Behavior!Die
         \/ journal'.ledger = l /\ journal'.attention = a /\ faults' = faults
      /\ \/ journal'.attention = a
         \/ journal'.attention = attention /\ journal'.ledger = ledger
      /\ journal'.ledger \in {l, ledger}
  <2>1. Attentive \in Rows /\ Attentive # <<"ledger">> /\ Attentive # <<"ledger", "counters">>
    BY DEF Rows, Attentive
  <2> HIDE DEF Attentive
  <2>2. Attentive \notin {<<"ledger">>, <<"ledger", "counters">>}
    BY <2>1
  <2>3. /\ journal'.attention \in {a, journal.attention}
        /\ journal'.ledger \in {l, journal.ledger}
        /\ \/ Behavior!Die
           \/ journal'.ledger = l /\ journal'.attention = a /\ faults' = faults
        /\ \/ journal'.attention = a
           \/ journal'.attention = journal.attention /\ journal'.ledger = journal.ledger
    BY <1>2, <2>1, <2>2, CommitFact
  <2> QED BY <1>7, <2>3
<1>10. RedirectInv' /\ refused' \in [Behavior!Keys -> Nat]
  <2>1. CASE changed
    BY <1>1, <1>2, <1>6, <1>7, <1>9, <2>1, ForgivenRedirects
  <2>2. CASE ~changed
    <3>1. /\ journal'.attention.redirects = journal.attention.redirects
          /\ journal'.attention.last = journal.attention.last
          /\ journal'.attention.yield = journal.attention.yield
      BY <1>6, <1>7, <1>9, <2>2
    <3> QED BY <1>1, <1>2, <2>2, <3>1, SameRedirects
  <2> QED BY <2>1, <2>2
<1>11. waited' \in [Criteria -> Nat]
       /\ \A c \in Criteria :
             /\ c = h => waited'[c] = 0
             /\ \/ waited'[c] \in {waited[c], 0}
                \/ /\ waited'[c] = waited[c] + 1 /\ c # h /\ h = head /\ h # 0
                   /\ c \in Behavior!Runnable(l) /\ ~Behavior!Late(attention, c)
  BY <1>1, <1>2, TurnFact
<1>12. ASSUME Behavior!TypeOK' PROVE TurnInv'
  <2>0. /\ Recent \in [Criteria -> Nat] /\ Sequence \in Nat /\ faults \in Nat
        /\ faults' \in Nat /\ Sequence' \in Nat
    BY <1>1, <1>12, CountTypes
  <2>1. /\ Sequence' \in {Sequence, Sequence + 1}
        /\ \A c \in Criteria : Recent'[c] = Recent[c] \/ (c = h /\ Recent'[c] = Sequence + 1)
    <3>1. Recent' \in {Recent, [c \in Criteria |-> IF c = h THEN Sequence + 1 ELSE Recent[c]]}
      BY <1>4, <1>6, <1>7, <1>9 DEF Recent
    <3> QED BY <1>4, <1>7, <1>9, <2>0, <3>1 DEF Sequence
  <2>2. \/ faults' = faults + 1
        \/ /\ faults' = faults /\ Sequence' = Sequence + 1
           /\ h \in Criteria => Recent'[h] = Sequence + 1
    <3>1. CASE Behavior!Die
      BY <1>1, <3>1, DieFact
    <3>2. CASE ~Behavior!Die
      <4>1. journal'.ledger = l /\ journal'.attention = a /\ faults' = faults
        BY <1>9, <3>2
      <4> QED BY <1>4, <1>6, <1>7, <4>1 DEF Recent, Sequence
    <3> QED BY <3>1, <3>2
  <2>3. ASSUME NEW c \in Criteria PROVE Recent'[c] <= Sequence' + 1 /\ Waits(c)'
    <3>0. Recent[c] \in Nat /\ Recent[c] <= Sequence + 1 /\ Waits(c) /\ waited[c] \in Nat
      BY <1>1, <2>0, CountTypes DEF TurnInv, Waits
    <3>1. Recent'[c] <= Sequence' + 1
      BY <2>0, <2>1, <3>0
    <3>2. CASE c = h
      <4>1. waited'[c] = 0
        BY <1>11, <3>2
      <4>2. Recent'[c] <= Sequence' \/ faults' >= 1
        BY <2>0, <2>1, <2>2, <3>2
      <4> QED BY <1>12, <3>1, <4>1, <4>2, TurnReset
    <3>3. CASE c # h /\ (waited'[c] \in {waited[c], 0} \/ faults' = faults + 1)
      <4>1. Recent'[c] = Recent[c] /\ Sequence' >= Sequence
        BY <2>0, <2>1, <3>3
      <4>2. \A e \in Criteria : Recent'[e] = Recent[e] \/ Recent'[e] >= Sequence
        BY <2>0, <2>1
      <4>3. \/ waited'[c] \in {waited[c], 0} /\ faults' >= faults
            \/ waited'[c] = waited[c] + 1 /\ faults' = faults + 1
        BY <1>8, <1>11, <2>0, <3>3
      <4> QED BY <1>1, <1>12, <3>0, <3>1, <4>1, <4>2, <4>3, TurnQuiet
    <3>4. CASE c # h /\ waited'[c] \notin {waited[c], 0} /\ faults' # faults + 1
      <4>1. /\ waited'[c] = waited[c] + 1 /\ h = head /\ h # 0 /\ h \in Criteria
            /\ c \in Behavior!Runnable(l) /\ ~Behavior!Late(attention, c)
        BY <1>3, <1>11, <3>4
      <4>2. faults' = faults /\ Sequence' = Sequence + 1 /\ Recent'[h] = Sequence + 1
        BY <2>2, <3>4, <4>1
      <4>3. c \in Behavior!Runnable(ledger)
        BY <1>4, <3>4, <4>1 DEF Behavior!Runnable
      <4>4. Behavior!Before(attention, h, c)
        <5>1. h = Behavior!First(Behavior!Runnable(ledger), attention)
          BY <4>1, <4>3 DEF head, Behavior!Head
        <5>2. Behavior!Runnable(ledger) \in SUBSET Criteria /\ Behavior!Runnable(ledger) # {}
          BY <4>3 DEF Behavior!Runnable
        <5>3. \A e \in Behavior!Runnable(ledger) \ {h} : Behavior!Before(attention, h, e)
          BY <1>1, <5>1, <5>2, FirstFact
        <5> QED BY <3>4, <4>3, <5>3
      <4>5. Recent[h] <= Recent[c]
        <5>1. ~Behavior!Late(attention, c) => attention.recent[h] <= attention.recent[c]
          <6>1. attention.recent[h] \in Nat /\ attention.recent[c] \in Nat
            BY <1>7, <2>0, <4>1
          <6>2. CASE Behavior!Late(attention, c)
            BY <6>2
          <6>3. CASE ~Behavior!Late(attention, c)
            <7>1. attention.recent[h] < attention.recent[c]
                  \/ attention.recent[h] = attention.recent[c]
              BY <4>4, <6>3 DEF Behavior!Before
            <7> QED BY <6>1, <7>1
          <6> QED BY <6>2, <6>3
        <5> QED BY <1>7, <4>1, <5>1
      <4>6. Recent'[c] = Recent[c] /\ \A e \in Criteria \ {h} : Recent'[e] = Recent[e]
        BY <2>1, <3>4
      <4>7. h \in Criteria \ {c} /\ faults' >= faults
        BY <2>0, <3>4, <4>1, <4>2
      <4> QED BY <1>1, <1>12, <3>0, <3>1, <4>1, <4>2, <4>5, <4>6, <4>7, TurnTaken
    <3> QED BY <3>2, <3>3, <3>4
  <2> QED BY <2>3 DEF TurnInv, Waits
<1> QED BY <1>8, <1>10, <1>11, <1>12, CommittedStep

(* Operations whose rows leave alone when a criterion was last acted on. *)
LEMMA CalmCommit ==
    ASSUME BehaviorInd, up, NEW l \in Behavior!Ledger, NEW a \in Behavior!Attention,
           NEW n \in Behavior!Counters, NEW rows \in Rows,
           Behavior!Commit(l, a, n, rows, pending),
           rows = <<"ledger">> => a = attention /\ n = counters,
           rows = <<"ledger", "counters">> => a = attention,
           l.sequence \in {ledger.sequence, ledger.sequence + 1}, a.recent = attention.recent,
           \/ /\ a.redirects = attention.redirects /\ a.last = attention.last
              /\ a.yield = attention.yield /\ refused' = refused
           \/ /\ \E x \in Behavior!Attention : a = Behavior!ResetRedirects(x)
              /\ Behavior!Forgiven(a),
           waited' \in [Criteria -> Nat], \A c \in Criteria : waited'[c] \in {waited[c], 0}
    PROVE  BehaviorInd'
<1>1. /\ Behavior!TypeOK /\ SessionTyped /\ InStep /\ RedirectInv
      /\ refused \in [Behavior!Keys -> Nat] /\ pending \in SUBSET Actions
      /\ journal.attention = attention /\ journal.ledger = ledger
  BY TypedFact DEF BehaviorInd, SessionTyped, InStep
<1>2. SessionTyped' /\ InStep' /\ faults' \in {faults, faults + 1}
  BY <1>1, CommitKeeps
<1>3. journal'.attention \in {a, journal.attention} /\ journal'.ledger \in {l, journal.ledger}
  BY CommitFact
<1>4. RedirectInv' /\ refused' \in [Behavior!Keys -> Nat]
  <2>1. CASE \E x \in Behavior!Attention : a = Behavior!ResetRedirects(x)
             /\ Behavior!Forgiven(a)
    BY <1>1, <1>3, <2>1, ForgivenRedirects
  <2>2. CASE /\ a.redirects = attention.redirects /\ a.last = attention.last
             /\ a.yield = attention.yield /\ refused' = refused
    BY <1>1, <1>3, <2>2, SameRedirects
  <2> QED BY <2>1, <2>2
<1>5. Recent' = Recent /\ Sequence' \in {Sequence, Sequence + 1}
  BY <1>1, <1>3 DEF Recent, Sequence
<1>6. ASSUME Behavior!TypeOK' PROVE TurnInv'
  BY <1>2, <1>5, <1>6, QuietTurns
<1> QED BY <1>2, <1>4, <1>6, CommittedStep

(* A turn of nobody. *)
LEMMA NoTurn ==
    ASSUME Behavior!TypeOK, NEW l, NEW a, Behavior!Turn(l, a, 0, 0)
    PROVE  waited' \in [Criteria -> Nat] /\ \A c \in Criteria : waited'[c] \in {waited[c], 0}
BY TurnFact

(* record_goal_progress, record_criterion_verified, the blockers, the recovery epoch. *)
LEMMA ProgressStep ==
    ASSUME BehaviorInd, NEW c \in Criteria, Behavior!RecordGoalProgress(c)
    PROVE  BehaviorInd'
<1> DEFINE l == [ledger EXCEPT !.status[c] = "partially_observed", !.sequence = @ + 1,
                               !.revision = @ + 1]
           a == Behavior!Progressed(attention, c)
           rows == <<"counters", "ledger", "attention">>
<1>1. Behavior!TypeOK /\ ledger \in Behavior!Ledger /\ attention \in Behavior!Attention
  BY TypedFact DEF BehaviorInd, SessionTyped
<1>2. /\ up /\ Behavior!Commit(l, a, Behavior!NewCounters, rows, pending)
      /\ Behavior!Forgiven(a) /\ Behavior!Turn(l, a, 0, 0)
  BY DEF Behavior!RecordGoalProgress
<1>3. l \in Behavior!Ledger /\ l.sequence = ledger.sequence + 1
  BY <1>1, LedgerTypes DEF Behavior!Ledger
<1>4. /\ a \in Behavior!Attention /\ a.recent = attention.recent
      /\ \E x \in Behavior!Attention : a = Behavior!ResetRedirects(x)
  BY <1>1, AttentionTypes, AttentionFields
<1>5. rows \in Rows /\ rows # <<"ledger">> /\ rows # <<"ledger", "counters">>
  BY DEF Rows
<1> HIDE DEF l, a, rows
<1>6. waited' \in [Criteria -> Nat] /\ \A e \in Criteria : waited'[e] \in {waited[e], 0}
  BY <1>1, <1>2, NoTurn
<1> QED BY <1>2, <1>3, <1>4, <1>5, <1>6, NewTypes, CalmCommit

(* An operation that writes the row of the ledger alone. *)
LEMMA LedgerOnlyStep ==
    ASSUME BehaviorInd, NEW l \in Behavior!Ledger, Behavior!LedgerOnly(l),
           l.sequence \in {ledger.sequence, ledger.sequence + 1}
    PROVE  BehaviorInd'
<1> DEFINE rows == <<"ledger">>
<1>1. /\ Behavior!TypeOK /\ attention \in Behavior!Attention /\ counters \in Behavior!Counters
  BY TypedFact DEF BehaviorInd, SessionTyped
<1>2. /\ up /\ Behavior!Commit(l, attention, counters, rows, pending)
      /\ refused' = refused /\ Behavior!Turn(l, attention, 0, 0)
  BY DEF Behavior!LedgerOnly
<1>3. rows \in Rows /\ rows # <<"ledger", "counters">>
  BY DEF Rows
<1> HIDE DEF rows
<1>4. waited' \in [Criteria -> Nat] /\ \A e \in Criteria : waited'[e] \in {waited[e], 0}
  BY <1>1, <1>2, NoTurn
<1> QED BY <1>1, <1>2, <1>3, <1>4, CalmCommit

(* record_criterion_verified, and a blocker recorded or cleared. *)
LEMMA LedgerStep ==
    ASSUME BehaviorInd,
           \/ \E c \in Criteria : Behavior!VerifyCriterion(c)
           \/ Behavior!RecordBlocker \/ Behavior!ClearBlocker
    PROVE  BehaviorInd'
<1>1. ledger \in Behavior!Ledger
  BY TypedFact DEF BehaviorInd, SessionTyped
<1>2. ASSUME NEW c \in Criteria, Behavior!VerifyCriterion(c) PROVE BehaviorInd'
  <2> DEFINE l == [ledger EXCEPT !.status[c] = "satisfied", !.due = @ \ {c}, !.revision = @ + 1]
  <2>1. l \in Behavior!Ledger /\ l.sequence = ledger.sequence
    BY <1>1, LedgerTypes DEF Behavior!Ledger
  <2>2. Behavior!LedgerOnly(l)
    BY <1>2 DEF Behavior!VerifyCriterion
  <2> HIDE DEF l
  <2> QED BY <2>1, <2>2, LedgerOnlyStep
<1>3. CASE Behavior!RecordBlocker
  <2> DEFINE l == [ledger EXCEPT !.blockers = TRUE, !.sequence = @ + 1, !.revision = @ + 2]
  <2>1. l \in Behavior!Ledger /\ l.sequence = ledger.sequence + 1
    BY <1>1, LedgerTypes DEF Behavior!Ledger
  <2>2. Behavior!LedgerOnly(l)
    BY <1>3 DEF Behavior!RecordBlocker
  <2> HIDE DEF l
  <2> QED BY <2>1, <2>2, LedgerOnlyStep
<1>4. CASE Behavior!ClearBlocker
  <2> DEFINE l == [ledger EXCEPT !.blockers = FALSE, !.revision = @ + 1]
  <2>1. l \in Behavior!Ledger /\ l.sequence = ledger.sequence
    BY <1>1, LedgerTypes DEF Behavior!Ledger
  <2>2. Behavior!LedgerOnly(l)
    BY <1>4 DEF Behavior!ClearBlocker
  <2> HIDE DEF l
  <2> QED BY <2>1, <2>2, LedgerOnlyStep
<1> QED BY <1>2, <1>3, <1>4

(* A recovery epoch writes the rows of the ledger and the counters. *)
LEMMA RecoveryEpochStep ==
    ASSUME BehaviorInd, Behavior!RecordRecoveryEpoch
    PROVE  BehaviorInd'
<1> DEFINE l == [ledger EXCEPT !.revision = @ + 1]
           n == [counters EXCEPT !.epochs = @ + 1]
           rows == <<"ledger", "counters">>
<1>1. /\ ledger \in Behavior!Ledger /\ attention \in Behavior!Attention
      /\ counters \in Behavior!Counters /\ waited \in [Criteria -> Nat]
  BY TypedFact DEF BehaviorInd, SessionTyped
<1>2. /\ up /\ Behavior!Commit(l, attention, n, rows, pending)
      /\ refused' = refused /\ waited' = waited
  BY DEF Behavior!RecordRecoveryEpoch, Behavior!history
<1>3. l \in Behavior!Ledger /\ l.sequence = ledger.sequence
  BY <1>1, LedgerTypes DEF Behavior!Ledger
<1>4. n \in Behavior!Counters
  <2> DEFINE t == counters.epochs + 1
  <2>1. t \in Nat /\ n = [counters EXCEPT !.epochs = t]
    BY <1>1 DEF Behavior!Counters
  <2> HIDE DEF t, n
  <2> QED BY <1>1, <2>1 DEF Behavior!Counters
<1>5. rows \in Rows /\ rows # <<"ledger">>
  BY DEF Rows
<1> HIDE DEF l, n, rows
<1> QED BY <1>1, <1>2, <1>3, <1>4, <1>5, CalmCommit

(* record_attempt_failure. *)
LEMMA FailureStep ==
    ASSUME BehaviorInd, NEW c \in Criteria, NEW repeated \in BOOLEAN,
           Behavior!RecordFailure(c, repeated)
    PROVE  BehaviorInd'
<1> DEFINE l == [ledger EXCEPT !.revision = @ + 1]
           a == Behavior!FailedApproach(attention, c, ledger.sequence)
           same == IF repeated /\ counters.same > 0 THEN counters.same + 1 ELSE 1
           m == IF same > SameLimit THEN SameLimit ELSE same
           n == [counters EXCEPT !.same = m]
           rows == <<"ledger", "attention", "counters">>
<1>1. /\ Behavior!TypeOK /\ SessionTyped /\ InStep /\ RedirectInv /\ TurnInv
      /\ ledger \in Behavior!Ledger /\ attention \in Behavior!Attention
      /\ counters \in Behavior!Counters /\ refused \in [Behavior!Keys -> Nat]
      /\ pending \in SUBSET Actions
  BY TypedFact DEF BehaviorInd, SessionTyped
<1>2. /\ up /\ Behavior!Commit(l, a, n, rows, pending)
      /\ refused' = refused /\ Behavior!Turn(ledger, a, c, 0)
  BY DEF Behavior!RecordFailure
<1>3. l \in Behavior!Ledger /\ l.sequence = ledger.sequence /\ ledger.sequence \in Nat
  BY <1>1, LedgerTypes DEF Behavior!Ledger
<1>4. n \in Behavior!Counters
  <2>1. m \in 0..SameLimit
    BY <1>1, BehaviorFacts DEF Behavior!Counters
  <2> HIDE DEF m
  <2> QED BY <1>1, <2>1 DEF Behavior!Counters
<1>5. rows \in Rows /\ rows # <<"ledger">> /\ rows # <<"ledger", "counters">>
  BY DEF Rows
<1>6. /\ a \in Behavior!Attention /\ a.recent = [attention.recent EXCEPT ![c] = ledger.sequence]
      /\ a.redirects = attention.redirects /\ a.last = attention.last
      /\ a.yield = attention.yield
  <2> DEFINE s == ledger.sequence
  <2>1. s \in Nat
    BY <1>3
  <2> HIDE DEF s
  <2>2. Behavior!FailedApproach(attention, c, s) \in Behavior!Attention
    BY <1>1, <2>1, AttentionTypes
  <2>3. LET b == Behavior!FailedApproach(attention, c, s)
        IN  /\ b.recent = [attention.recent EXCEPT ![c] = s]
            /\ b.redirects = attention.redirects /\ b.last = attention.last
            /\ b.yield = attention.yield
    BY <1>1, <2>1, AttentionFields, Zenon
  <2> QED BY <2>2, <2>3 DEF s
<1> HIDE DEF l, a, n, rows
<1>7. /\ journal.attention = attention /\ journal.ledger = ledger
      /\ Sequence = ledger.sequence /\ Recent = attention.recent
  BY <1>1, <1>2 DEF InStep, Sequence, Recent
<1>8. SessionTyped' /\ InStep' /\ faults' \in {faults, faults + 1}
  BY <1>1, <1>2, <1>3, <1>4, <1>5, <1>6, CommitKeeps
<1>9. journal'.attention \in {a, journal.attention} /\ journal'.ledger \in {l, journal.ledger}
  BY <1>2, <1>5, CommitFact
<1>10. RedirectInv' /\ refused' \in [Behavior!Keys -> Nat]
  BY <1>1, <1>2, <1>6, <1>7, <1>9, SameRedirects
<1>11. /\ waited' \in [Criteria -> Nat] /\ waited'[c] = 0
       /\ \A d \in Criteria : waited'[d] \in {waited[d], 0}
  BY <1>1, <1>2, TurnFact
<1>12. ASSUME Behavior!TypeOK' PROVE TurnInv'
  <2>0. /\ Recent \in [Criteria -> Nat] /\ Sequence \in Nat /\ faults \in Nat
        /\ faults' \in Nat /\ waited \in [Criteria -> Nat]
    BY <1>1, <1>12, CountTypes
  <2>1. Sequence' = Sequence /\ Recent' \in {Recent, [Recent EXCEPT ![c] = Sequence]}
    BY <1>3, <1>6, <1>7, <1>9 DEF Recent, Sequence
  <2>2. \A d \in Criteria : Recent'[d] = Recent[d] \/ (d = c /\ Recent'[d] = Sequence)
    BY <2>0, <2>1
  <2>3. ASSUME NEW d \in Criteria PROVE Recent'[d] <= Sequence' + 1 /\ Waits(d)'
    <3>1. Recent[d] \in Nat /\ Recent[d] <= Sequence + 1 /\ Waits(d)
      BY <1>1, <2>0 DEF TurnInv, Waits
    <3>2. Recent'[d] <= Sequence' + 1
      BY <2>0, <2>1, <2>2, <3>1
    <3>3. CASE Recent'[d] = Recent[d]
      <4>1. \A e \in Criteria : Recent'[e] = Recent[e] \/ Recent'[e] >= Sequence
        BY <2>0, <2>2
      <4>2. Sequence' >= Sequence /\ faults' >= faults /\ waited'[d] \in {waited[d], 0}
        BY <1>8, <1>11, <2>0, <2>1
      <4> QED BY <1>1, <1>12, <3>1, <3>2, <3>3, <4>1, <4>2, TurnQuiet
    <3>4. CASE Recent'[d] # Recent[d]
      <4>1. waited'[d] = 0 /\ Recent'[d] <= Sequence'
        BY <1>11, <2>0, <2>1, <2>2, <3>4
      <4> QED BY <1>12, <3>2, <4>1, TurnReset
    <3> QED BY <3>3, <3>4
  <2> QED BY <2>3 DEF TurnInv, Waits
<1> QED BY <1>8, <1>10, <1>11, <1>12, CommittedStep

(* A crash, a resume, and what touches neither rows nor activity. *)
LEMMA OtherStep ==
    ASSUME BehaviorInd,
           \/ Behavior!Crash \/ Behavior!Restart \/ Behavior!Contradict \/ Behavior!Terminate
           \/ Behavior!WorkflowMoves \/ Behavior!DropRecommendation
           \/ \E legal, best, preference \in SUBSET Routes :
                 Behavior!RankRoutes(legal, best, preference)
           \/ \E route \in Routes : Behavior!CreateChildEpoch(route)
           \/ UNCHANGED Behavior!vars
    PROVE  BehaviorInd'
<1>1. Behavior!TypeOK /\ SessionTyped /\ InStep
  BY TypedFact DEF BehaviorInd
<1> USE DEF Behavior!history, Behavior!session
<1>2. CASE Behavior!Crash
  <2>1. Behavior!Die /\ UNCHANGED <<journal, contradicted, workflow, epochs, refused, waited>>
    BY <1>2 DEF Behavior!Crash
  <2>2. SessionTyped' /\ InStep' /\ faults' = faults + 1
    BY <1>1, <2>1, DieFact, NewTypes DEF SessionTyped, InStep
  <2> QED BY <2>1, <2>2, StillStep
<1>3. CASE Behavior!Restart
  <2>1. /\ up' = TRUE /\ ledger' = journal.ledger /\ attention' = journal.attention
        /\ counters' = journal.counters
        /\ UNCHANGED <<journal, pending, contradicted, terminated, workflow, offered,
                       epochs, faults, refused, waited>>
    BY <1>3 DEF Behavior!Restart
  <2>2. SessionTyped' /\ InStep'
    BY <1>1, <2>1 DEF SessionTyped, InStep
  <2> QED BY <2>1, <2>2, StillStep
<1>4. CASE Behavior!Contradict
  <2>1. /\ contradicted' = ~contradicted
        /\ UNCHANGED <<up, ledger, attention, counters, journal, pending, terminated, workflow,
                       offered, epochs, faults, refused, waited>>
    BY <1>4 DEF Behavior!Contradict
  <2>2. SessionTyped' /\ InStep'
    BY <1>1, <2>1 DEF SessionTyped, InStep
  <2> QED BY <2>1, <2>2, StillStep
<1>5. CASE Behavior!Terminate
  <2>1. /\ terminated' = TRUE
        /\ UNCHANGED <<up, ledger, attention, counters, journal, pending, contradicted, workflow,
                       offered, epochs, faults, refused, waited>>
    BY <1>5 DEF Behavior!Terminate
  <2>2. SessionTyped' /\ InStep'
    BY <1>1, <2>1 DEF SessionTyped, InStep
  <2> QED BY <2>1, <2>2, StillStep
<1>6. CASE Behavior!WorkflowMoves
  <2>1. /\ workflow' = workflow + 1
        /\ UNCHANGED <<up, ledger, attention, counters, journal, pending, contradicted, terminated,
                       offered, epochs, faults, refused, waited>>
    BY <1>6 DEF Behavior!WorkflowMoves
  <2>2. SessionTyped' /\ InStep'
    BY <1>1, <2>1 DEF SessionTyped, InStep
  <2> QED BY <2>1, <2>2, StillStep
<1>7. CASE Behavior!DropRecommendation
  <2>1. /\ offered' = Behavior!NoRecommendation
        /\ UNCHANGED <<up, ledger, attention, counters, journal, pending, contradicted, terminated,
                       workflow, epochs, faults, refused, waited>>
    BY <1>7 DEF Behavior!DropRecommendation
  <2>2. SessionTyped' /\ InStep'
    BY <1>1, <2>1 DEF SessionTyped, InStep, Behavior!NoRecommendation
  <2> QED BY <2>1, <2>2, StillStep
<1>8. ASSUME NEW legal \in SUBSET Routes, NEW best \in SUBSET Routes,
             NEW preference \in SUBSET Routes, Behavior!RankRoutes(legal, best, preference)
      PROVE  BehaviorInd'
  <2>1. /\ offered'.legal = legal
        /\ UNCHANGED <<up, ledger, attention, counters, journal, pending, contradicted, terminated,
                       workflow, epochs, faults, refused, waited>>
    BY <1>8 DEF Behavior!RankRoutes
  <2>2. SessionTyped' /\ InStep'
    BY <1>1, <2>1 DEF SessionTyped, InStep
  <2> QED BY <2>1, <2>2, StillStep
<1>9. ASSUME NEW route \in Routes, Behavior!CreateChildEpoch(route)
      PROVE  BehaviorInd'
  <2>1. /\ epochs' = epochs + 1 /\ epochs < MaxEpochs
        /\ UNCHANGED <<up, ledger, attention, counters, journal, pending, contradicted, terminated,
                       workflow, offered, faults, refused, waited>>
    BY <1>9 DEF Behavior!CreateChildEpoch
  <2>2. SessionTyped' /\ InStep'
    BY <1>1, <2>1, BehaviorFacts DEF SessionTyped, InStep
  <2> QED BY <2>1, <2>2, StillStep
<1>10. CASE UNCHANGED Behavior!vars
  <2>1. UNCHANGED <<up, ledger, attention, counters, journal, pending, contradicted, terminated,
                    workflow, offered, epochs, faults, refused, waited>>
    BY <1>10 DEF Behavior!vars
  <2>2. SessionTyped' /\ InStep'
    BY <1>1, <2>1 DEF SessionTyped, InStep
  <2> QED BY <2>1, <2>2, StillStep
<1> QED BY <1>2, <1>3, <1>4, <1>5, <1>6, <1>7, <1>8, <1>9, <1>10

(* Every step keeps the invariant. *)
LEMMA BehaviorStep == BehaviorInd /\ [Behavior!Next]_(Behavior!vars) => BehaviorInd'
<1> SUFFICES ASSUME BehaviorInd, [Behavior!Next]_(Behavior!vars)
             PROVE  BehaviorInd'
  OBVIOUS
<1>1. ASSUME NEW d \in Actions,
             \/ Behavior!Prepare(d) \/ Behavior!PrepareYielded(d)
             \/ Behavior!PrepareRedirected(d)
             \/ \E changed \in BOOLEAN : Behavior!RecordAction(d, changed)
      PROVE  BehaviorInd'
  BY <1>1, PrepareStep, RecordActionStep
<1>2. ASSUME NEW c \in Criteria,
             \/ \E repeated \in BOOLEAN : Behavior!RecordFailure(c, repeated)
             \/ Behavior!RecordGoalProgress(c) \/ Behavior!VerifyCriterion(c)
      PROVE  BehaviorInd'
  BY <1>2, FailureStep, ProgressStep, LedgerStep
<1>3. CASE Behavior!RenderContext
  BY <1>3, RenderStep
<1>4. CASE Behavior!RecordBlocker \/ Behavior!ClearBlocker \/ Behavior!RecordRecoveryEpoch
  BY <1>4, LedgerStep, RecoveryEpochStep
<1>5. CASE \/ Behavior!Crash \/ Behavior!Restart \/ Behavior!Contradict \/ Behavior!Terminate
           \/ Behavior!WorkflowMoves \/ Behavior!DropRecommendation
           \/ \E legal, best, preference \in SUBSET Routes :
                 Behavior!RankRoutes(legal, best, preference)
           \/ \E route \in Routes : Behavior!CreateChildEpoch(route)
           \/ UNCHANGED Behavior!vars
  BY <1>5, OtherStep
<1> QED BY <1>1, <1>2, <1>3, <1>4, <1>5 DEF Behavior!Next

(* The blank session satisfies it. *)
LEMMA BehaviorStart == Behavior!Init => BehaviorInd
<1> SUFFICES ASSUME Behavior!Init PROVE BehaviorInd
  OBVIOUS
<1>1. /\ up = TRUE /\ ledger = Behavior!NewLedger /\ attention = Behavior!NewAttention
      /\ counters = Behavior!NewCounters
      /\ journal = [ledger |-> Behavior!NewLedger, attention |-> Behavior!NewAttention,
                    counters |-> Behavior!NewCounters]
      /\ pending = {} /\ contradicted = FALSE /\ terminated = FALSE /\ workflow = 0
      /\ offered.legal = {} /\ epochs = 0 /\ faults = 0
      /\ refused = [k \in Behavior!Keys |-> 0] /\ waited = [c \in Criteria |-> 0]
  BY DEF Behavior!Init, Behavior!NoRecommendation
<1>2. SessionTyped /\ InStep
  <2>1. journal \in [ledger : Behavior!Ledger, attention : Behavior!Attention,
                     counters : Behavior!Counters]
    BY <1>1, NewTypes
  <2>2. epochs \in 0..MaxEpochs /\ faults \in 0..MaxFaults
    BY <1>1, BehaviorFacts
  <2>3. SessionTyped
    BY <1>1, <2>1, <2>2, NewTypes DEF SessionTyped
  <2> QED BY <1>1, <2>3 DEF InStep
<1>3. journal.attention = Behavior!NewAttention /\ journal.ledger = Behavior!NewLedger
  BY <1>1
<1>4. \A k \in Behavior!Keys : refused[k] = 0
  BY <1>1
<1>5. RedirectInv
  BY <1>3, <1>4, NewTypes, BehaviorFacts DEF RedirectInv
<1>6. Behavior!TypeOK
  BY <1>1, <1>2, NewTypes, BehaviorFacts, TypedFact
<1>7. ASSUME NEW c \in Criteria PROVE Recent[c] <= Sequence + 1 /\ Waits(c)
  <2>1. Recent[c] = 0 /\ Sequence = 0 /\ waited[c] = 0 /\ faults = 0
    BY <1>1, <1>3, NewTypes DEF Recent, Sequence
  <2>2. Early(c) = 0 /\ Cardinality(Served(c)) \in Nat
    BY <1>6, <2>1, TurnTypes DEF Early
  <2> QED BY <2>1, <2>2 DEF Waits
<1> QED BY <1>2, <1>5, <1>6, <1>7 DEF BehaviorInd, TurnInv, Waits

(* So it holds throughout, crashes and resumes included. *)
LEMMA BehaviorInvariant == Behavior!Spec => []BehaviorInd
<1> QED BY BehaviorStart, BehaviorStep, PTL DEF Behavior!Spec

(* An agent without progress is refused a bounded number of times per criterion however
   the session is restarted, no prompt unfinished criterion is passed over for more turns
   than there are other criteria and crashes, and a yielded turn is for another criterion
   than the one redirected (record_progress_redirect, StandaloneAttentionPolicy.select). *)
THEOREM AttentionIsFair == Behavior!Spec => []AttentionInv
<1>1. BehaviorInd => AttentionInv
  <2> SUFFICES ASSUME BehaviorInd
               PROVE  /\ Behavior!TypeOK /\ Behavior!RefusalsBounded
                      /\ Behavior!AttentionRotates /\ Behavior!YieldsElsewhere
    BY DEF AttentionInv
  <2>1. Behavior!TypeOK /\ Behavior!RefusalsBounded
    BY DEF BehaviorInd, RedirectInv, Behavior!RefusalsBounded
  <2>2. ASSUME NEW c \in Criteria PROVE waited[c] < Cardinality(Criteria) + faults
    <3>1. waited[c] + Early(c) <= Cardinality(Served(c)) + faults
      BY DEF BehaviorInd, TurnInv
    <3> QED BY <2>1, <3>1, TurnTypes
  <2>3. Elsewhere(attention)
    <3>1. CASE up
      BY <3>1 DEF BehaviorInd, InStep, RedirectInv
    <3>2. CASE ~up
      BY <3>2, NewTypes DEF BehaviorInd, InStep
    <3> QED BY <3>1, <3>2
  <2>4. Behavior!AttentionRotates
    BY <2>2, SameCounting DEF Behavior!AttentionRotates
  <2>5. Behavior!YieldsElsewhere
    BY <2>3 DEF Behavior!YieldsElsewhere, Elsewhere
  <2> QED BY <2>1, <2>4, <2>5
<1> QED BY <1>1, BehaviorInvariant, PTL

-----------------------------------------------------------------------------
(* What makes the policy ask for a new route, unless an operator contradicts: the epoch
   budget is used up with work left, or an action budget is and no redirect was rendered. *)
Asked(l, a, n) ==
    IF Behavior!Overdue(n.epochs, EpochLimit) THEN Behavior!Runnable(l) # {}
    ELSE /\ Behavior!Overdue(n.support, SupportLimit) \/ Behavior!Overdue(n.total, TotalLimit)
         /\ a.guidance \/ ~Behavior!Redirecting(a)

(* A recommendation is pinned to a revision the session has reached, and as long as the
   revision stands the policy asks for a route. *)
OfferInv ==
    offered.legal # {} =>
        /\ up
        /\ offered.behavior \in Nat
        /\ offered.behavior <= Behavior!BehaviorRevision(ledger, attention)
        /\ offered.behavior = Behavior!BehaviorRevision(ledger, attention)
              => Asked(ledger, attention, counters)

(* The mode asks for a route as Asked says. *)
LEMMA ReplanFact ==
    ASSUME NEW l, NEW a, NEW n, NEW boundary
    PROVE  Behavior!Mode(l, a, n, boundary) = "REPLAN" <=> ~contradicted /\ Asked(l, a, n)
<1> DEFINE E == Behavior!Overdue(n.epochs, EpochLimit)
           A == Behavior!Overdue(n.support, SupportLimit)
                \/ Behavior!Overdue(n.total, TotalLimit)
           S == Behavior!Overdue(n.same, SameLimit)
           R == Behavior!Runnable(l) # {}
           G == a.guidance \/ ~Behavior!Redirecting(a)
           D == l.due # {}
           B == l.blockers
<1>1. Asked(l, a, n) <=> IF E THEN R ELSE A /\ G
  BY DEF Asked
<1>2. Behavior!Mode(l, a, n, boundary) =
        CASE contradicted -> "REINSPECT"
          [] OTHER ->
        CASE E -> IF R THEN "REPLAN" ELSE "BLOCKED"
          [] ~E /\ A -> IF G THEN "REPLAN" ELSE "DELIVER"
          [] OTHER ->
        CASE S -> "RECOVER"
          [] ~S /\ B -> "DIAGNOSE"
          [] ~S /\ ~B /\ D -> "VERIFY"
          [] OTHER ->
        IF R THEN "DELIVER" ELSE IF boundary THEN "READY_TO_COMPLETE" ELSE "VERIFY"
  BY DEF Behavior!Mode
<1> HIDE DEF E, A, S, R, G, D, B
<1> QED BY <1>1, <1>2

(* No recommendation. *)
LEMMA NothingOffered ==
    ASSUME offered'.legal = {} PROVE OfferInv'
BY DEF OfferInv

(* A recommendation stays justified as long as the revision moves with the session. *)
LEMMA OfferStands ==
    ASSUME Behavior!TypeOK, OfferInv, UNCHANGED <<up, offered>>,
           \/ UNCHANGED <<ledger, attention, counters>>
           \/ /\ ledger'.revision \in Nat /\ attention'.revision \in Nat
              /\ ledger'.revision + attention'.revision > ledger.revision + attention.revision
    PROVE  OfferInv'
<1>1. ledger.revision \in Nat /\ attention.revision \in Nat
  BY TypedFact, AttentionSet DEF SessionTyped, Behavior!Ledger
<1>2. CASE UNCHANGED <<ledger, attention, counters>>
  BY <1>2 DEF OfferInv, Asked, Behavior!BehaviorRevision, Behavior!Overdue, Behavior!Runnable,
              Behavior!Redirecting, Behavior!Keys
<1>3. CASE /\ ledger'.revision \in Nat /\ attention'.revision \in Nat
           /\ ledger'.revision + attention'.revision > ledger.revision + attention.revision
  BY <1>1, <1>3 DEF OfferInv, Behavior!BehaviorRevision
<1> QED BY <1>2, <1>3

(* Rows that raise the revision leave no recommendation fresh, and a crash none at all. *)
LEMMA CommitOutdates ==
    ASSUME Behavior!TypeOK, OfferInv, NEW l \in Behavior!Ledger, NEW a \in Behavior!Attention,
           NEW n, NEW left, NEW rows \in Rows, Behavior!Commit(l, a, n, rows, left),
           l.revision > ledger.revision, a.revision >= attention.revision
    PROVE  OfferInv' /\ epochs' = epochs
<1>1. epochs' = epochs
  BY CommitFact
<1>2. CASE Behavior!Die
  BY <1>1, <1>2, DieFact, NothingOffered
<1>3. CASE ~Behavior!Die
  <2>1. ledger' = l /\ attention' = a /\ UNCHANGED <<up, offered>>
    BY <1>3, CommitFact
  <2>2. /\ l.revision \in Nat /\ a.revision \in Nat /\ ledger.revision \in Nat
        /\ attention.revision \in Nat
    BY TypedFact, AttentionSet DEF SessionTyped, Behavior!Ledger
  <2>3. l.revision + a.revision > ledger.revision + attention.revision
    BY <2>2
  <2> QED BY <1>1, <2>1, <2>2, <2>3, OfferStands
<1> QED BY <1>2, <1>3

(* Attention that was acted on, failed or progressed has a new revision. *)
LEMMA AttentionRevisions ==
    ASSUME NEW a \in Behavior!Attention
    PROVE  /\ a.revision \in Nat
           /\ \A c \in Criteria \cup {0}, s \in Nat, changed \in BOOLEAN :
                 Behavior!Acted(a, c, s, changed).revision = a.revision + 1
           /\ \A c \in Criteria : Behavior!Progressed(a, c).revision = a.revision + 1
           /\ \A c \in Criteria, s \in Nat :
                 Behavior!FailedApproach(a, c, s).revision = a.revision + 1
<1>1. /\ a.revision \in Nat
      /\ DOMAIN a = {"retry", "recent", "redirects", "last", "yield", "guidance", "revision"}
  BY AttentionSet
<1>2. ASSUME NEW b, "revision" \in DOMAIN b
      PROVE  Behavior!ResetRedirects(b).revision = b.revision
  BY <1>2 DEF Behavior!ResetRedirects
<1>3. ASSUME NEW c \in Criteria \cup {0}, NEW s \in Nat, NEW changed \in BOOLEAN
      PROVE  Behavior!Acted(a, c, s, changed).revision = a.revision + 1
  BY <1>1, <1>2 DEF Behavior!Acted
<1>4. ASSUME NEW c \in Criteria
      PROVE  Behavior!Progressed(a, c).revision = a.revision + 1
  BY <1>1, <1>2 DEF Behavior!Progressed
<1>5. ASSUME NEW c \in Criteria, NEW s \in Nat
      PROVE  Behavior!FailedApproach(a, c, s).revision = a.revision + 1
  BY <1>1 DEF Behavior!FailedApproach
<1> QED BY <1>1, <1>3, <1>4, <1>5

(* What the operations commit raises the ledger's revision. *)
LEMMA LedgerRevisions ==
    ASSUME NEW l \in Behavior!Ledger
    PROVE  /\ l.revision \in Nat
           /\ \A c \in Criteria :
                 /\ [l EXCEPT !.status[c] = "partially_observed", !.sequence = @ + 1,
                              !.revision = @ + 1].revision > l.revision
                 /\ [l EXCEPT !.status[c] = "satisfied", !.due = @ \ {c},
                              !.revision = @ + 1].revision > l.revision
           /\ [l EXCEPT !.blockers = TRUE, !.sequence = @ + 1, !.revision = @ + 2].revision
                 > l.revision
           /\ [l EXCEPT !.blockers = FALSE, !.revision = @ + 1].revision > l.revision
           /\ [l EXCEPT !.revision = @ + 1].revision > l.revision
BY DEF Behavior!Ledger

(* Of the actions that are prepared only the yielded and the redirected move attention. *)
LEMMA PrepareOffer ==
    ASSUME BehaviorInd, OfferInv, NEW d \in Actions,
           \/ Behavior!Prepare(d) \/ Behavior!PrepareYielded(d) \/ Behavior!PrepareRedirected(d)
    PROVE  OfferInv' /\ epochs' = epochs
<1>1. /\ Behavior!TypeOK /\ SessionTyped /\ InStep /\ RedirectInv
      /\ attention \in Behavior!Attention /\ ledger \in Behavior!Ledger
      /\ attention.revision \in Nat /\ ledger.revision \in Nat
  BY TypedFact, AttentionSet DEF BehaviorInd, SessionTyped, Behavior!Ledger
<1>2. up /\ UNCHANGED <<up, ledger, counters, offered, epochs>>
  BY DEF Behavior!Prepare, Behavior!PrepareYielded, Behavior!PrepareRedirected,
         Behavior!Unprepared, Behavior!CanPrepare
<1>3. CASE Behavior!Prepare(d)
  BY <1>1, <1>2, <1>3, OfferStands DEF Behavior!Prepare
<1>4. CASE Behavior!PrepareYielded(d)
  <2>1. attention' = [attention EXCEPT !.yield = 0, !.revision = @ + 1]
    BY <1>4 DEF Behavior!PrepareYielded
  <2>2. attention'.revision = attention.revision + 1
    BY <1>1, <2>1, AttentionSet
  <2>3. /\ ledger'.revision \in Nat /\ attention'.revision \in Nat
        /\ ledger'.revision + attention'.revision > ledger.revision + attention.revision
    BY <1>1, <1>2, <2>2
  <2> QED BY <1>1, <1>2, <2>3, OfferStands
<1>5. CASE Behavior!PrepareRedirected(d)
  <2> DEFINE key == Behavior!Focus(d)
  <2>1. /\ attention' = Behavior!Redirected(ledger, attention, d, key).attention
        /\ ~(key # 0 /\ key = attention.yield)
    BY <1>5 DEF Behavior!PrepareRedirected
  <2>2. key \in Behavior!Keys
    <3>1. Behavior!Runnable(ledger) \in SUBSET Criteria
      BY DEF Behavior!Runnable
    <3>2. Behavior!Head(ledger, attention) \in Behavior!Keys
      BY <1>1, <3>1, FirstFact DEF Behavior!Head, Behavior!Keys
    <3> QED BY <3>2, BehaviorFacts DEF Behavior!Focus, Behavior!Keys
  <2>3. Elsewhere(attention) /\ \A k \in Behavior!Keys : attention.redirects[k] <= MaxRedirects
    BY <1>1, <1>2 DEF RedirectInv, InStep
  <2> HIDE DEF key
  <2>4. attention' = attention \/ attention'.revision = attention.revision + 1
    BY <1>1, <2>1, <2>2, <2>3, RedirectedFact
  <2>5. CASE attention' = attention
    BY <1>1, <1>2, <2>5, OfferStands
  <2>6. CASE attention'.revision = attention.revision + 1
    <3>1. /\ ledger'.revision \in Nat /\ attention'.revision \in Nat
          /\ ledger'.revision + attention'.revision > ledger.revision + attention.revision
      BY <1>1, <1>2, <2>6
    <3> QED BY <1>1, <1>2, <3>1, OfferStands
  <2> QED BY <2>4, <2>5, <2>6
<1> QED BY <1>2, <1>3, <1>4, <1>5

(* The operations that commit rows. *)
LEMMA RecordOffer ==
    ASSUME BehaviorInd, OfferInv,
           \/ \E d \in Actions, changed \in BOOLEAN : Behavior!RecordAction(d, changed)
           \/ \E c \in Criteria :
                 \/ \E repeated \in BOOLEAN : Behavior!RecordFailure(c, repeated)
                 \/ Behavior!RecordGoalProgress(c) \/ Behavior!VerifyCriterion(c)
           \/ Behavior!RecordBlocker \/ Behavior!ClearBlocker \/ Behavior!RecordRecoveryEpoch
    PROVE  OfferInv' /\ epochs' = epochs
<1>1. /\ Behavior!TypeOK /\ attention \in Behavior!Attention /\ ledger \in Behavior!Ledger
      /\ attention.revision \in Nat /\ ledger.revision \in Nat /\ ledger.sequence \in Nat
  BY TypedFact, AttentionSet DEF BehaviorInd, SessionTyped, Behavior!Ledger
<1>2. ASSUME NEW d \in Actions, NEW changed \in BOOLEAN, Behavior!RecordAction(d, changed)
      PROVE  OfferInv' /\ epochs' = epochs
  <2> DEFINE l == Behavior!Committed(ledger, About[d], changed)
             a == Behavior!Acted(attention, About[d], l.sequence, changed)
             support == IF Relation[d] = "diagnostic_support" THEN 1 ELSE 0
             n == [counters EXCEPT !.total = @ + 1, !.support = @ + support]
             left == pending \ {d}
  <2>1. Behavior!Commit(l, a, n, Attentive, left)
    BY <1>2, Zenon DEF Behavior!RecordAction, Attentive
  <2>2. About[d] \in Criteria \cup {0} /\ Attentive \in Rows
    BY BehaviorFacts DEF Rows
  <2>3. l \in Behavior!Ledger /\ l.revision = ledger.revision + 1 /\ l.sequence \in Nat
    <3>1. /\ l \in Behavior!Ledger /\ l.revision = ledger.revision + 1
          /\ l.sequence = ledger.sequence + 1
      BY <1>1, <2>2, CommittedFact
    <3> HIDE DEF l
    <3> QED BY <1>1, <3>1
  <2> HIDE DEF l
  <2>4. a \in Behavior!Attention /\ a.revision = attention.revision + 1
    BY <1>1, <2>2, <2>3, AttentionTypes, AttentionRevisions
  <2>5. l.revision > ledger.revision /\ a.revision >= attention.revision
    BY <1>1, <2>3, <2>4
  <2> HIDE DEF a, n, left
  <2> QED BY <1>1, <2>1, <2>2, <2>3, <2>4, <2>5, CommitOutdates
<1>3. ASSUME NEW c \in Criteria, NEW repeated \in BOOLEAN, Behavior!RecordFailure(c, repeated)
      PROVE  OfferInv' /\ epochs' = epochs
  <2> DEFINE l == [ledger EXCEPT !.revision = @ + 1]
             a == Behavior!FailedApproach(attention, c, ledger.sequence)
             rows == <<"ledger", "attention", "counters">>
  <2>1. PICK n : Behavior!Commit(l, a, n, rows, pending)
    BY <1>3, Zenon DEF Behavior!RecordFailure
  <2>2. l \in Behavior!Ledger /\ l.revision > ledger.revision /\ rows \in Rows
    BY <1>1, LedgerTypes, LedgerRevisions DEF Rows
  <2>3. a \in Behavior!Attention /\ a.revision >= attention.revision
    <3>1. a \in Behavior!Attention /\ a.revision = attention.revision + 1
      BY <1>1, AttentionTypes, AttentionRevisions
    <3> HIDE DEF a
    <3> QED BY <1>1, <3>1
  <2> HIDE DEF l, a, rows
  <2> QED BY <1>1, <2>1, <2>2, <2>3, CommitOutdates
<1>4. ASSUME NEW c \in Criteria, Behavior!RecordGoalProgress(c)
      PROVE  OfferInv' /\ epochs' = epochs
  <2> DEFINE l == [ledger EXCEPT !.status[c] = "partially_observed",
                                 !.sequence = @ + 1, !.revision = @ + 1]
             a == Behavior!Progressed(attention, c)
             rows == <<"counters", "ledger", "attention">>
  <2>1. Behavior!Commit(l, a, Behavior!NewCounters, rows, pending)
    BY <1>4, Zenon DEF Behavior!RecordGoalProgress
  <2>2. l \in Behavior!Ledger /\ l.revision > ledger.revision /\ rows \in Rows
    BY <1>1, LedgerTypes, LedgerRevisions DEF Rows
  <2>3. a \in Behavior!Attention /\ a.revision >= attention.revision
    <3>1. a \in Behavior!Attention /\ a.revision = attention.revision + 1
      BY <1>1, AttentionTypes, AttentionRevisions
    <3> HIDE DEF a
    <3> QED BY <1>1, <3>1
  <2> HIDE DEF l, a, rows
  <2> QED BY <1>1, <2>1, <2>2, <2>3, CommitOutdates
<1>5. ASSUME NEW l \in Behavior!Ledger, l.revision > ledger.revision, Behavior!LedgerOnly(l)
      PROVE  OfferInv' /\ epochs' = epochs
  <2>1. Behavior!Commit(l, attention, counters, <<"ledger">>, pending) /\ <<"ledger">> \in Rows
    BY <1>5 DEF Behavior!LedgerOnly, Rows
  <2> QED BY <1>1, <1>5, <2>1, CommitOutdates
<1>6. ASSUME NEW c \in Criteria, Behavior!VerifyCriterion(c)
      PROVE  OfferInv' /\ epochs' = epochs
  <2> DEFINE l == [ledger EXCEPT !.status[c] = "satisfied", !.due = @ \ {c}, !.revision = @ + 1]
  <2>1. l \in Behavior!Ledger /\ l.revision > ledger.revision /\ Behavior!LedgerOnly(l)
    BY <1>1, <1>6, LedgerTypes, LedgerRevisions DEF Behavior!VerifyCriterion
  <2> HIDE DEF l
  <2> QED BY <1>5, <2>1
<1>7. CASE Behavior!RecordBlocker
  <2> DEFINE l == [ledger EXCEPT !.blockers = TRUE, !.sequence = @ + 1, !.revision = @ + 2]
  <2>1. l \in Behavior!Ledger /\ l.revision > ledger.revision /\ Behavior!LedgerOnly(l)
    BY <1>1, <1>7, LedgerTypes, LedgerRevisions DEF Behavior!RecordBlocker
  <2> HIDE DEF l
  <2> QED BY <1>5, <2>1
<1>8. CASE Behavior!ClearBlocker
  <2> DEFINE l == [ledger EXCEPT !.blockers = FALSE, !.revision = @ + 1]
  <2>1. l \in Behavior!Ledger /\ l.revision > ledger.revision /\ Behavior!LedgerOnly(l)
    BY <1>1, <1>8, LedgerTypes, LedgerRevisions DEF Behavior!ClearBlocker
  <2> HIDE DEF l
  <2> QED BY <1>5, <2>1
<1>9. CASE Behavior!RecordRecoveryEpoch
  <2> DEFINE l == [ledger EXCEPT !.revision = @ + 1]
             n == [counters EXCEPT !.epochs = @ + 1]
             rows == <<"ledger", "counters">>
  <2>1. Behavior!Commit(l, attention, n, rows, pending)
    BY <1>9 DEF Behavior!RecordRecoveryEpoch
  <2>2. l \in Behavior!Ledger /\ l.revision > ledger.revision /\ rows \in Rows
    BY <1>1, LedgerTypes, LedgerRevisions DEF Rows
  <2> HIDE DEF l, n, rows
  <2> QED BY <1>1, <2>1, <2>2, CommitOutdates
<1> QED BY <1>2, <1>3, <1>4, <1>6, <1>7, <1>8, <1>9

(* The rendering of the context, a crash, a resume, and what leaves the session alone. *)
LEMMA OtherOffer ==
    ASSUME BehaviorInd, OfferInv,
           \/ Behavior!RenderContext
           \/ Behavior!Crash \/ Behavior!Restart \/ Behavior!Contradict \/ Behavior!Terminate
           \/ Behavior!WorkflowMoves \/ Behavior!DropRecommendation
           \/ \E legal, best, preference \in SUBSET Routes :
                 Behavior!RankRoutes(legal, best, preference)
           \/ UNCHANGED Behavior!vars
    PROVE  OfferInv' /\ epochs' = epochs
<1>1. /\ Behavior!TypeOK /\ attention \in Behavior!Attention /\ ledger \in Behavior!Ledger
      /\ attention.revision \in Nat /\ ledger.revision \in Nat
  BY TypedFact, AttentionSet DEF BehaviorInd, SessionTyped, Behavior!Ledger
<1>2. CASE Behavior!RenderContext
  <2>1. /\ attention' = [attention EXCEPT !.guidance = FALSE, !.revision = @ + 1]
        /\ UNCHANGED <<up, ledger, offered, epochs>>
    BY <1>2 DEF Behavior!RenderContext
  <2>2. attention'.revision = attention.revision + 1
    BY <1>1, <2>1, AttentionSet
  <2>3. /\ ledger'.revision \in Nat /\ attention'.revision \in Nat
        /\ ledger'.revision + attention'.revision > ledger.revision + attention.revision
    BY <1>1, <2>1, <2>2
  <2> QED BY <1>1, <2>1, <2>3, OfferStands
<1>3. CASE Behavior!Crash
  <2>1. Behavior!Die /\ epochs' = epochs
    BY <1>3 DEF Behavior!Crash
  <2> QED BY <1>1, <2>1, DieFact, NothingOffered
<1>4. CASE Behavior!Restart
  <2>1. ~up /\ offered' = offered /\ epochs' = epochs
    BY <1>4 DEF Behavior!Restart
  <2> QED BY <2>1, NothingOffered DEF OfferInv
<1>5. CASE \/ Behavior!Contradict \/ Behavior!Terminate \/ Behavior!WorkflowMoves
           \/ UNCHANGED Behavior!vars
  <2>1. UNCHANGED <<up, ledger, attention, counters, offered, epochs>>
    BY <1>5 DEF Behavior!Contradict, Behavior!Terminate, Behavior!WorkflowMoves, Behavior!vars,
                Behavior!session
  <2> QED BY <1>1, <2>1, OfferStands
<1>6. CASE Behavior!DropRecommendation
  <2>1. offered'.legal = {} /\ epochs' = epochs
    BY <1>6 DEF Behavior!DropRecommendation, Behavior!NoRecommendation
  <2> QED BY <2>1, NothingOffered
<1>7. ASSUME NEW legal \in SUBSET Routes, NEW best \in SUBSET Routes,
             NEW preference \in SUBSET Routes, Behavior!RankRoutes(legal, best, preference)
      PROVE  OfferInv' /\ epochs' = epochs
  <2>1. /\ up /\ offered' = [legal |-> legal, workflow |-> workflow,
                             behavior |-> Behavior!BehaviorRevision(ledger, attention)]
        /\ UNCHANGED <<up, ledger, attention, counters, epochs>>
    BY <1>7 DEF Behavior!RankRoutes, Behavior!session
  <2>2. PICK boundary \in BOOLEAN : Behavior!Mode(ledger, attention, counters, boundary) = "REPLAN"
    BY <1>7 DEF Behavior!RankRoutes
  <2>3. Asked(ledger, attention, counters)
    BY <2>2, ReplanFact
  <2>4. /\ offered'.behavior = Behavior!BehaviorRevision(ledger, attention)
        /\ offered'.behavior \in Nat
    BY <1>1, <2>1 DEF Behavior!BehaviorRevision
  <2>5. Behavior!BehaviorRevision(ledger, attention)' = Behavior!BehaviorRevision(ledger, attention)
    BY <2>1 DEF Behavior!BehaviorRevision
  <2>6. Asked(ledger, attention, counters)'
    BY <2>1, <2>3 DEF Asked, Behavior!Overdue, Behavior!Runnable, Behavior!Redirecting,
                      Behavior!Keys
  <2> QED BY <2>1, <2>4, <2>5, <2>6 DEF OfferInv
<1> QED BY <1>2, <1>3, <1>4, <1>5, <1>6, <1>7

(* The recommendation stays justified, and an epoch is entered on a fresh one. *)
LEMMA OfferStep ==
    BehaviorInd /\ OfferInv /\ [Behavior!Next]_(Behavior!vars)
        => OfferInv' /\ Behavior!EpochAskedFor
<1> SUFFICES ASSUME BehaviorInd, OfferInv, [Behavior!Next]_(Behavior!vars)
             PROVE  OfferInv' /\ Behavior!EpochAskedFor
  OBVIOUS
<1>1. ASSUME epochs' = epochs PROVE Behavior!EpochAskedFor
  BY <1>1 DEF Behavior!EpochAskedFor
<1>2. CASE \E d \in Actions :
              Behavior!Prepare(d) \/ Behavior!PrepareYielded(d) \/ Behavior!PrepareRedirected(d)
  BY <1>1, <1>2, PrepareOffer
<1>3. CASE \/ \E d \in Actions, changed \in BOOLEAN : Behavior!RecordAction(d, changed)
           \/ \E c \in Criteria :
                 \/ \E repeated \in BOOLEAN : Behavior!RecordFailure(c, repeated)
                 \/ Behavior!RecordGoalProgress(c) \/ Behavior!VerifyCriterion(c)
           \/ Behavior!RecordBlocker \/ Behavior!ClearBlocker \/ Behavior!RecordRecoveryEpoch
  BY <1>1, <1>3, RecordOffer
<1>4. CASE \/ Behavior!RenderContext
           \/ Behavior!Crash \/ Behavior!Restart \/ Behavior!Contradict \/ Behavior!Terminate
           \/ Behavior!WorkflowMoves \/ Behavior!DropRecommendation
           \/ \E legal, best, preference \in SUBSET Routes :
                 Behavior!RankRoutes(legal, best, preference)
           \/ UNCHANGED Behavior!vars
  BY <1>1, <1>4, OtherOffer
<1>5. ASSUME NEW route \in Routes, Behavior!CreateChildEpoch(route)
      PROVE  OfferInv' /\ Behavior!EpochAskedFor
  <2>1. /\ route \in offered.legal /\ Behavior!Fresh(offered)
        /\ UNCHANGED <<up, ledger, attention, counters, offered>>
    BY <1>5 DEF Behavior!CreateChildEpoch, Behavior!session
  <2>2. Behavior!TypeOK
    BY DEF BehaviorInd
  <2>3. OfferInv'
    BY <2>1, <2>2, OfferStands
  <2>4. Asked(ledger, attention, counters)
    BY <2>1 DEF OfferInv, Behavior!Fresh
  <2>5. contradicted \/ Behavior!Mode(ledger, attention, counters, FALSE) = "REPLAN"
    BY <2>4, ReplanFact
  <2> QED BY <2>3, <2>5 DEF Behavior!EpochAskedFor
<1> QED BY <1>2, <1>3, <1>4, <1>5 DEF Behavior!Next

(* A child policy epoch is entered only while the policy still asks for a new route or an
   operator contradicts: whatever else ended that moved the revision the recommendation is
   pinned to (_rank_legal_routes, _create_child_policy_epoch). *)
THEOREM EpochIsJustified == Behavior!Spec => EpochJustified
<1>1. Behavior!Init => OfferInv
  BY DEF Behavior!Init, Behavior!NoRecommendation, OfferInv
<1>2. BehaviorInd /\ OfferInv /\ [Behavior!Next]_(Behavior!vars) => OfferInv'
  BY OfferStep
<1>3. BehaviorInd /\ OfferInv /\ [Behavior!Next]_(Behavior!vars)
         => [Behavior!EpochAskedFor]_behaviorVars
  BY OfferStep
<1> QED BY <1>1, <1>2, <1>3, BehaviorInvariant, PTL DEF Behavior!Spec, EpochJustified

-----------------------------------------------------------------------------
(* A finite set that is not empty has a first element in any total preorder. *)
LEMMA ExtremeFact ==
    ASSUME NEW S, IsFiniteSet(S), S # {}, NEW R,
           \A x, y \in S : <<x, y>> \in R \/ <<y, x>> \in R,
           \A x, y, z \in S : <<x, y>> \in R /\ <<y, z>> \in R => <<x, z>> \in R
    PROVE  \E x \in S : \A y \in S : <<x, y>> \in R
<1> DEFINE Has(T) == \E x \in T : \A y \in T : <<x, y>> \in R
           Bad == {T \in SUBSET S : T # {} /\ ~Has(T)}
           Sizes == {n \in Nat : \E T \in Bad : n = Cardinality(T)}
<1>1. ASSUME ~Has(S) PROVE FALSE
  <2>1. \A T \in SUBSET S : IsFiniteSet(T) /\ Cardinality(T) \in Nat
    BY FS_Subset, FS_CardinalityType
  <2>2. S \in Bad
    BY <1>1
  <2>3. Sizes \in SUBSET Nat /\ Sizes # {}
    BY <2>1, <2>2
  <2> HIDE DEF Bad
  <2>4. PICK n \in Sizes : \A m \in Sizes : n <= m
    BY <2>3, LeastFact
  <2>5. PICK T \in Bad : n = Cardinality(T)
    BY <2>4
  <2>6. T \in SUBSET S /\ T # {} /\ ~Has(T)
    BY DEF Bad
  <2>7. PICK x \in T : TRUE
    BY <2>6
  <2> DEFINE U == T \ {x}
  <2>8. U \in SUBSET S /\ Cardinality(U) = n - 1 /\ Cardinality(U) \in Nat /\ n \in Nat
    BY <2>1, <2>5, <2>6, <2>7, FS_RemoveElement
  <2>9. U \notin Bad
    <3>1. CASE U \in Bad
      <4>1. Cardinality(U) \in Sizes
        BY <2>8, <3>1
      <4> QED BY <2>4, <2>8, <4>1
    <3> QED BY <3>1
  <2>10. CASE U = {}
    <3>1. \A y \in T : y = x
      BY <2>10
    <3> QED BY <2>6, <2>7, <3>1
  <2>11. CASE Has(U)
    <3>1. PICK u \in U : \A y \in U : <<u, y>> \in R
      BY <2>11
    <3>2. \A y \in T : y = x \/ y \in U
      OBVIOUS
    <3>3. x \in S /\ u \in S /\ T \subseteq S
      BY <2>6, <2>7
    <3>4. CASE <<u, x>> \in R
      BY <2>6, <3>1, <3>2, <3>4
    <3>5. CASE <<x, u>> \in R
      <4>1. <<x, x>> \in R
        BY <3>3
      <4>2. \A y \in U : <<x, y>> \in R
        BY <3>1, <3>3, <3>5
      <4> QED BY <2>6, <2>7, <3>2, <4>1, <4>2
    <3> QED BY <3>3, <3>4, <3>5
  <2> HIDE DEF Has
  <2> QED BY <2>8, <2>9, <2>10, <2>11 DEF Bad
<1> QED BY <1>1

(* The newest and the oldest lease of a set exist. *)
LEMMA LeaseFact ==
    ASSUME NEW S, IsFiniteSet(S), S # {}, \A l \in S : l.id \in Nat /\ l.revision \in Nat
    PROVE  /\ \E l \in S : \A m \in S : Newer(l, m)
           /\ \E l \in S : \A m \in S : Newer(m, l)
<1> DEFINE R == {p \in S \X S : Newer(p[1], p[2])}
           Q == {p \in S \X S : Newer(p[2], p[1])}
<1>1. \A l, m \in S : (<<l, m>> \in R <=> Newer(l, m)) /\ (<<l, m>> \in Q <=> Newer(m, l))
  OBVIOUS
<1>2. \A l, m \in S : Newer(l, m) \/ Newer(m, l)
  BY DEF Newer
<1>3. \A k, l, m \in S : Newer(k, l) /\ Newer(l, m) => Newer(k, m)
  BY DEF Newer
<1> HIDE DEF R, Q
<1>4. \E l \in S : \A m \in S : <<l, m>> \in R
  BY <1>1, <1>2, <1>3, ExtremeFact
<1>5. \E l \in S : \A m \in S : <<l, m>> \in Q
  <2>1. \A l, m \in S : <<l, m>> \in Q \/ <<m, l>> \in Q
    BY <1>1, <1>2
  <2>2. \A k, l, m \in S : <<k, l>> \in Q /\ <<l, m>> \in Q => <<k, m>> \in Q
    BY <1>1, <1>3
  <2> QED BY <2>1, <2>2, ExtremeFact
<1> QED BY <1>1, <1>4, <1>5

(* What a projection's modes and leases, old and expired ones included, may not be. *)
Guarded(o) == o = NoOverlay \/ KeepsFloor(o)

(* The overlay in force and the one a rollback returns to keep the floor. *)
FloorInd == OverlayInd /\ Guarded(overlay) /\ Guarded(transition.previous)

(* No value a component is given, now or by a lease that expires, is suppressed. *)
LEMMA ModeFact ==
    ASSUME NEW p \in Projections, KeepsFloor(p), NEW i, NEW c \in Components
    PROVE  ComponentMode(Overlay(p), i, c) \notin Suppressed(c)
<1> DEFINE o == Overlay(p)
           leases == {l \in o.leases : l.target = c}
           live == {l \in leases : i <= l.expires}
<1>0. o.leases = p.leases /\ o.modes = p.modes
  BY DEF Overlay
<1> HIDE DEF o
<1>1. /\ IsFiniteSet(leases) /\ IsFiniteSet(live)
      /\ \A l \in leases : l.id \in Nat /\ l.revision \in Nat
      /\ live \subseteq leases
  BY <1>0, LifecycleAssumption, FS_Subset
<1>2. /\ p.modes[c] \notin Suppressed(c)
      /\ \A l \in leases : l.applied \notin Suppressed(c) /\ l.previous \notin Suppressed(c)
  BY <1>0 DEF KeepsFloor
<1>3. ComponentMode(o, i, c) =
         IF leases = {} THEN o.modes[c]
         ELSE IF live # {}
              THEN (CHOOSE l \in live : \A m \in live : Newer(l, m)).applied
              ELSE (CHOOSE l \in leases : \A m \in leases : Newer(m, l)).previous
  BY Zenon DEF ComponentMode, Leased
<1> HIDE DEF leases, live
<1>4. CASE leases = {}
  BY <1>0, <1>2, <1>3, <1>4 DEF o
<1>5. CASE leases # {} /\ live # {}
  <2> DEFINE l == CHOOSE l \in live : \A m \in live : Newer(l, m)
  <2>1. l \in live
    BY <1>1, <1>5, LeaseFact
  <2>2. ComponentMode(o, i, c) = l.applied
    BY <1>3, <1>5
  <2> HIDE DEF l
  <2> QED BY <1>1, <1>2, <2>1, <2>2 DEF o
<1>6. CASE leases # {} /\ live = {}
  <2> DEFINE l == CHOOSE l \in leases : \A m \in leases : Newer(m, l)
  <2>1. l \in leases
    BY <1>1, <1>6, LeaseFact
  <2>2. ComponentMode(o, i, c) = l.previous
    BY <1>3, <1>6
  <2> HIDE DEF l
  <2> QED BY <1>2, <2>1, <2>2 DEF o
<1> QED BY <1>4, <1>5, <1>6

(* Every stage stays permitted under an overlay that keeps the floor. *)
LEMMA FloorFromInd == FloorInd => FloorHolds
<1> SUFFICES ASSUME FloorInd, NEW s \in Stages
             PROVE  StagePermitted(overlay, index, lc.startup, s)
  BY DEF FloorHolds
<1>1. CASE overlay = NoOverlay
  BY <1>1 DEF StagePermitted
<1>2. CASE OwnerOf[s] = HardFloor
  BY <1>2 DEF StagePermitted
<1>3. CASE overlay # NoOverlay /\ OwnerOf[s] # HardFloor
  <2>1. projection \in Projections /\ overlay = Overlay(projection) /\ KeepsFloor(overlay)
    BY <1>3, OverlayOfNone DEF FloorInd, OverlayInd, Guarded
  <2>2. KeepsFloor(projection)
    BY <2>1 DEF KeepsFloor, Overlay
  <2>3. OwnerOf[s] \in Components /\ Suppressed(OwnerOf[s]) = {"off", "passive"}
    BY <1>3, LifecycleAssumption DEF Suppressed
  <2>4. ComponentMode(overlay, index, OwnerOf[s]) \notin {"off", "passive"}
    BY <2>1, <2>2, <2>3, ModeFact
  <2> QED BY <2>4 DEF StagePermitted
<1> QED BY <1>1, <1>2, <1>3

(* Overlays come from projections that were checked, or from a rollback record. *)
LEMMA FloorStep == FloorInd /\ [Next]_vars => FloorInd'
<1> SUFFICES ASSUME FloorInd, [Next]_vars
             PROVE  Guarded(overlay)' /\ Guarded(transition.previous)'
  BY OverlayStep DEF FloorInd
<1> DEFINE Held == Guarded(overlay)' /\ Guarded(transition.previous)'
<1>0. Guarded(overlay) /\ Guarded(transition.previous)
  BY DEF FloorInd
<1>1. ASSUME UNCHANGED <<overlay, transition>> PROVE Held
  BY <1>0, <1>1 DEF Guarded, KeepsFloor, Suppressed
<1>2. ASSUME overlay' = NoOverlay, transition' = NoTransition PROVE Held
  BY <1>2 DEF Guarded, NoTransition
<1>3. ASSUME NEW p, Materialize(p) PROVE Held
  <2>1. overlay' = Overlay(p) /\ transition'.previous = overlay /\ KeepsFloor(p)
    BY <1>3 DEF Materialize, Show
  <2>2. KeepsFloor(Overlay(p))
    BY <2>1 DEF KeepsFloor, Overlay
  <2> QED BY <1>0, <2>1, <2>2 DEF Guarded
<1>4. ASSUME NEW p, NEW e, Rollback(p, e) PROVE Held
  <2>1. CASE Materialize(p)
    BY <1>3, <2>1
  <2>2. CASE Show(transition.state, transition.previous, index) /\ transition' = NoTransition
    BY <1>0, <2>2 DEF Show, Guarded, NoTransition
  <2> QED BY <1>4, <2>1, <2>2 DEF Rollback
<1>5. ASSUME NEW l, Session(l) PROVE Held
  BY <1>1, <1>5 DEF Session, Show, adapter
<1>6. CASE \/ BindAuthority \/ \E ds \in Batches : PrepareBatch(ds)
           \/ \E i \in 1..MaxIndex : ExpireLeases(i)
           \/ CompleteAction \/ CompleteSegment \/ AdvanceSegment \/ UNCHANGED vars
  BY <1>1, <1>6 DEF BindAuthority, PrepareBatch, ExpireLeases, CompleteAction, CompleteSegment,
                    AdvanceSegment, vars, adapter, Show
<1>7. CASE Restart
  BY <1>2, <1>7 DEF Restart, Fresh
<1>8. CASE \E p \in Projections : ApplyProjection(p) \/ SynchronizeProjection(p)
  BY <1>3, <1>8 DEF ApplyProjection, SynchronizeProjection
<1>9. CASE RollbackBatch
  BY <1>2, <1>4, <1>9 DEF RollbackBatch, RestoreStartup, Show
<1>10. CASE \E p \in Projections, e \in -1..2 : RestoreProjection(p, e)
  BY <1>4, <1>10 DEF RestoreProjection
<1>11. CASE \/ BeforeModelCall \/ \E risky \in BOOLEAN : BeforeToolPlanning(risky)
            \/ \E risky, allowed \in BOOLEAN : OnAction(risky, allowed)
  BY <1>5, <1>11 DEF BeforeModelCall, BeforeToolPlanning, OnAction
<1>12. CASE \/ \E flow, durable, changed \in BOOLEAN : OnArtifact(flow, durable, changed)
            \/ ArtifactProcessed \/ RenderFinal
  BY <1>5, <1>12 DEF OnArtifact, ArtifactProcessed, RenderFinal
<1> QED BY <1>6, <1>7, <1>8, <1>9, <1>10, <1>11, <1>12 DEF Next

(* No projection, lease, expiry or rollback switches off a stage of a component whose
   baseline is normal or mandatory, whatever the authority offers
   (_validate_task_behavior_floor, ComponentOverlay.effective_target_value,
   rollback_external_behavior_projection). *)
THEOREM FloorIsKept == Spec => []FloorHolds
<1>1. Init => FloorInd
  BY OverlayStart DEF Init, FloorInd, Guarded, NoTransition
<1> QED BY <1>1, FloorStep, FloorFromInd, PTL DEF Spec

-----------------------------------------------------------------------------
(* What the constants of the kernel give. *)
LEMMA KernelFacts ==
    /\ None \notin Stages /\ TaskStart \subseteq Stages
    /\ \A s \in Stages : Requires[s] # None => Requires[s] \in Stages
    /\ \A s \in Stages : Frequency[s] \in {"per_task", "per_action", "per_artifact",
                                           "per_edit", "per_response"}
BY LifecycleAssumption

(* What a stage needs: itself, what any of these requires, and nothing else; the stages
   needed are one chain. *)
LEMMA NeedsFacts ==
    /\ \A s \in Stages : Needs[s] \subseteq Stages /\ s \in Needs[s]
    /\ \A s \in Stages : \A x \in Needs[s] : Requires[x] # None => Requires[x] \in Needs[s]
    /\ \A s \in Stages : \A x \in Needs[s] : \A y \in Needs[x] :
          y = x \/ (Requires[x] # None /\ y \in Needs[Requires[x]])
    /\ \A s \in Stages : \A x, y \in Needs[s] : x \in Needs[y] \/ y \in Needs[x]
<1>1. \A s \in Stages : \A r : r \in Needs[s] <=>
         r \in Stages /\ \A S \in SUBSET Stages : s \in S /\ Closed(S) => r \in S
  BY DEF Needs
<1>2. ASSUME NEW s \in Stages, NEW S \in SUBSET Stages, s \in S, Closed(S)
      PROVE  Needs[s] \subseteq S
  BY <1>1, <1>2
<1>3. ASSUME NEW s \in Stages
      PROVE  Needs[s] \subseteq Stages /\ s \in Needs[s]
  BY <1>1
<1>4. ASSUME NEW s \in Stages, NEW x \in Needs[s], Requires[x] # None
      PROVE  Requires[x] \in Needs[s]
  <2>1. x \in Stages /\ Requires[x] \in Stages
    BY <1>3, <1>4, KernelFacts
  <2>2. ASSUME NEW S \in SUBSET Stages, s \in S, Closed(S)
        PROVE  Requires[x] \in S
    <3>1. x \in S
      BY <1>2, <2>2
    <3> QED BY <1>4, <2>2, <3>1 DEF Closed
  <2> QED BY <1>1, <2>1, <2>2
<1>5. ASSUME NEW x \in Stages, NEW y \in Needs[x], y # x
      PROVE  Requires[x] # None /\ y \in Needs[Requires[x]]
  <2>1. CASE Requires[x] = None
    <3>1. Closed({x})
      BY <2>1 DEF Closed
    <3> QED BY <1>2, <1>5, <3>1
  <2>2. CASE Requires[x] # None
    <3> DEFINE S == {x} \cup Needs[Requires[x]]
    <3>1. Requires[x] \in Stages
      BY <2>2, KernelFacts
    <3>2. S \in SUBSET Stages /\ x \in S
      BY <1>3, <3>1
    <3>3. Closed(S)
      <4>1. ASSUME NEW z \in S PROVE Requires[z] \in S \cup {None}
        BY <1>3, <1>4, <3>1
      <4> HIDE DEF S
      <4> QED BY <4>1 DEF Closed
    <3>4. y \in S
      <4> HIDE DEF S
      <4> QED BY <1>2, <3>2, <3>3
    <3> QED BY <1>5, <2>2, <3>4
  <2> QED BY <2>1, <2>2
<1>6. ASSUME NEW s \in Stages, NEW y \in Needs[s], NEW x \in Needs[s]
      PROVE  x \in Needs[y] \/ y \in Needs[x]
  <2> DEFINE S == {z \in Stages : z \in Needs[y] \/ y \in Needs[z]}
  <2>1. y \in Stages /\ x \in Stages
    BY <1>3
  <2>2. s \in S /\ S \in SUBSET Stages
    OBVIOUS
  <2>3. ASSUME NEW z \in S, Requires[z] # None PROVE Requires[z] \in S
    <3>1. z \in Stages /\ Requires[z] \in Stages
      BY <2>3, KernelFacts
    <3>2. z \in Needs[y] => Requires[z] \in Needs[y]
      BY <1>4, <2>1, <2>3
    <3>3. y \in Needs[z] => y = z \/ y \in Needs[Requires[z]]
      BY <1>5, <3>1
    <3>4. y = z => Requires[z] \in Needs[y]
      BY <1>3, <1>4, <2>1, <2>3
    <3> QED BY <3>1, <3>2, <3>3, <3>4
  <2> HIDE DEF S
  <2>4. Closed(S)
    BY <2>3 DEF Closed
  <2>5. x \in S
    BY <1>2, <2>2, <2>4
  <2> QED BY <2>5 DEF S
<1> QED BY <1>3, <1>4, <1>5, <1>6

(* A lifecycle in which stages stand where their frequency says, and per_task stages
   have run exactly if they are active. *)
Sorted(l) ==
    /\ l \in Lifecycle
    /\ l.task = l.counted /\ l.segment \subseteq l.task
    /\ \A s \in l.task : Frequency[s] = "per_task"
    /\ \A s \in l.action : Frequency[s] = "per_action"
    /\ \A s \in l.artifact : Frequency[s] \in {"per_artifact", "per_edit"}
    /\ \A s \in l.response : Frequency[s] = "per_response"

(* And what a stage in use requires is in use. *)
Good(l) ==
    /\ Sorted(l)
    /\ \A s \in InUse(l) : Requires[s] # None => Requires[s] \in InUse(l)

AllPermitted(o, i, begun) == \A s \in Stages : StagePermitted(o, i, begun, s)

(* Every stage in use stands in the set of its frequency. *)
LEMMA UsedFact ==
    ASSUME NEW l, Sorted(l)
    PROVE  /\ InUse(l) \subseteq Stages
           /\ \A s \in InUse(l) :
                 /\ Frequency[s] = "per_task" <=> s \in l.task
                 /\ Frequency[s] = "per_action" <=> s \in l.action
                 /\ Frequency[s] \in {"per_artifact", "per_edit"} <=> s \in l.artifact
                 /\ Frequency[s] = "per_response" <=> s \in l.response
BY DEF Sorted, InUse, Lifecycle

(* Where nothing is prevented, what is pulled in and not active yet pulls in what it
   requires. *)
LEMMA PulledFact ==
    ASSUME NEW l, InUse(l) \subseteq Stages, NEW o, NEW i, AllPermitted(o, i, l.startup), NEW s \in Stages
    PROVE  /\ Pulled(l, o, i, s) \subseteq Stages /\ s \in Pulled(l, o, i, s)
           /\ \A x \in Pulled(l, o, i, s) :
                 Requires[x] # None => Requires[x] \in InUse(l) \cup Pulled(l, o, i, s)
<1> DEFINE permitted(r) == r = None \/ StagePermitted(o, i, l.startup, r)
           already == Active(l, o, i)
           P == Pulled(l, o, i, s)
<1>1. already = InUse(l)
  BY DEF Active, AllPermitted
<1>2. \A x \in Stages : permitted(x) /\ permitted(Requires[x])
  BY KernelFacts DEF AllPermitted
<1>3. \A r : r \in P <=>
         r \in Needs[s] /\ \A x \in Needs[s] : r \in Needs[x] => permitted(x) /\ permitted(Requires[x])
                                                        /\ (x = s \/ x \notin already)
  BY DEF Pulled
<1>4. Needs[s] \subseteq Stages /\ s \in Needs[s]
  BY NeedsFacts
<1> HIDE DEF permitted, already, P
<1>5. \A r : r \in P <=>
         r \in Needs[s] /\ \A x \in Needs[s] : r \in Needs[x] => x = s \/ x \notin InUse(l)
  BY <1>1, <1>2, <1>3, <1>4
<1>6. s \in P
  <2>1. \A x \in Needs[s] : s \in Needs[x] => x = s
    BY <1>4, PipelineAssumption
  <2> QED BY <1>4, <1>5, <2>1
<1>7. ASSUME NEW x \in P, Requires[x] # None, Requires[x] \notin InUse(l)
      PROVE  Requires[x] \in P
  <2> DEFINE r == Requires[x]
  <2>1. x \in Needs[s] /\ x \in Stages /\ r \in Stages /\ r \in Needs[s]
    BY <1>4, <1>5, <1>7, KernelFacts, NeedsFacts
  <2>2. ASSUME NEW y \in Needs[s], r \in Needs[y], y # r PROVE x \in Needs[y]
    <3>1. x \in Needs[y] \/ y \in Needs[x]
      BY <2>1, NeedsFacts
    <3>2. y \in Needs[x] => y = x \/ y \in Needs[r]
      BY <2>1, NeedsFacts
    <3>3. y \in Stages /\ y \in Needs[y]
      BY <1>4, NeedsFacts
    <3>4. y \notin Needs[r]
      BY <2>1, <2>2, <3>3, PipelineAssumption
    <3> QED BY <3>1, <3>2, <3>3, <3>4
  <2>3. \A y \in Needs[s] : r \in Needs[y] => y = s \/ y \notin InUse(l)
    BY <1>5, <1>7, <2>2
  <2> QED BY <1>5, <2>1, <2>3
<1> QED BY <1>4, <1>5, <1>6, <1>7 DEF P

(* Activating stages keeps a lifecycle good, and makes it so when all that is missing in
   it are stages that are activated. *)
LEMMA ActivateFact ==
    ASSUME NEW l, Sorted(l), NEW o, NEW i, AllPermitted(o, i, l.startup), NEW S,
           \A s \in InUse(l) : Requires[s] # None => Requires[s] \in InUse(l) \cup (S \cap Stages)
    PROVE  Good(ActivateAll(l, o, i, S)) /\ ActivateAll(l, o, i, S).startup = l.startup
<1> DEFINE P(s) == Pulled(l, o, i, s)
           F == UNION {P(s) : s \in S \cap Stages}
           of(frequencies) == {s \in F : Frequency[s] \in frequencies}
           m == [l EXCEPT !.task = @ \cup (of({"per_task"}) \ l.counted),
                          !.counted = @ \cup of({"per_task"}),
                          !.action = @ \cup of({"per_action"}),
                          !.artifact = @ \cup of({"per_artifact", "per_edit"}),
                          !.response = @ \cup of({"per_response"})]
<1>1. ActivateAll(l, o, i, S) = m
  BY DEF ActivateAll, Added
<1>2. InUse(l) \subseteq Stages
  BY UsedFact
<1>3. /\ \A s \in Stages : P(s) \subseteq Stages /\ s \in P(s)
      /\ \A s \in Stages : \A x \in P(s) :
            Requires[x] # None => Requires[x] \in InUse(l) \cup P(s)
  BY <1>2, PulledFact
<1> HIDE DEF P
<1>4. F \subseteq Stages /\ S \cap Stages \subseteq F
  BY <1>3
<1>5. \A x \in F : Requires[x] # None => Requires[x] \in InUse(l) \cup F
  BY <1>3
<1> HIDE DEF F
<1>6. l \in Lifecycle
  BY DEF Sorted
<1>7. /\ m \in Lifecycle /\ m.startup = l.startup
      /\ m.task = l.task \cup (of({"per_task"}) \ l.counted)
      /\ m.counted = l.counted \cup of({"per_task"}) /\ m.segment = l.segment
      /\ m.action = l.action \cup of({"per_action"})
      /\ m.artifact = l.artifact \cup of({"per_artifact", "per_edit"})
      /\ m.response = l.response \cup of({"per_response"})
  <2>1. \A f : of(f) \subseteq Stages
    BY <1>4
  <2> HIDE DEF of
  <2> QED BY <1>6, <2>1 DEF Lifecycle
<1>8. \A s \in F : Frequency[s] \in {"per_task", "per_action", "per_artifact", "per_edit",
                                     "per_response"}
  BY <1>4, KernelFacts
<1> HIDE DEF m
<1>9. \A f : \A s : s \in of(f) <=> s \in F /\ Frequency[s] \in f
  OBVIOUS
<1> HIDE DEF of
<1>10. Sorted(m)
  BY <1>7, <1>9 DEF Sorted
<1>11. InUse(m) = InUse(l) \cup F
  <2>1. \A s : s \in m.task <=> s \in l.task \/ s \in of({"per_task"})
    BY <1>7 DEF Sorted
  <2>2. \A s : s \in InUse(m) <=> s \in InUse(l) \/ s \in F
    BY <1>7, <1>8, <1>9, <2>1 DEF InUse
  <2> QED BY <2>2
<1>12. \A s \in InUse(m) : Requires[s] # None => Requires[s] \in InUse(m)
  BY <1>4, <1>5, <1>11
<1> QED BY <1>1, <1>7, <1>10, <1>12 DEF Good

(* What a boundary of the session ends: nothing that lasts longer requires it. *)
LEMMA LifetimeFact ==
    \A s \in Stages : Requires[s] # None =>
       Frequency[Requires[s]] = "per_task" \/ Frequency[Requires[s]] = Frequency[s]
BY PipelineAssumption

(* A lifecycle in which all stages of some frequencies have ended is good. *)
LEMMA EndedFact ==
    ASSUME NEW l, Good(l), NEW m, Sorted(m), NEW F, "per_task" \notin F,
           \A s : s \in InUse(m) <=> s \in InUse(l) /\ Frequency[s] \notin F
    PROVE  Good(m)
<1>1. ASSUME NEW s \in InUse(m), Requires[s] # None PROVE Requires[s] \in InUse(m)
  <2>1. s \in Stages /\ Frequency[s] \notin F /\ Requires[s] \in InUse(l)
    BY <1>1, UsedFact DEF Good
  <2>2. Frequency[Requires[s]] \notin F
    BY <1>1, <2>1, LifetimeFact
  <2> QED BY <2>1, <2>2
<1> QED BY <1>1 DEF Good

LEMMA ClearAction ==
    ASSUME NEW l, Good(l)
    PROVE  Good([l EXCEPT !.action = {}]) /\ [l EXCEPT !.action = {}].startup = l.startup
<1> DEFINE m == [l EXCEPT !.action = {}]
<1>1. Sorted(l) /\ l \in Lifecycle
  BY DEF Good, Sorted
<1>2. /\ m \in Lifecycle /\ m.startup = l.startup /\ m.task = l.task /\ m.counted = l.counted
      /\ m.segment = l.segment /\ m.action = {} /\ m.artifact = l.artifact
      /\ m.response = l.response
  BY <1>1 DEF Lifecycle
<1> HIDE DEF m
<1>3. Sorted(m)
  BY <1>1, <1>2 DEF Sorted
<1>4. \A s : s \in InUse(m) <=> s \in InUse(l) /\ Frequency[s] \notin {"per_action"}
  BY <1>1, <1>2, <1>3 DEF InUse, Sorted
<1> QED BY <1>2, <1>3, <1>4, EndedFact DEF m

LEMMA ClearArtifact ==
    ASSUME NEW l, Good(l)
    PROVE  Good([l EXCEPT !.artifact = {}]) /\ [l EXCEPT !.artifact = {}].startup = l.startup
<1> DEFINE m == [l EXCEPT !.artifact = {}]
<1>1. Sorted(l) /\ l \in Lifecycle
  BY DEF Good, Sorted
<1>2. /\ m \in Lifecycle /\ m.startup = l.startup /\ m.task = l.task /\ m.counted = l.counted
      /\ m.segment = l.segment /\ m.action = l.action /\ m.artifact = {}
      /\ m.response = l.response
  BY <1>1 DEF Lifecycle
<1> HIDE DEF m
<1>3. Sorted(m)
  BY <1>1, <1>2 DEF Sorted
<1>4. \A s : s \in InUse(m) <=> s \in InUse(l) /\ Frequency[s] \notin {"per_artifact", "per_edit"}
  BY <1>1, <1>2, <1>3 DEF InUse, Sorted
<1> QED BY <1>2, <1>3, <1>4, EndedFact DEF m

LEMMA ClearResponse ==
    ASSUME NEW l, Good(l)
    PROVE  Good([l EXCEPT !.response = {}]) /\ [l EXCEPT !.response = {}].startup = l.startup
<1> DEFINE m == [l EXCEPT !.response = {}]
<1>1. Sorted(l) /\ l \in Lifecycle
  BY DEF Good, Sorted
<1>2. /\ m \in Lifecycle /\ m.startup = l.startup /\ m.task = l.task /\ m.counted = l.counted
      /\ m.segment = l.segment /\ m.action = l.action /\ m.artifact = l.artifact
      /\ m.response = {}
  BY <1>1 DEF Lifecycle
<1> HIDE DEF m
<1>3. Sorted(m)
  BY <1>1, <1>2 DEF Sorted
<1>4. \A s : s \in InUse(m) <=> s \in InUse(l) /\ Frequency[s] \notin {"per_response"}
  BY <1>1, <1>2, <1>3 DEF InUse, Sorted
<1> QED BY <1>2, <1>3, <1>4, EndedFact DEF m

LEMMA SegmentFact ==
    ASSUME NEW l, Good(l)
    PROVE  Good(ForSegment(l)) /\ ForSegment(l).startup = l.startup
<1> DEFINE m == ForSegment(l)
           kept == {s \in l.task : Frequency[s] = "per_task"}
<1>1. Sorted(l) /\ l \in Lifecycle /\ kept = l.task
  BY DEF Good, Sorted
<1>2. /\ m \in Lifecycle /\ m.startup = l.startup /\ m.task = l.task /\ m.counted = l.counted
      /\ m.segment = l.task /\ m.action = {} /\ m.artifact = {} /\ m.response = {}
  <2>1. m = [l EXCEPT !.segment = kept, !.action = {}, !.artifact = {}, !.response = {}]
    BY DEF ForSegment
  <2> HIDE DEF kept, m
  <2> QED BY <1>1, <2>1 DEF Lifecycle
<1> HIDE DEF m
<1>3. Sorted(m)
  BY <1>1, <1>2 DEF Sorted
<1>4. \A s : s \in InUse(m) <=>
         s \in InUse(l) /\ Frequency[s] \notin {"per_action", "per_artifact", "per_edit", "per_response"}
  BY <1>1, <1>2 DEF InUse, Sorted
<1> QED BY <1>2, <1>3, <1>4, EndedFact DEF m

(* What a reset takes away and something outside requires is the first stage, which runs
   again. *)
LEMMA ResetFact ==
    ASSUME NEW l, Good(l), NEW o, NEW i, AllPermitted(o, i, l.startup), NEW C \in SUBSET Resettable
    PROVE  Good(Reset(l, o, i, C)) /\ Reset(l, o, i, C).startup = l.startup
<1> DEFINE own == {s \in Stages : OwnerOf[s] \in C}
           m == [l EXCEPT !.task = @ \ own, !.segment = @ \ own, !.action = @ \ own,
                          !.artifact = @ \ own, !.response = @ \ own, !.counted = @ \ own]
           S == {FirstStage(c) : c \in C}
<1>1. Sorted(l) /\ l \in Lifecycle /\ InUse(l) \subseteq Stages
  BY UsedFact DEF Good, Sorted
<1>2. Reset(l, o, i, C) = ActivateAll(m, o, i, S)
  BY DEF Reset
<1>3. \A s \in Stages : s \in own <=> OwnerOf[s] \in C
  OBVIOUS
<1>4. \A c \in C : FirstStage(c) \in S
  OBVIOUS
<1> HIDE DEF own, S
<1>5. /\ m \in Lifecycle /\ m.startup = l.startup /\ m.task = l.task \ own
      /\ m.counted = l.counted \ own /\ m.segment = l.segment \ own /\ m.action = l.action \ own
      /\ m.artifact = l.artifact \ own /\ m.response = l.response \ own
  BY <1>1 DEF Lifecycle
<1> HIDE DEF m
<1>6. Sorted(m)
  BY <1>1, <1>5 DEF Sorted
<1>7. \A s : s \in InUse(m) <=> s \in InUse(l) /\ s \notin own
  BY <1>5 DEF InUse
<1>8. ASSUME NEW s \in InUse(m), Requires[s] # None
      PROVE  Requires[s] \in InUse(m) \cup (S \cap Stages)
  <2> DEFINE r == Requires[s]
  <2>1. s \in Stages /\ s \notin own /\ r \in InUse(l) /\ r \in Stages
    BY <1>1, <1>7, <1>8 DEF Good
  <2>2. CASE r \notin own
    BY <1>7, <2>1, <2>2
  <2>3. CASE r \in own
    <3>1. OwnerOf[r] \in C /\ OwnerOf[s] \notin C
      BY <1>3, <2>1, <2>3
    <3>2. OwnerOf[r] \in Resettable \ {OwnerOf[s]}
      BY <3>1
    <3>3. r = FirstStage(OwnerOf[r])
      BY <1>8, <2>1, <3>2, PipelineAssumption
    <3> QED BY <1>4, <2>1, <3>1, <3>3
  <2> QED BY <2>2, <2>3
<1>9. AllPermitted(o, i, m.startup)
  BY <1>5
<1> QED BY <1>2, <1>5, <1>6, <1>8, <1>9, ActivateFact

LEMMA GoodActivated ==
    ASSUME NEW l, Good(l), NEW o, NEW i, AllPermitted(o, i, l.startup), NEW S
    PROVE  Good(ActivateAll(l, o, i, S)) /\ ActivateAll(l, o, i, S).startup = l.startup
BY ActivateFact DEF Good

(* An overlay that keeps the floor prevents no stage, whatever was active at startup. *)
LEMMA PermittedFact ==
    ASSUME NEW p \in Projections \cup {NoProjection}, Guarded(Overlay(p)), NEW i, NEW begun
    PROVE  AllPermitted(Overlay(p), i, begun)
<1> SUFFICES ASSUME NEW s \in Stages PROVE StagePermitted(Overlay(p), i, begun, s)
  BY DEF AllPermitted
<1>1. CASE Overlay(p) = NoOverlay
  BY <1>1 DEF StagePermitted
<1>2. CASE OwnerOf[s] = HardFloor
  BY <1>2 DEF StagePermitted
<1>3. CASE Overlay(p) # NoOverlay /\ OwnerOf[s] # HardFloor
  <2>1. p \in Projections /\ KeepsFloor(Overlay(p))
    BY <1>3, OverlayOfNone DEF Guarded
  <2>2. KeepsFloor(p)
    BY <2>1 DEF KeepsFloor, Overlay
  <2>3. OwnerOf[s] \in Components /\ Suppressed(OwnerOf[s]) = {"off", "passive"}
    BY <1>3, LifecycleAssumption DEF Suppressed
  <2>4. ComponentMode(Overlay(p), i, OwnerOf[s]) \notin {"off", "passive"}
    BY <2>1, <2>2, <2>3, ModeFact
  <2> QED BY <2>4 DEF StagePermitted
<1> QED BY <1>1, <1>2, <1>3

(* Under the overlay in force everything is permitted. *)
LEMMA InForceFact ==
    ASSUME FloorInd, NEW i, NEW begun
    PROVE  AllPermitted(overlay, i, begun)
BY PermittedFact DEF FloorInd, OverlayInd

(* The inductive invariant of the overlays: floor and types hold, and the lifecycle, the
   one captured at the start and the one a rollback returns to are good. *)
LifecycleInd ==
    /\ FloorInd /\ TypeOK
    /\ Good(lc) /\ Good(startup.state) /\ Good(transition.state)

LEMMA IdleGood == Good(Idle)
BY DEF Good, Sorted, Idle, Lifecycle, InUse

LEMMA StartedGood == Good(Started)
<1>1. AllPermitted(NoOverlay, 0, Idle.startup)
  BY DEF AllPermitted, StagePermitted
<1> QED BY <1>1, IdleGood, GoodActivated DEF Started, OnTaskStart

LEMMA ActiveTyped ==
    ASSUME NEW l, Good(l), NEW o, NEW i
    PROVE  Active(l, o, i) \subseteq Stages /\ InUse(l) \subseteq Stages /\ l \in Lifecycle
BY UsedFact DEF Active, Good, Sorted

(* A boundary of the session that leaves a good lifecycle. *)
LEMMA SessionKeeps ==
    ASSUME LifecycleInd, NEW l, Good(l), Session(l)
    PROVE  TypeOK' /\ Good(lc') /\ Good(startup'.state) /\ Good(transition'.state)
<1>1. /\ lc' = l /\ overlay' = overlay /\ index' = index /\ active' = Active(l, overlay, index)
      /\ UNCHANGED <<projection, bound, startup, transition, batch, segment, status>>
  BY DEF Session, Show, adapter, plan
<1>2. active' \subseteq Stages /\ lc' \in Lifecycle
  BY <1>1, ActiveTyped
<1>3. TypeOK'
  BY <1>1, <1>2 DEF LifecycleInd, TypeOK
<1> QED BY <1>1, <1>3 DEF LifecycleInd

LEMMA MaterializeKeeps ==
    ASSUME LifecycleInd, NEW p \in Projections, Materialize(p),
           batch'.prior \in Projections \cup {NoProjection},
           UNCHANGED <<bound, startup, segment, status>>
    PROVE  TypeOK' /\ Good(lc') /\ Good(startup'.state) /\ Good(transition'.state)
<1> DEFINE i == Larger(index, p.index)
           o == Overlay(p)
           l == [lc EXCEPT !.startup = startup.active]
           C == {c \in Components : /\ o.modes[c] \in Transient
                                    /\ overlay = NoOverlay \/ overlay.modes[c] \notin Transient}
<1>1. /\ lc' = Reset(l, o, i, C) /\ overlay' = o /\ index' = i /\ i <= MaxIndex
      /\ active' = Active(lc', o, i) /\ projection' = p /\ transition'.state = lc
      /\ WellFormed(p) /\ KeepsFloor(p)
  BY DEF Materialize, Show, Applied
<1>2. lc \in Lifecycle /\ startup.active \subseteq Stages
  BY DEF LifecycleInd, TypeOK
<1>3. Good(l)
  <2>1. /\ l \in Lifecycle /\ l.task = lc.task /\ l.counted = lc.counted
        /\ l.segment = lc.segment /\ l.action = lc.action /\ l.artifact = lc.artifact
        /\ l.response = lc.response
    BY <1>2 DEF Lifecycle
  <2> HIDE DEF l
  <2>2. InUse(l) = InUse(lc)
    BY <2>1 DEF InUse
  <2> QED BY <2>1, <2>2 DEF Good, Sorted, LifecycleInd
<1>4. AllPermitted(o, i, l.startup)
  <2>1. Guarded(o)
    BY <1>1 DEF Guarded, KeepsFloor, Overlay
  <2> QED BY <2>1, PermittedFact
<1>5. C \in SUBSET Resettable
  <2>1. \A c \in Components : o.modes[c] \in AllowedModes[c]
    BY <1>1 DEF WellFormed, Overlay
  <2> QED BY <2>1 DEF Resettable
<1> HIDE DEF C, l
<1>6. Good(lc')
  BY <1>1, <1>3, <1>4, <1>5, ResetFact
<1>7. i \in 0..MaxIndex
  <2>1. index \in Nat /\ p.index \in Nat /\ MaxIndex \in Nat
    BY LifecycleAssumption DEF LifecycleInd, FloorInd, OverlayInd
  <2> QED BY <1>1, <2>1 DEF Larger
<1>8. active' \subseteq Stages /\ lc' \in Lifecycle
  BY <1>1, <1>6, ActiveTyped
<1>9. TypeOK'
  BY <1>1, <1>2, <1>7, <1>8 DEF LifecycleInd, TypeOK
<1> QED BY <1>1, <1>6, <1>9 DEF LifecycleInd

LEMMA RollbackKeeps ==
    ASSUME LifecycleInd, NEW p \in Projections, NEW e, Rollback(p, e),
           batch'.prior \in Projections \cup {NoProjection},
           UNCHANGED <<bound, startup, segment, status>>
    PROVE  TypeOK' /\ Good(lc') /\ Good(startup'.state) /\ Good(transition'.state)
<1>1. CASE Materialize(p)
  BY <1>1, MaterializeKeeps
<1>2. CASE /\ transition.previous = Overlay(p) /\ Show(transition.state, transition.previous, index)
           /\ projection' = p /\ transition' = NoTransition
  <2>1. lc' = transition.state /\ Good(lc') /\ transition'.state = Idle /\ overlay' = Overlay(p)
        /\ index' = index /\ active' = Active(lc', overlay', index)
    BY <1>2 DEF Show, LifecycleInd, NoTransition
  <2>2. active' \subseteq Stages /\ lc' \in Lifecycle /\ Idle \in Lifecycle
    BY <2>1, ActiveTyped, IdleGood
  <2>3. TypeOK'
    BY <1>2, <2>1, <2>2 DEF LifecycleInd, TypeOK
  <2> QED BY <2>1, <2>3, IdleGood DEF LifecycleInd
<1> QED BY <1>1, <1>2 DEF Rollback

(* Every action keeps the lifecycles good. *)
LEMMA LifecycleStep == LifecycleInd /\ [Next]_vars => LifecycleInd'
<1> SUFFICES ASSUME LifecycleInd, [Next]_vars
             PROVE  TypeOK' /\ Good(lc') /\ Good(startup'.state) /\ Good(transition'.state)
  BY FloorStep DEF LifecycleInd, Good, Sorted, Lifecycle, InUse
<1> DEFINE Held == TypeOK' /\ Good(lc') /\ Good(startup'.state) /\ Good(transition'.state)
<1>0. /\ TypeOK /\ Good(lc) /\ Good(startup.state) /\ Good(transition.state)
      /\ lc \in Lifecycle /\ index \in Nat /\ MaxIndex \in Nat /\ Segments \in Nat
      /\ batch.prior \in Projections \cup {NoProjection}
      /\ \A i : \A begun : AllPermitted(overlay, i, begun)
  BY InForceFact, LifecycleAssumption DEF LifecycleInd, FloorInd, OverlayInd, TypeOK
<1>1. CASE BindAuthority
  <2>1. startup'.state = lc /\ startup' \in [active : SUBSET Stages, state : Lifecycle]
        /\ bound' = TRUE
    BY <1>0, <1>1 DEF BindAuthority, TypeOK
  <2>2. UNCHANGED <<lc, index, overlay, projection, active, transition, batch, segment, status>>
    BY <1>1 DEF BindAuthority, plan
  <2>3. TypeOK'
    BY <1>0, <2>1, <2>2 DEF TypeOK
  <2> QED BY <1>0, <2>1, <2>2, <2>3
<1>2. CASE Restart
  <2>1. /\ lc' = Started /\ active' = InUse(Started) /\ index' = 0 /\ overlay' = NoOverlay
        /\ projection' = NoProjection /\ startup' = [active |-> {}, state |-> Idle]
        /\ transition' = NoTransition /\ batch' = NoBatch /\ bound' = FALSE
        /\ segment' = segment /\ status' \in {"ACTIVE", "BLOCKED", "COMPLETED"}
    BY <1>0, <1>2 DEF Restart, Fresh, TypeOK
  <2>2. /\ Started \in Lifecycle /\ InUse(Started) \subseteq Stages /\ Idle \in Lifecycle
    BY StartedGood, IdleGood, ActiveTyped
  <2>3. /\ transition'.state = Idle /\ batch'.prior = NoProjection
    BY <2>1 DEF NoTransition, NoBatch
  <2>4. startup' \in [active : SUBSET Stages, state : Lifecycle] /\ startup'.state = Idle
    BY <2>1, <2>2
  <2>5. index' \in 0..MaxIndex /\ segment' \in 0..(Segments - 1)
    BY <1>0, <2>1 DEF TypeOK
  <2>6. TypeOK'
    BY <2>1, <2>2, <2>3, <2>4, <2>5 DEF TypeOK
  <2> QED BY <2>1, <2>3, <2>4, <2>6, StartedGood, IdleGood
<1>3. ASSUME NEW ds \in Batches, PrepareBatch(ds) PROVE Held
  <2>1. batch'.prior = projection
        /\ UNCHANGED <<bound, lc, index, overlay, projection, active, startup, transition,
                       segment, status>>
    BY <1>3 DEF PrepareBatch, plan
  <2>2. TypeOK'
    BY <1>0, <2>1 DEF TypeOK
  <2> QED BY <1>0, <2>1, <2>2
<1>4. ASSUME NEW p \in Projections, ApplyProjection(p) \/ SynchronizeProjection(p) PROVE Held
  <2>1. Materialize(p) /\ UNCHANGED <<bound, startup, segment, status>> /\ batch' = batch
    BY <1>4 DEF ApplyProjection, SynchronizeProjection, plan
  <2> QED BY <1>0, <2>1, MaterializeKeeps
<1>5. CASE RollbackBatch
  <2>1. /\ batch'.prior = NoProjection /\ UNCHANGED <<bound, startup, segment, status>>
        /\ batch' = NoBatch
    BY <1>5 DEF RollbackBatch, plan, NoBatch
  <2>2. CASE RestoreStartup
    <3>1. /\ lc' = startup.state /\ overlay' = NoOverlay /\ index' = index
          /\ active' = Active(lc', NoOverlay, index) /\ projection' = NoProjection
          /\ transition'.state = Idle /\ Good(lc')
      BY <1>0, <2>2 DEF RestoreStartup, Show, NoTransition
    <3>2. active' \subseteq Stages /\ lc' \in Lifecycle /\ Idle \in Lifecycle
      BY <3>1, ActiveTyped, IdleGood
    <3>3. TypeOK'
      BY <1>0, <2>1, <3>1, <3>2 DEF TypeOK
    <3> QED BY <1>0, <2>1, <3>1, <3>3, IdleGood
  <2>3. CASE batch.prior # NoProjection /\ Rollback(batch.prior, projection.revision)
    BY <1>0, <2>1, <2>3, RollbackKeeps
  <2> QED BY <1>5, <2>2, <2>3 DEF RollbackBatch
<1>6. ASSUME NEW p \in Projections, NEW e, RestoreProjection(p, e) PROVE Held
  <2>1. Rollback(p, e) /\ UNCHANGED <<bound, startup, segment, status>> /\ batch' = batch
    BY <1>6 DEF RestoreProjection, plan
  <2> QED BY <1>0, <2>1, RollbackKeeps
<1>7. ASSUME NEW i \in 1..MaxIndex, ExpireLeases(i) PROVE Held
  <2>1. /\ UNCHANGED <<bound, lc, overlay, projection, startup, transition, batch, segment, status>>
        /\ index' \in 0..MaxIndex /\ active' \in {active, Active(lc, overlay, i)}
    BY <1>0, <1>7 DEF ExpireLeases, plan
  <2>2. active' \subseteq Stages
    BY <1>0, <2>1, ActiveTyped DEF TypeOK
  <2>3. TypeOK'
    BY <1>0, <2>1, <2>2 DEF TypeOK
  <2> QED BY <1>0, <2>1, <2>3
<1>8. CASE BeforeModelCall
  <2> DEFINE l == OnTaskStart(lc, overlay, index)
             m == IF ComponentMode(overlay, index, "owl") = "elevated"
                  THEN Reset(l, overlay, index, {"owl"}) ELSE l
  <2>1. Good(l)
    BY <1>0, GoodActivated DEF OnTaskStart
  <2>2. Good(Reset(l, overlay, index, {"owl"}))
    <3>1. {"owl"} \in SUBSET Resettable
      BY DEF Resettable
    <3> HIDE DEF l
    <3> QED BY <1>0, <2>1, <3>1, ResetFact
  <2>3. Good(m) /\ Session(m)
    BY <1>8, <2>1, <2>2 DEF BeforeModelCall
  <2> HIDE DEF m
  <2> QED BY <2>3, SessionKeeps
<1>9. ASSUME NEW risky \in BOOLEAN, BeforeToolPlanning(risky) PROVE Held
  <2> DEFINE l == [lc EXCEPT !.action = {}]
             S == IF risky THEN {"fuse", "ward"} ELSE {"fuse"}
  <2>1. Good(l)
    BY <1>0, ClearAction
  <2>2. Session(ActivateAll(l, overlay, index, S))
    BY <1>9 DEF BeforeToolPlanning
  <2> HIDE DEF l, S
  <2> QED BY <1>0, <2>1, <2>2, GoodActivated, SessionKeeps
<1>10. ASSUME NEW risky \in BOOLEAN, NEW allowed \in BOOLEAN, OnAction(risky, allowed) PROVE Held
  <2> DEFINE S == IF risky \/ ~allowed THEN {"fuse", "ward"} ELSE {"fuse"}
  <2>1. Session(ActivateAll(lc, overlay, index, S))
    BY <1>10 DEF OnAction
  <2> HIDE DEF S
  <2> QED BY <1>0, <2>1, GoodActivated, SessionKeeps
<1>11. CASE CompleteAction
  <2> DEFINE l == [lc EXCEPT !.action = {}]
  <2>1. /\ lc' = l /\ overlay' = overlay /\ index' = index + 1 /\ index < MaxIndex
        /\ active' = Active(l, overlay, index + 1)
        /\ UNCHANGED <<projection, bound, startup, transition, batch, segment, status>>
    BY <1>11 DEF CompleteAction, Show, adapter, plan
  <2>2. Good(l)
    BY <1>0, ClearAction
  <2> HIDE DEF l
  <2>3. active' \subseteq Stages /\ lc' \in Lifecycle /\ index' \in 0..MaxIndex
    BY <1>0, <2>1, <2>2, ActiveTyped
  <2>4. TypeOK'
    BY <1>0, <2>1, <2>3 DEF TypeOK
  <2> QED BY <1>0, <2>1, <2>2, <2>4
<1>12. ASSUME NEW flow \in BOOLEAN, NEW durable \in BOOLEAN, NEW changed \in BOOLEAN,
              OnArtifact(flow, durable, changed)
       PROVE  Held
  <2> DEFINE l == [lc EXCEPT !.artifact = {}]
  <2>1. Good(l)
    BY <1>0, ClearArtifact
  <2>2. PICK S : Session(ActivateAll(l, overlay, index, S))
    BY <1>12 DEF OnArtifact
  <2> HIDE DEF l
  <2> QED BY <1>0, <2>1, <2>2, GoodActivated, SessionKeeps
<1>13. CASE ArtifactProcessed
  <2>1. Good([lc EXCEPT !.artifact = {}])
    BY <1>0, ClearArtifact
  <2> QED BY <1>13, <2>1, SessionKeeps DEF ArtifactProcessed
<1>14. CASE RenderFinal
  <2> DEFINE opened == [lc EXCEPT !.response = {}]
             closing == IF overlay.mode = "READY_TO_COMPLETE"
                        THEN Activate(opened, overlay, index, "anchor_closeout")
                        ELSE opened
             told == Activate(closing, overlay, index, "sispis")
             done == [told EXCEPT !.response = {}]
  <2>1. Session(done)
    BY <1>14 DEF RenderFinal
  <2>2. Good(opened)
    BY <1>0, ClearResponse
  <2> HIDE DEF opened
  <2>3. Good(closing)
    BY <1>0, <2>2, GoodActivated DEF Activate
  <2> HIDE DEF closing
  <2>4. Good(told)
    BY <1>0, <2>3, GoodActivated DEF Activate
  <2> HIDE DEF told
  <2>5. Good(done)
    BY <2>4, ClearResponse
  <2> HIDE DEF done
  <2> QED BY <2>1, <2>5, SessionKeeps
<1>15. CASE CompleteSegment
  <2>1. UNCHANGED <<bound, lc, index, overlay, projection, active, startup, transition, batch, segment>>
        /\ status' = "COMPLETED"
    BY <1>15 DEF CompleteSegment, adapter
  <2>2. TypeOK'
    BY <1>0, <2>1 DEF TypeOK
  <2> QED BY <1>0, <2>1, <2>2
<1>16. CASE AdvanceSegment
  <2>1. UNCHANGED <<projection, bound, startup, transition, batch>> /\ segment \in Nat
        /\ status' \in {"ACTIVE", "BLOCKED", "COMPLETED"} /\ segment + 1 < Segments
    BY <1>0, <1>16 DEF AdvanceSegment, adapter, TypeOK
  <2>2. CASE UNCHANGED <<segment, lc, index, overlay, active>>
    <3>1. TypeOK'
      BY <1>0, <2>1, <2>2 DEF TypeOK
    <3> QED BY <1>0, <2>1, <2>2, <3>1
  <2>3. CASE segment' = segment + 1 /\ Show(ForSegment(lc), overlay, index)
    <3>1. /\ lc' = ForSegment(lc) /\ overlay' = overlay /\ index' = index
          /\ active' = Active(lc', overlay, index) /\ Good(lc')
      BY <1>0, <2>3, SegmentFact DEF Show
    <3>2. active' \subseteq Stages /\ lc' \in Lifecycle /\ segment' \in 0..(Segments - 1)
      BY <1>0, <2>1, <2>3, <3>1, ActiveTyped
    <3>3. TypeOK'
      BY <1>0, <2>1, <3>1, <3>2 DEF TypeOK
    <3> QED BY <1>0, <2>1, <3>1, <3>3
  <2> QED BY <1>16, <2>2, <2>3 DEF AdvanceSegment
<1>17. CASE UNCHANGED vars
  <2>1. TypeOK'
    BY <1>0, <1>17 DEF TypeOK, vars
  <2> QED BY <1>0, <1>17, <2>1 DEF vars
<1> QED BY <1>1, <1>2, <1>3, <1>4, <1>5, <1>6, <1>7, <1>8, <1>9, <1>10, <1>11, <1>12, <1>13,
           <1>14, <1>15, <1>16, <1>17 DEF Next

LEMMA LifecycleStart == Init => LifecycleInd
<1> SUFFICES ASSUME Init PROVE LifecycleInd
  OBVIOUS
<1>1. FloorInd
  BY OverlayStart DEF Init, FloorInd, Guarded, NoTransition
<1>2. Good(lc) /\ Good(startup.state) /\ Good(transition.state)
  BY StartedGood, IdleGood DEF Init, NoTransition
<1>3. Started \in Lifecycle /\ InUse(Started) \subseteq Stages /\ Idle \in Lifecycle
  BY StartedGood, IdleGood, ActiveTyped
<1>4. MaxIndex \in Nat /\ Segments \in Nat \ {0}
  BY LifecycleAssumption
<1>5. transition.state = Idle /\ batch.prior = NoProjection
  BY DEF Init, NoTransition, NoBatch
<1>6. startup \in [active : SUBSET Stages, state : Lifecycle]
  BY <1>3 DEF Init
<1>7. index \in 0..MaxIndex /\ segment \in 0..(Segments - 1)
  BY <1>4 DEF Init
<1>8. TypeOK
  BY <1>3, <1>5, <1>6, <1>7 DEF Init, TypeOK
<1> QED BY <1>1, <1>2, <1>8 DEF LifecycleInd

(* For every kernel of the shape of shared/pipeline.yaml and every set of projections the
   authority may offer: no stage of the task is suppressed, one is active only with what it
   requires, and per_task stages run once, whatever is applied, expired, rolled back,
   reset, or taken over into another segment
   (LifecycleController.activate, _reset_component, apply_component_overlay, restore_state,
   reset_for_segment). *)
THEOREM OverlaysAreSound == Spec => []OverlayInv
<1>1. Spec => []LifecycleInd
  BY LifecycleStart, LifecycleStep, PTL DEF Spec
<1>2. LifecycleInd => OverlayInv
  BY FloorFromInd DEF LifecycleInd, OverlayInv, RequirementsActive, RunsOncePerTask, Good, Sorted
<1> QED BY <1>1, <1>2, PTL

-----------------------------------------------------------------------------
(* What the run explores are behaviors of the three specifications, so that the theorems
   above hold of the run's specification as well. *)
LEMMA RunIsEach == PolicySpec => Spec /\ Installer!Spec /\ Behavior!Spec
<1>1. PolicyInit => Init /\ Installer!Init /\ Behavior!Init
  BY DEF PolicyInit, InstallerInit
<1>2. [PolicyNext]_<<part, vars, behaviorVars, installerVars>>
         => [Next]_vars /\ [Installer!Next]_(Installer!vars) /\ [Behavior!Next]_(Behavior!vars)
  BY DEF PolicyNext, installerVars, Installer!vars, Installer!history, Installer!counters,
         behaviorVars, Behavior!vars, Behavior!session, Behavior!history
<1> QED BY <1>1, <1>2, PTL DEF PolicySpec, Spec, Installer!Spec, Behavior!Spec
=============================================================================
