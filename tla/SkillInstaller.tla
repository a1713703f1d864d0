--------------------------- MODULE SkillInstaller ---------------------------
(***************************************************************************)
(* scripts/install-framework.py: one installer process puts a release of   *)
(* the framework into one or several skill registries, each owned through  *)
(* a manifest of paths and digests, while a user edits the same            *)
(* directories; and scripts/doctor.py, which judges the result.            *)
(*                                                                         *)
(* A file is <<directory, name>>.  Its content is 0 when it does not       *)
(* exist, the number of the release that wrote it, or minus the number of  *)
(* the user's edit; a digest is the content it was taken of.  The runtime  *)
(* tree and its backup are the number of a release, or 0.                  *)
(*                                                                         *)
(* install_primitives is not in the repository: copy_owned_file,           *)
(* write_owned_file and InstallJournal are modelled from their uses.       *)
(***************************************************************************)
EXTENDS Integers, Sequences, FiniteSets, SequencesExt, Functions

CONSTANTS
    Registries,     \* the registry directories the installer may be pointed at
    CoreSkills,     \* CORE_SKILLS: directories with a collision check
    StateWorks,     \* ids of compiled StateWork bundles
    Shipped,        \* Shipped[r]: the files release r copies, in the code's order
    WrapperSource,  \* [StateWorks -> {"SKILL", "STATEWORK", "runtime"}]
    MaxInstalls, MaxEdits, MaxCrashes   \* bounds of the model

VARIABLES
    site,       \* [Registries -> record]: what is on disk
    inst,       \* the installer process
    before,     \* history: the registry as the current install found it
    touched,    \* history: registries the user edited since it was taken
    fresh,      \* history: release of the last undisturbed commit, or 0
    crashed,    \* history: registries in which an installer died
    exposed,    \* history: registries in which it died with no runtime tree
    quiet,      \* history: edits made while their registry was not installed to
    installs, edits, crashes

history == <<before, touched, fresh, crashed, exposed, quiet>>
counters == <<installs, edits, crashes>>
vars == <<site, inst, history, counters>>

Releases == DOMAIN Shipped
ShipSet(r) == Range(Shipped[r])
Files == UNION {ShipSet(r) : r \in Releases}
Dirs == {f[1] : f \in Files}

InstallerConstants ==
    /\ IsFiniteSet(Registries) /\ "none" \notin Registries
    /\ \A r \in Releases : r \in Nat \ {0} /\ Shipped[r] \in Seq(Files)
    /\ \A f \in Files : f[1] \in CoreSkills \union StateWorks \union {"cogframe"}
    /\ \A r \in Releases : {<<s, "SKILL">> : s \in CoreSkills \union {"cogframe"}} \subseteq ShipSet(r)
    /\ \A r \in Releases, w \in StateWorks :
          <<w, "SKILL">> \in ShipSet(r) => <<w, "fingerprint">> \in ShipSet(r)
    /\ {MaxInstalls, MaxEdits, MaxCrashes} \subseteq Nat
    /\ WrapperSource \in [StateWorks -> {"SKILL", "STATEWORK", "runtime"}]
-----------------------------------------------------------------------------
(* The contents of no file at all.                                         *)
Nothing == [f \in {} |-> 0]
NoManifest == [owner |-> "none", paths |-> {}, digests |-> Nothing]
ForeignManifest == [owner |-> "other", paths |-> {}, digests |-> Nothing]

(* A registry at first holds nothing, or the manifest of another owner.    *)
NewRegistry(manifest) ==
    [disk |-> [f \in Files |-> 0], dirs |-> {}, runtime |-> 0, backup |-> 0,
     manifest |-> manifest]

NoInstall ==
    [pc |-> "idle", todo |-> <<>>, reg |-> "none", release |-> 0, replace |-> FALSE,
     prev |-> NoManifest, next |-> 1, owned |-> {}, files |-> Nothing,
     manifest |-> NoManifest, runtime |-> 0, outcome |-> "none"]

Init ==
    /\ site \in [Registries -> {NewRegistry(NoManifest), NewRegistry(ForeignManifest)}]
    /\ inst = NoInstall
    /\ before = NewRegistry(NoManifest)
    /\ touched = {} /\ crashed = {} /\ exposed = {} /\ quiet = {}
    /\ fresh = [r \in Registries |-> 0]
    /\ installs = 0 /\ edits = 0 /\ crashes = 0

(* The registry being installed to, and whether r is that registry.        *)
Here == site[inst.reg]
Busy(r) == inst.pc \notin {"idle", "next"} /\ inst.reg = r

Go(pc) == inst' = [inst EXCEPT !.pc = pc]
-----------------------------------------------------------------------------
(* Starting: arguments, preflight, deduplicated targets                    *)

(* What _registry_specs returns: registries in any order, one named twice  *)
(* only once.                                                              *)
Targets ==
    {s \in UNION {[1..n -> Registries] : n \in 1..Cardinality(Registries)} :
        \A j, k \in DOMAIN s : s[j] = s[k] => j = k}

(* _preflight_sources passes and the registries are known; a preflight     *)
(* that fails returns before anything is touched.                          *)
StartInstall(targets, release, replace) ==
    /\ inst.pc = "idle" /\ installs < MaxInstalls
    /\ installs' = installs + 1
    /\ inst' = [NoInstall EXCEPT !.pc = "next", !.todo = targets,
                                 !.release = release, !.replace = replace]
    /\ UNCHANGED <<site, history, edits, crashes>>

(* What the journal captures before the first change of a registry.        *)
FaultyCaptures(r) ==
    [files |-> [f \in site[r].manifest.paths |-> site[r].disk[f]],
     manifest |-> site[r].manifest, runtime |-> 0]
Captures(r) ==
    [files |-> [f \in site[r].manifest.paths |-> site[r].disk[f]],
     manifest |-> site[r].manifest, runtime |-> site[r].runtime]

(* The next registry: refused when another installer's manifest is there,  *)
(* skipped when it cannot be created or written, otherwise its manifest is *)
(* loaded and the journal captures all it names.                           *)
SkipRegistry ==
    /\ inst.pc = "next" /\ inst.todo # <<>>
    /\ inst' = [inst EXCEPT !.todo = Tail(@)]
    /\ UNCHANGED <<site, history, counters>>

RefuseOwner ==
    /\ inst.pc = "next" /\ inst.todo # <<>>
    /\ site[Head(inst.todo)].manifest.owner = "other"
    /\ inst' = NoInstall
    /\ UNCHANGED <<site, history, counters>>

BeginRegistry ==
    /\ inst.pc = "next" /\ inst.todo # <<>>
    /\ LET r == Head(inst.todo)
           captured == Captures(r)
       IN  /\ site[r].manifest.owner # "other"
           /\ inst' = [inst EXCEPT !.pc = "copy", !.todo = Tail(@), !.reg = r,
                                   !.prev = site[r].manifest, !.next = 1, !.owned = {},
                                   !.files = captured.files,
                                   !.manifest = captured.manifest,
                                   !.runtime = captured.runtime, !.outcome = "none"]
           /\ before' = site[r]
           /\ touched' = touched \ {r}
    /\ UNCHANGED <<site, fresh, crashed, exposed, quiet, counters>>

FinishInstall ==
    /\ inst.pc = "next" /\ inst.todo = <<>>
    /\ inst' = NoInstall
    /\ UNCHANGED <<site, history, counters>>
-----------------------------------------------------------------------------
(* Copying skills, cogframe and StateWork wrappers                         *)

(* A directory that exists without a path of the old manifest in it is a   *)
(* collision; cogframe is not asked.                                       *)
Collides(d) ==
    /\ d # "cogframe"
    /\ d \in Here.dirs
    /\ \A f \in inst.prev.paths : f[1] # d
    /\ \A f \in inst.owned : f[1] # d

(* check_owned_overwrite: a file may be written when it is absent, still   *)
(* what the manifest recorded, or managed and replacement was asked for;   *)
(* a copy that would change nothing may pass too.                          *)
Overwritable(f) ==
    \/ Here.disk[f] \in {0, inst.release}
    \/ /\ f \in DOMAIN inst.prev.digests
       /\ inst.prev.digests[f] = Here.disk[f] \/ inst.replace

(* copy_owned_file's capture of a file the manifest did not name.          *)
FaultyCaptured(f) == inst.files
Captured(f) ==
    IF f \in DOMAIN inst.files THEN inst.files
    ELSE [g \in DOMAIN inst.files \union {f} |->
              IF g = f THEN Here.disk[f] ELSE inst.files[g]]

(* What the copy leaves in the file.                                       *)
FaultyWritten(f) == IF Here.disk[f] = 0 THEN inst.release ELSE Here.disk[f]
Written(f) == inst.release

CopyFile ==
    /\ inst.pc = "copy" /\ inst.next <= Len(Shipped[inst.release])
    /\ LET f == Shipped[inst.release][inst.next]
       IN  /\ ~Collides(f[1])
           /\ Overwritable(f)
           /\ site' = [site EXCEPT ![inst.reg].disk[f] = Written(f),
                                           ![inst.reg].dirs = @ \union {f[1]}]
           /\ inst' = [inst EXCEPT !.next = @ + 1, !.owned = @ \union {f},
                                   !.files = Captured(f)]
    /\ UNCHANGED <<history, counters>>

(* ensure_directory precedes the overwrite check: a refused file may leave *)
(* its directory behind, and so may any other failure there.               *)
CopyRefused ==
    /\ inst.pc = "copy" /\ inst.next <= Len(Shipped[inst.release])
    /\ LET f == Shipped[inst.release][inst.next]
       IN  /\ Collides(f[1]) \/ ~Overwritable(f)
           /\ site' = [site EXCEPT ![inst.reg].dirs = @ \union {f[1]}]
    /\ Go("unwind")
    /\ UNCHANGED <<history, counters>>

(* The runtime tree is staged beside the one in place; nothing visible     *)
(* changes, and any of its copies may fail (Fail).                         *)
StageRuntime ==
    /\ inst.pc = "copy" /\ inst.next > Len(Shipped[inst.release])
    /\ Go("backup")
    /\ UNCHANGED <<site, history, counters>>
-----------------------------------------------------------------------------
(* _atomic_replace_directory                                               *)

RemoveStaleBackup ==
    /\ inst.pc = "backup"
    /\ site' = [site EXCEPT ![inst.reg].backup = 0]
    /\ Go("aside")
    /\ UNCHANGED <<history, counters>>

SetAside ==
    /\ inst.pc = "aside"
    /\ site' = [site EXCEPT ![inst.reg].backup = Here.runtime,
                                    ![inst.reg].runtime = 0]
    /\ Go("publish")
    /\ UNCHANGED <<history, counters>>

Publish ==
    /\ inst.pc = "publish"
    /\ site' = [site EXCEPT ![inst.reg].runtime = inst.release]
    /\ Go("drop")
    /\ UNCHANGED <<history, counters>>

(* The handler: a destination that is still there is removed, even when it *)
(* is the old tree that could not be set aside; a tree that was set aside  *)
(* goes back.                                                              *)
ReplaceFails ==
    /\ inst.pc \in {"aside", "publish"}
    /\ site' = [site EXCEPT
           ![inst.reg].runtime = IF inst.pc = "publish" THEN Here.backup ELSE 0,
           ![inst.reg].backup = 0]
    /\ Go("unwind")
    /\ UNCHANGED <<history, counters>>

DropBackup ==
    /\ inst.pc = "drop"
    /\ site' = [site EXCEPT ![inst.reg].backup = 0]
    /\ Go("cleanup")
    /\ UNCHANGED <<history, counters>>
-----------------------------------------------------------------------------
(* Cleanup, manifest, commit                                               *)

(* A file the release no longer ships goes, unless the user changed it.    *)
FaultyRemovable(f) == Here.disk[f] # 0
Removable(f) ==
    /\ Here.disk[f] # 0
    /\ f \in DOMAIN inst.prev.digests
    /\ Here.disk[f] = inst.prev.digests[f]

Stale == {f \in inst.prev.paths \ inst.owned : Removable(f)}

CleanupFile(f) ==
    /\ inst.pc = "cleanup" /\ f \in Stale
    /\ site' = [site EXCEPT ![inst.reg].disk[f] = 0]
    /\ UNCHANGED <<inst, history, counters>>

(* The digests are taken from the disk now, not when the file was copied.  *)
Digests == [f \in {g \in inst.owned : Here.disk[g] # 0} |-> Here.disk[f]]

WriteManifest ==
    /\ inst.pc = "cleanup" /\ Stale = {}
    /\ site' = [site EXCEPT ![inst.reg].manifest =
                   [owner |-> "cfw", paths |-> inst.owned, digests |-> Digests]]
    /\ Go("commit")
    /\ UNCHANGED <<history, counters>>

Commit ==
    /\ inst.pc = "commit"
    /\ inst' = [NoInstall EXCEPT !.pc = "next", !.todo = inst.todo, !.reg = inst.reg,
                                 !.release = inst.release, !.replace = inst.replace,
                                 !.outcome = "committed"]
    /\ fresh' = [fresh EXCEPT ![inst.reg] =
                     IF inst.reg \in touched THEN 0 ELSE inst.release]
    /\ exposed' = exposed \ {inst.reg}
    /\ UNCHANGED <<site, before, touched, crashed, quiet, counters>>
-----------------------------------------------------------------------------
(* Failure, rollback and death of the process                              *)

(* Any other step of an install may raise; main then rolls back.           *)
Fail ==
    /\ inst.pc \in {"copy", "backup", "drop", "cleanup", "commit"}
    /\ Go("unwind")
    /\ UNCHANGED <<site, history, counters>>

(* InstallJournal.rollback puts back what was captured; whether it also    *)
(* removes the directories that are now empty is not known here.           *)
Restored ==
    [f \in Files |-> IF f \in DOMAIN inst.files THEN inst.files[f] ELSE Here.disk[f]]

Rollback ==
    /\ inst.pc = "unwind"
    /\ \E dirs \in {Here.dirs, {d \in Here.dirs : \E f \in Files : f[1] = d /\ Restored[f] # 0}} :
           site' = [site EXCEPT ![inst.reg] =
               [@ EXCEPT !.disk = Restored, !.manifest = inst.manifest,
                         !.runtime = inst.runtime, !.dirs = dirs]]
    /\ inst' = [NoInstall EXCEPT !.reg = inst.reg, !.outcome = "restored"]
    /\ UNCHANGED <<history, counters>>

(* The process dies: no handler runs and the journal is never read again.  *)
Crash ==
    /\ inst.pc \notin {"idle", "next"} /\ crashes < MaxCrashes
    /\ crashes' = crashes + 1
    /\ crashed' = crashed \union {inst.reg}
    /\ exposed' = IF inst.pc \in {"publish", "unwind"} /\ Here.runtime = 0
                  THEN exposed \union {inst.reg} ELSE exposed
    /\ fresh' = [fresh EXCEPT ![inst.reg] = 0]
    /\ inst' = NoInstall
    /\ UNCHANGED <<site, before, touched, quiet, installs, edits>>

(* The user writes a file, or deletes one.                                 *)
Edit(r, f) ==
    /\ edits < MaxEdits
    /\ edits' = edits + 1
    /\ \/ /\ site' = [site EXCEPT ![r].disk[f] = -(edits + 1),
                                          ![r].dirs = @ \union {f[1]}]
          /\ quiet' = IF Busy(r) THEN quiet ELSE quiet \union {-(edits + 1)}
       \/ /\ site[r].disk[f] # 0
          /\ site' = [site EXCEPT ![r].disk[f] = 0]
          /\ UNCHANGED quiet
    /\ touched' = touched \union {r}
    /\ fresh' = [fresh EXCEPT ![r] = 0]
    /\ UNCHANGED <<inst, before, crashed, exposed, installs, crashes>>

Next ==
    \/ \E targets \in Targets, release \in Releases, replace \in BOOLEAN :
           StartInstall(targets, release, replace)
    \/ SkipRegistry \/ RefuseOwner \/ BeginRegistry \/ FinishInstall
    \/ CopyFile \/ CopyRefused \/ StageRuntime
    \/ RemoveStaleBackup \/ SetAside \/ Publish \/ ReplaceFails \/ DropBackup
    \/ \E f \in Files : CleanupFile(f)
    \/ WriteManifest \/ Commit
    \/ Fail \/ Rollback \/ Crash
    \/ \E r \in Registries, f \in Files : Edit(r, f)

Spec == Init /\ [][Next]_vars
-----------------------------------------------------------------------------
(* scripts/doctor.py: the judgement of a checkout of release `source` on a *)
(* registry, as far as the installer decides it.                           *)

(* check_registry on a core skill: the capsule is compared when there is   *)
(* one on both sides, and only otherwise SKILL.md itself.                  *)
SkillMatches(r, s, source) ==
    LET disk == site[r].disk
        capsule == <<s, "runtime">>
    IN  /\ disk[<<s, "SKILL">>] # 0
        /\ IF capsule \in ShipSet(source) /\ disk[capsule] # 0
           THEN disk[capsule] = source
           ELSE disk[<<s, "SKILL">>] = source

(* The fingerprint is that of the file the wrapper was copied from; doctor *)
(* looks for SKILL.md in the installed bundle, then STATEWORK.md in its    *)
(* own checkout, then takes the manifest's, which it never is.             *)
WrapperMatches(r, w, source) ==
    LET disk == site[r].disk
    IN  /\ disk[<<w, "SKILL">>] # 0
        /\ disk[<<w, "fingerprint">>] # 0
        /\ CASE WrapperSource[w] = "SKILL" -> disk[<<w, "fingerprint">>] = site[r].runtime
             [] WrapperSource[w] = "STATEWORK" -> disk[<<w, "fingerprint">>] = source
             [] OTHER -> FALSE

Bundled(release) == {w \in StateWorks : <<w, "SKILL">> \in ShipSet(release)}

(* The runtime tree is published whole, so that its required files are all *)
(* there or none is; the probe that starts it is not modelled.             *)
RuntimeComplete(r) == site[r].runtime # 0

DoctorPasses(r, source) ==
    /\ RuntimeComplete(r)
    /\ \A s \in CoreSkills : SkillMatches(r, s, source)
    /\ site[r].disk[<<"cogframe", "SKILL">>] = source
    /\ \A w \in Bundled(site[r].runtime) : WrapperMatches(r, w, source)
-----------------------------------------------------------------------------
Content == -MaxEdits..MaxEdits \union Releases \union {0}

(* A manifest records digests only of paths it names, and the installer    *)
(* owns only paths of its release.                                         *)
TypeOK ==
    /\ \A r \in Registries :
           /\ site[r].disk \in [Files -> Content]
           /\ site[r].dirs \subseteq Dirs
           /\ {site[r].runtime, site[r].backup} \subseteq Releases \union {0}
           /\ DOMAIN site[r].manifest.digests \subseteq site[r].manifest.paths
    /\ inst.pc # "idle" => inst.release \in Releases /\ inst.owned \subseteq ShipSet(inst.release)
    /\ fresh \in [Registries -> Releases \union {0}]

(* A file the user wrote while nothing was being installed there changes   *)
(* only by the user's own hand, unless replacement was asked for: not by   *)
(* a copy, a cleanup, a rollback or any sequence of failed installs.       *)
UserEditKept ==
    \A r \in Registries, f \in Files :
        site[r].disk[f] \in quiet /\ site'[r].disk[f] # site[r].disk[f]
            => edits' # edits \/ inst.replace

(* An install that fails leaves the files, the manifest and the runtime of *)
(* its registry as it found them, wherever it failed.                      *)
FailedInstallRestores ==
    inst.outcome = "restored" /\ inst.reg \notin touched =>
        /\ site[inst.reg].disk = before.disk
        /\ site[inst.reg].manifest = before.manifest
        /\ site[inst.reg].runtime = before.runtime

(* Without a death of the installer, the manifest at rest is that of the   *)
(* release whose runtime is in place, and no file the installer wrote is   *)
(* outside it.                                                             *)
ManifestMatchesRuntime ==
    \A r \in Registries \ crashed : ~Busy(r) =>
        LET reg == site[r]
        IN  /\ reg.manifest.paths = IF reg.runtime = 0 THEN {} ELSE ShipSet(reg.runtime)
            /\ \A f \in Files : reg.disk[f] > 0 => f \in reg.manifest.paths

(* Once a runtime was committed, one is in place whenever no install is    *)
(* running, except after a death between the two renames or while the      *)
(* failure handler had removed it: no exception loses it.                  *)
RuntimeKept ==
    \A r \in Registries \ exposed :
        site[r].manifest.owner = "cfw" /\ site[r].runtime = 0
            => Busy(r) /\ inst.pc \in {"publish", "unwind"}

(* doctor accepts what the installer committed and nobody touched since,   *)
(* also after earlier crashes and failed upgrades, exactly when no wrapper *)
(* had to be taken from a bundle's runtime.md.                             *)
DoctorAcceptsInstall ==
    \A r \in Registries : fresh[r] # 0 /\ ~Busy(r) =>
        (DoctorPasses(r, fresh[r])
            <=> \A w \in Bundled(fresh[r]) : WrapperSource[w] # "runtime")

(* What holds of a registry between installs and across failures.          *)
InstallerInv == TypeOK /\ ManifestMatchesRuntime /\ RuntimeKept
=============================================================================
