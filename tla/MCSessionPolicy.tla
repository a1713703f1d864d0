---------------------------- MODULE MCSessionPolicy ----------------------------
(* The two policies that steer a session between actions, the component         *)
(* overlays of an external authority and the standalone behavior policy, and    *)
(* the installation both run from.  They share no state here, so a behavior is  *)
(* one of one of them.                                                          *)
EXTENDS ComponentLifecycle, TLC

CONSTANTS
    Criteria, Actions, About, Relation, Routes, WindowSize, YieldThreshold, MaxRedirects,
    SupportLimit, TotalLimit, EpochLimit, SameLimit, MaxPending, MaxSequence, MaxRevision,
    MaxEpochs, MaxFaults,
    Registries, CoreSkills, StateWorks, Shipped, WrapperSource, MaxInstalls, MaxEdits, MaxCrashes

VARIABLES
    part, up, ledger, attention, counters, journal, pending, contradicted, terminated,
    workflow, offered, epochs, faults, refused, waited,
    site, inst, before, touched, fresh, crashed, exposed, quiet, installs, edits, crashes

behaviorVars == <<up, ledger, attention, counters, journal, pending, contradicted, terminated,
                  workflow, offered, epochs, faults, refused, waited>>

installerVars == <<site, inst, before, touched, fresh, crashed, exposed, quiet,
                   installs, edits, crashes>>

Behavior == INSTANCE StandaloneBehavior
Installer == INSTANCE SkillInstaller

ASSUME BehaviorAssumption == Behavior!BehaviorConstants
ASSUME InstallerAssumption == Installer!InstallerConstants

(* The second skill registry belongs to another installer: what several         *)
(* registries add is the order of commits and refusals.                         *)
InstallerInit ==
    /\ Installer!Init
    /\ \A r \in Registries : site[r].manifest.owner = "other" <=> r = "codex"

PolicyInit ==
    /\ part \in {"overlays", "standalone", "installer"}
    /\ Init /\ Behavior!Init /\ InstallerInit

PolicyNext ==
    \/ part = "overlays" /\ Next /\ UNCHANGED <<part, behaviorVars, installerVars>>
    \/ part = "standalone" /\ Behavior!Next /\ UNCHANGED <<part, vars, installerVars>>
    \/ part = "installer" /\ Installer!Next /\ UNCHANGED <<part, vars, behaviorVars>>

PolicySpec == PolicyInit /\ [][PolicyNext]_<<part, vars, behaviorVars, installerVars>>

-----------------------------------------------------------------------------
(* Component overlays: the implement kernel of shared/pipeline.yaml and a few
   projections. *)
Implement == {"owl", "anchor_open", "anchor_closeout", "fuse", "ward", "sispis"}
Owners == [s \in Implement |->
             IF s \in {"anchor_open", "anchor_closeout"} THEN "anchor" ELSE s]
Requirements == [s \in Implement |->
                   CASE s = "anchor_open" -> "owl"
                     [] s = "anchor_closeout" -> "anchor_open"
                     [] s = "ward" -> "fuse"
                     [] OTHER -> "none"]
Frequencies == [s \in Implement |->
                  CASE s \in {"owl", "anchor_open"} -> "per_task"
                    [] s \in {"fuse", "ward"} -> "per_action"
                    [] s = "anchor_closeout" -> "per_artifact"
                    [] OTHER -> "per_response"]
Catalog == {"owl", "anchor", "fuse", "ward", "flow", "sispis", "dox"}
Common == {"off", "passive", "normal"}
CatalogModes == [c \in Catalog |->
                   CASE c = "owl" -> Common \cup {"elevated", "reset"}
                     [] c = "anchor" -> Common \cup
                                        {"elevated", "reset", "reopen", "recovery"}
                     [] c = "fuse" -> Common \cup {"constrained"}
                     [] c = "ward" -> {"mandatory"}
                     [] c = "flow" -> Common \cup {"elevated"}
                     [] c = "sispis" -> Common
                     [] c = "dox" -> Common \cup {"elevated", "reset", "reopen"}]
Baselines == [c \in Catalog |-> IF c = "ward" THEN "mandatory" ELSE "normal"]

With(c, mode) == [Baselines EXCEPT ![c] = mode]
Lease(i, target, applied, previous, expires, revision) ==
    [id |-> i, target |-> target, applied |-> applied, previous |-> previous,
     expires |-> expires, revision |-> revision]
Offer(revision, i, mode, modes, leases) ==
    [revision |-> revision, index |-> i, mode |-> mode, modes |-> modes,
     leases |-> leases]

(* Resets, an elevation and overlapping leases in three revisions, one with a
   component switched off that the bundle does not have; and three that have to
   be refused: a suppressed component, a lease that falls back to one, and a
   lease from the future. *)
Offers ==
    {Offer(0, 0, "DELIVER", With("owl", "elevated"), {}),
     Offer(1, 0, "READY_TO_COMPLETE", With("dox", "off"),
           {Lease(1, "anchor", "recovery", "normal", 0, 1)}),
     Offer(2, 1, "RECOVER", With("anchor", "recovery"),
           {Lease(1, "anchor", "recovery", "normal", 0, 1),
            Lease(2, "anchor", "elevated", "recovery", 1, 2)}),
     Offer(2, 2, "DELIVER", With("owl", "off"), {}),
     Offer(2, 0, "REPLAN", With("owl", "reset"),
           {Lease(3, "anchor", "elevated", "passive", 1, 2)}),
     Offer(1, 0, "REPLAN", Baselines, {Lease(3, "mode", "VERIFY", "DELIVER", 1, 2)})}

Directives ==
    {<<>>,
     <<[target |-> "owl", value |-> "reset"], [target |-> "owl", value |-> "elevated"]>>,
     <<[target |-> "anchor", value |-> "off"]>>}

-----------------------------------------------------------------------------
(* Standalone behavior: two criteria; an action about the first of them and a
   diagnostic that names none and so is about whatever attention is on. *)
MCCriteria == 1..2
MCActions == {"fix", "look"}
MCAbout == [d \in MCActions |-> IF d = "fix" THEN 1 ELSE 0]
MCRelation == [d \in MCActions |->
    IF d = "look" THEN "diagnostic_support" ELSE "advances_primary_goal"]

(* What disturbs the session from outside (a contradiction, a termination, a
   blocker, the workflow moving) is explored one at a time; the second segment
   of a task, and a batch of directives, end one action earlier. *)
MCOneDisturbance ==
    /\ Cardinality({k \in 1..4 : <<contradicted, terminated, ledger.blockers,
                               workflow > 0>>[k]}) <= 1
    /\ segment > 0 \/ batch.open => index < MaxIndex

-----------------------------------------------------------------------------
(* Release 2 drops a reference, adds a StateWork and changes the rest. *)
TwoReleases ==
    << << <<"OWL", "SKILL">>, <<"OWL", "reference">>, <<"cogframe", "SKILL">> >>,
       << <<"OWL", "SKILL">>, <<"cogframe", "SKILL">>,
          <<"gitter", "SKILL">>, <<"gitter", "fingerprint">> >> >>
StateWorkDocuments == [w \in StateWorks |-> "STATEWORK"]

-----------------------------------------------------------------------------
(* Types, the mandatory floor and the requirements of active stages.            *)
OverlayInv == TypeOK /\ FloorHolds /\ RequirementsActive /\ RunsOncePerTask

(* An agent without progress is refused a bounded number of times, no prompt    *)
(* unfinished criterion is passed over, and a yielded turn is for another one.  *)
AttentionInv ==
    part = "standalone" =>
        /\ Behavior!TypeOK
        /\ Behavior!RefusalsBounded
        /\ Behavior!AttentionRotates
        /\ Behavior!YieldsElsewhere

(* A child epoch is entered only while the policy asks for a new route. *)
EpochJustified == [][Behavior!EpochAskedFor]_behaviorVars

(* Manifest, installed files and runtime tree of a registry agree, and no  *)
(* exception loses the runtime tree.                                       *)
InstallerInv == Installer!InstallerInv

(* A failed install leaves its registry as it found it.                    *)
FailedInstallRestores == Installer!FailedInstallRestores

(* doctor.py accepts what the installer committed and nobody touched.      *)
DoctorAcceptsInstall == Installer!DoctorAcceptsInstall

(* What the user wrote between installs is not overwritten or removed.     *)
UserEditsKept == [][Installer!UserEditKept]_installerVars
=============================================================================
