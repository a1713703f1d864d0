--------------------------- MODULE MCTaskResolution ---------------------------
(* The resolver and the store its bundles are written to.  They share no state  *)
(* here, so a behavior is one of resolve() or one of the store.                 *)
(*                                                                              *)
(* The pipeline of shared/pipeline.yaml with two of its profiles, and a guard *)
(* artifact whose members meet in every way the compiler distinguishes.         *)
EXTENDS TaskResolution, TLC

CONSTANTS Starters, Bundles, MaxStarts

VARIABLES part, policies, snapshots, manifests, journal, held, at, starts, raced

storeVars == <<policies, snapshots, manifests, journal, held, at, starts, raced>>

Store == INSTANCE PolicySnapshotStore

ASSUME StoreAssumption == Store!StoreConstants

MCInit == part \in {"resolver", "store"} /\ ResolutionInit /\ Store!StoreInit

MCNext ==
    \/ part = "resolver" /\ ResolutionNext /\ UNCHANGED <<part, storeVars>>
    \/ part = "store" /\ Store!StoreNext /\ UNCHANGED <<part, resolutionVars>>

MCSpec == MCInit /\ [][MCNext]_<<part, resolutionVars, storeVars>>

(* Stages, guards and adaptations of a resolved bundle are bounded by what *)
(* the pipeline, the budget and the experiment allow.                      *)
ResolutionInv ==
    ResolutionTypeOK /\ KernelFollowsManifest /\ AdaptationBounded /\ BudgetHolds
        /\ ActiveIsTreatment

(* No two active guards share a family, are in conflict or supersede one   *)
(* another, and a kernel rule is missing only where a guard of the         *)
(* artifact supersedes it.                                                 *)
GuardsInv == GuardsCoherent /\ KernelRulesKeptUnlessSuperseded

(* One content per stored file, every manifest joins telemetry to a stored *)
(* policy, and what a started session runs is on disk.                     *)
StoreInv == Store!StoreTypeOK /\ Store!ManifestsAreBacked /\ Store!StartedIsOnRecord

(* A stored policy artifact is never replaced. *)
PolicyArtifactImmutable == [][Store!ArtifactsKept]_storeVars

-----------------------------------------------------------------------------
(* One policy with two documents and two envelopes, another policy, and a
   bundle that is not what its policy pins. *)
AttemptBundles ==
    {[hash |-> "p1", document |-> d, envelope |-> e, intact |-> TRUE] : d \in {1, 2}, e \in {1, 2}}
    \union {[hash |-> "p2", document |-> 1, envelope |-> 1, intact |-> i] : i \in BOOLEAN}

PipelineStages == {"owl", "anchor_open", "dox_load", "fuse", "ward", "flow",
                   "dox_closeout", "anchor_closeout", "sispis"}
PipelineOwner == [s \in PipelineStages |->
    CASE s \in {"anchor_open", "anchor_closeout"} -> "anchor"
      [] s \in {"dox_load", "dox_closeout"} -> "dox"
      [] OTHER -> s]
PipelineRequires == [s \in PipelineStages |->
    CASE s = "anchor_open" -> {"owl"} [] s = "ward" -> {"fuse"}
      [] s = "dox_closeout" -> {"dox_load"} [] s = "anchor_closeout" -> {"anchor_open"}
      [] OTHER -> {}]
PipelineOrderAfter == [s \in PipelineStages |->
    CASE s = "owl" -> {} [] s = "anchor_open" -> {"owl"} [] s = "dox_load" -> {"anchor_open"}
      [] s = "fuse" -> {"owl", "anchor_open", "dox_load"} [] s = "ward" -> {"fuse"}
      [] s = "flow" -> {"anchor_open", "fuse", "ward"}
      [] s = "dox_closeout" -> {"dox_load", "fuse", "ward", "flow"}
      [] s = "anchor_closeout" -> {"anchor_open", "fuse", "ward", "flow", "dox_closeout"}
      [] s = "sispis" -> PipelineStages \ {"sispis"}]
PipelineLexical == <<"anchor_closeout", "anchor_open", "dox_closeout", "dox_load",
                     "flow", "fuse", "owl", "sispis", "ward">>
PipelineAliases == ("anchor" :> {"anchor_open", "anchor_closeout"})
                   @@ ("dox" :> {"dox_load", "dox_closeout"})
PipelineProfiles == ("quick" :> <<"sispis">>)
                    @@ ("doc_edit" :> <<"owl", "anchor", "dox", "fuse", "ward", "sispis">>)

Anywhere == [model |-> {}]
Rule(id, cost) == [id |-> id, key |-> id, family |-> id, ekey |-> id, status |-> "active",
                   priority |-> 0, cost |-> cost, supersedes |-> {}, conflicts |-> {}, scope |-> Anywhere]
KernelRules == {Rule("k1", 2), Rule("k2", 2)}

Guard(id, family, ekey, status, priority, cost, supersedes, conflicts, scope) ==
    [id |-> id, key |-> id, family |-> family, ekey |-> ekey, status |-> status, priority |-> priority,
     cost |-> cost, supersedes |-> supersedes, conflicts |-> conflicts, scope |-> scope]

(* Three versions of a family, a duplicate of a kernel rule, one that supersedes a
   kernel rule and one that supersedes back, one in conflict, a costly canary
   for one model, and a retired guard. *)
ArtifactGuards ==
    {Guard("old", "fam", "e1", "active", 1, 1, {}, {}, Anywhere),
     Guard("new", "fam", "e2", "active", 1, 1, {"old"}, {}, Anywhere),
     Guard("alt", "fam", "e7", "active", 2, 1, {}, {}, Anywhere),
     Guard("dup", "dup", "k1", "active", 0, 1, {}, {}, Anywhere),
     Guard("over", "over", "e3", "active", 2, 1, {"k2", "canary"}, {}, Anywhere),
     Guard("take", "take", "e6", "active", 3, 2, {"k2"}, {}, Anywhere),
     Guard("foe", "foe", "e4", "active", 2, 1, {}, {"fam"}, Anywhere),
     Guard("canary", "canary", "e5", "canary", 0, 3, {}, {}, [model |-> {"m1"}]),
     Guard("retired", "retired", "e5", "retired", 0, 1, {}, {}, Anywhere)}
AlphabeticalKeys == "alt" :> 0 @@ "canary" :> 1 @@ "dup" :> 2 @@ "foe" :> 3 @@ "k1" :> 4 @@ "k2" :> 5 @@ "new" :> 6
                    @@ "old" :> 7 @@ "over" :> 8 @@ "retired" :> 9 @@ "take" :> 10

Adjust(type, route, disposition) == [type |-> type, route |-> route, disposition |-> disposition]

(* A private profile of another agent, a shared one, and an expired one. *)
DeployedProfiles ==
    {[id |-> "mine", valid |-> TRUE, scope |-> "agent_private", matches |-> "application",
      adjustments |-> {Adjust("stage", "owl", "suppress")}],
     [id |-> "ours", valid |-> TRUE, scope |-> "application_shared", matches |-> "application",
      adjustments |-> {Adjust("guard", "fam", "suppress"), Adjust("stage", "fuse", "suppress")}],
     [id |-> "late", valid |-> FALSE, scope |-> "agent_private", matches |-> "agent", adjustments |-> {}]}
MCCandidate == Adjust("stage", "anchor", "suppress")

(* What an advisor answers: preferences, a mandatory stage, a kernel rule, a
   route that is not eligible, and advice for another request. *)
MCAdvices ==
    {[status |-> "ok", bound |-> TRUE, adjustments |-> adjs] :
        adjs \in {{Adjust("guard", "take", "prefer"), Adjust("guard", "old", "suppress")},
                  {Adjust("stage", "ward", "suppress")}, {Adjust("guard", "k1", "suppress")},
                  {Adjust("stage", "flow", "prefer")}}}
    \union {[status |-> "ok", bound |-> FALSE, adjustments |-> {Adjust("stage", "owl", "suppress")}],
            [status |-> "unavailable", bound |-> FALSE, adjustments |-> {}]}

MCFacets == {[model |-> {"m1"}], [model |-> {}]}
PrefixOf == [s \in PipelineStages |-> PipelineOwner[s]]
=============================================================================
