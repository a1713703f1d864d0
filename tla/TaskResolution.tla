---------------------------- MODULE TaskResolution ----------------------------
(* resolve() of resolver/task_resolution.py: one task request is turned into    *)
(* an immutable runtime bundle.  Each action is one phase of the call, in the   *)
(* order of the code; every phase may refuse (raise).  The workflow registry    *)
(* belongs to the workflow provider, which is asked twice and may be updated in *)
(* between.                                                                     *)
(*                                                                              *)
(* The hashes resolve() computes over documents are left out: what they pin is  *)
(* kept in the bundle itself.                                                   *)
EXTENDS GuardCompilation

CONSTANTS
    Stages,          \* the stages of shared/pipeline.yaml
    Owner,           \* stage -> the protocol that owns it
    Prefix,          \* stage -> its name up to the first underscore
    Requires,        \* stage -> the stages it cannot run without
    OrderAfter,      \* stage -> the stages that run before it when active
    Lexical,         \* the stages in alphabetical order
    Aliases,         \* alias -> the stages it stands for
    Profiles,        \* task shape -> the names its profile lists
    RoutingProfiles, \* deployed behavioral routing profiles
    Candidate,       \* the candidate adjustment of the routing experiment
    Advices,         \* what a behavioral advisor may answer
    Components,      \* what a workflow may require: names of stages or aliases
    Facets,          \* what a request may say per scope dimension
    MaxPack,         \* bound: guards in the compiled artifact
    MaxRegistry      \* bound: versions of the workflow registry

NonSuppressible == {"ward", "sispis"}
Shapes == DOMAIN Profiles

ASSUME ResolutionAssumption ==
    /\ IsFiniteSet(Stages)
    /\ \A s \in Stages : Requires[s] \subseteq Stages /\ OrderAfter[s] \subseteq Stages
    /\ ToSet(Lexical) = Stages /\ Lexical \in Seq(Stages) /\ Len(Lexical) = Cardinality(Stages)
    /\ MaxPack \in Nat /\ MaxRegistry \in Nat \ {0}

(* shared/pipeline.yaml orders its stages without a cycle, and the name of a stage
   of ward or sispis starts with the protocol's. *)
ASSUME ManifestAssumption ==
    /\ \A S \in (SUBSET Stages) \ {{}} : \E s \in S : OrderAfter[s] \intersect S = {}
    /\ \A s \in Stages : Owner[s] \in NonSuppressible => Prefix[s] \in NonSuppressible

VARIABLES
    phase,           \* how far resolve() has come
    request,         \* the normalised TaskRequest
    pack,            \* the guards of the compiled artifact, when it was read
    registry,        \* the version of the provider's workflow registry
    eligible,        \* the workflow version eligibility was computed on
    adjustments,     \* routing_adjustments collected so far
    cohort,          \* the experiment arm
    plan,            \* the provider's workflow plan
    kernel,          \* the ordered kernel
    bundle           \* {} or the RuntimeBundle returned

resolutionVars == <<phase, request, pack, registry, eligible, adjustments, cohort, plan, kernel, bundle>>

-----------------------------------------------------------------------------
(* resolver/components.py and resolver/task_kernel.py. *)

(* expand: aliases stand for their stages. *)
Expand(names) ==
    {n \in names : n \notin DOMAIN Aliases}
        \union UNION {Aliases[n] : n \in names \intersect DOMAIN Aliases}

(* The profiles list stages of the manifest. *)
ASSUME ProfileAssumption == \A shape \in Shapes : Expand(ToSet(Profiles[shape])) \subseteq Stages

(* Kahn's algorithm with a sorted ready list: the least ranked stage whose
   active predecessors are all placed comes next. *)
Ready(active, done) ==
    {s \in active \ ToSet(done) : (OrderAfter[s] \intersect active) \ {s} \subseteq ToSet(done)}

Place(active, rank, done) ==
    IF Ready(active, done) = {} THEN done
    ELSE Append(done, CHOOSE s \in Ready(active, done) :
                          \A t \in Ready(active, done) : rank[s] <= rank[t])

OrderBy(active, rank) ==
    FoldLeft(LAMBDA done, i : Place(active, rank, done), <<>>,
             [i \in 1..Cardinality(active) |-> i])

Position(seq, s) == CHOOSE i \in DOMAIN seq : seq[i] = s

CanonicalStageOrder == OrderBy(Stages, [s \in Stages |-> Position(Lexical, s)])

OrderKernel(active) == OrderBy(active, [s \in active |-> Position(CanonicalStageOrder, s)])

(* requires_closure: repeated until nothing is added. *)
WithRequired(stages) == stages \union UNION {Requires[s] : s \in stages}

RequiresClosure(active) ==
    FoldLeft(LAMBDA stages, i : WithRequired(stages), active, [i \in 1..Cardinality(Stages) |-> i])

RoutesOf(types, disposition, adjs) ==
    {a.route : a \in {b \in adjs : b.type \in types /\ b.disposition = disposition}}

(* The stages of the profile that no adjustment suppresses, by name or prefix. *)
SelectedStages(shape, adjs) ==
    LET routes == RoutesOf({"stage"}, "suppress", adjs)
    IN {s \in Expand(ToSet(Profiles[shape])) : {s, Prefix[s]} \intersect routes = {}}

FaultyMergedStages(selected, required) == RequiresClosure(selected \union Expand(required)) \ required

(* Suppression comes first, what workflows require or enhance is added back. *)
MergedStages(selected, required) ==
    RequiresClosure(RequiresClosure(selected) \union Expand(required))

-----------------------------------------------------------------------------
(* Routing: runtime_contract/routing.py and runtime_contract/advisor.py. *)

(* _validate_profile: the schema, the artifact's place, its hash, its deployment
   receipt, its lifetime and who may share it. *)
ProfileValid(p) == p.valid

(* applicable_adjustments: an agent's own profile needs its exact identity, a
   shared one adoption by the request.  resolve() names no authorised target
   applications, so a cross-application profile never applies. *)
Adoptable(p, adopted) ==
    CASE p.scope = "agent_private" -> p.matches = "agent"
      [] p.scope = "application_shared" ->
            p.matches \in {"agent", "application"} /\ p.id \in adopted
      [] OTHER -> FALSE

ApplicableAdjustments(profiles, adopted) ==
    UNION {p.adjustments : p \in {q \in profiles : Adoptable(q, adopted)}}

(* What validate_experiment_plan lets through: whether the task's context meets
   the plan's eligibility, whether the task is held out, and whether the canary
   fraction is zero. *)
Experiments == [eligible : BOOLEAN, holdout : BOOLEAN, zero : BOOLEAN]

(* assign_experiment_cohort; drawn is the stable hash falling below the canary
   fraction, which a fraction of zero does not consult. *)
AssignCohort(experiment, drawn) ==
    CASE ~experiment.eligible -> "none"
      [] experiment.eligible /\ experiment.holdout -> "holdout"
      [] experiment.eligible /\ ~experiment.holdout ->
            IF experiment.zero \/ drawn THEN "treatment" ELSE "control"

(* validate_adaptive_adjustment. *)
Adaptive(a) ==
    /\ a.disposition # "activate"
    /\ a.type = "stage" /\ a.disposition = "suppress" =>
          /\ a.route \notin NonSuppressible
          /\ a.route \in Stages => Owner[a.route] \notin NonSuppressible
    /\ a.type = "guard" /\ a.disposition = "suppress" =>
          a.route \notin {g.key : g \in AlwaysOn}

(* The host-computed choices an advisor may express preferences over. *)
EligibleRoutes(shape, guards) ==
    {<<"stage", s>> : s \in Expand(ToSet(Profiles[shape]))}
        \union {<<"guard", g.key>> : g \in AlwaysOn \union guards}

(* validate_advice_transaction and bounded_adjustments: stale or cross-request
   advice is refused whole, and so is advice with any ineligible preference. *)
AdviceAccepted(advice, choices) ==
    \/ advice.status = "unavailable" /\ advice.adjustments = {}
    \/ /\ advice.bound
       /\ \A a \in advice.adjustments :
             a.disposition \in {"prefer", "suppress"} /\ <<a.type, a.route>> \in choices
       /\ advice.status \in {"ok", "unavailable"} \/ advice.adjustments = {}

-----------------------------------------------------------------------------
(* WorkflowResolution: whether a registry is installed, whether any workflow of
   it is active for the task, of which version, and what they require. *)
NoPlan == [available |-> FALSE, active |-> FALSE, version |-> 0, required |-> {}]

(* TaskRequest.  canaries is what the task id draws from the canary hashes;
   workflows says that the task names a domain, phase or subject. *)
Requests ==
    [shape : Shapes, facets : Facets,
     canaries : SUBSET {g.key : g \in {h \in Artifact : h.status = "canary"}},
     workflows : BOOLEAN, adopted : SUBSET {p.id : p \in RoutingProfiles}]
NoRequest == [shape |-> "none"]

ResolutionInit ==
    /\ phase = "request" /\ request = NoRequest /\ pack = {} /\ registry = 1
    /\ eligible = 0 /\ adjustments = {} /\ cohort = "none" /\ plan = NoPlan
    /\ kernel = <<>> /\ bundle = {}

Refuse(vars) == phase' = "refused" /\ UNCHANGED vars

(* The request is normalised. *)
ReceiveRequest ==
    /\ phase = "request"
    /\ request' \in Requests
    /\ phase' = "profiles"
    /\ UNCHANGED <<pack, registry, eligible, adjustments, cohort, plan, kernel, bundle>>

(* load_routing_profiles and applicable_adjustments: no deployed profile, or
   valid ones; a deployed one that is expired, stale or not bound to its
   receipt refuses the task. *)
LoadRoutingProfiles ==
    /\ phase = "profiles"
    /\ \/ \E profiles \in {{}} \union {{p} : p \in RoutingProfiles} :
             /\ \A p \in profiles : ProfileValid(p)
             /\ adjustments' = ApplicableAdjustments(profiles, request.adopted)
             /\ phase' = "pack"
             /\ UNCHANGED <<request, pack, registry, eligible, cohort, plan, kernel, bundle>>
       \/ /\ \E p \in RoutingProfiles : ~ProfileValid(p)
          /\ Refuse(<<request, pack, registry, eligible, adjustments, cohort, plan, kernel, bundle>>)

(* load_guard_pack: an absent artifact leaves the kernel's rules alone, a
   present one is read whole or refused. *)
LoadGuardPack ==
    /\ phase = "pack"
    /\ \/ \E guards \in UNION {kSubset(n, Artifact) : n \in 0..MaxPack} :
             /\ pack' = guards
             /\ phase' = "eligibility"
             /\ UNCHANGED <<request, registry, eligible, adjustments, cohort, plan, kernel, bundle>>
       \/ Refuse(<<request, pack, registry, eligible, adjustments, cohort, plan, kernel, bundle>>)

(* eligible_routes of the workflow provider. *)
AskEligibility ==
    /\ phase = "eligibility"
    /\ eligible' = registry
    /\ phase' = "cohort"
    /\ UNCHANGED <<request, pack, registry, adjustments, cohort, plan, kernel, bundle>>

(* The provider's registry is replaced while the task is being resolved. *)
RegistryUpdated ==
    /\ phase \in {"eligibility", "cohort", "advice", "workflows"}
    /\ registry < MaxRegistry
    /\ registry' = registry + 1
    /\ UNCHANGED <<phase, request, pack, eligible, adjustments, cohort, plan, kernel, bundle>>

(* The candidate adjustment is applied in the treatment arm only. *)
CandidateOf(arm) == IF arm = "treatment" THEN {Candidate} ELSE {}

(* The host's experiment plan, if the request carries one; a plan that is not
   valid refuses the task. *)
AssignExperiment ==
    /\ phase = "cohort"
    /\ \/ /\ \/ cohort' = "none"
             \/ \E experiment \in Experiments, drawn \in BOOLEAN :
                   cohort' = AssignCohort(experiment, drawn)
          /\ adjustments' = adjustments \union CandidateOf(cohort')
          /\ phase' = "advice"
          /\ UNCHANGED <<request, pack, registry, eligible, plan, kernel, bundle>>
       \/ Refuse(<<request, pack, registry, eligible, adjustments, cohort, plan, kernel, bundle>>)

(* resolve_task_advice: without an advisor the collected adjustments are still
   validated, with one its preferences are validated with them. *)
ResolveAdvice ==
    /\ phase = "advice"
    /\ \E advices \in {{}} \union {{a} : a \in Advices} :
          LET proposed == adjustments \union UNION {a.adjustments : a \in advices}
          IN \/ /\ \A a \in advices : AdviceAccepted(a, EligibleRoutes(request.shape, pack))
                /\ \A a \in proposed : Adaptive(a)
                /\ adjustments' = proposed
                /\ phase' = "workflows"
                /\ UNCHANGED <<request, pack, registry, eligible, cohort, plan, kernel, bundle>>
             \/ /\ \/ \E a \in advices : ~AdviceAccepted(a, EligibleRoutes(request.shape, pack))
                   \/ \E a \in proposed : ~Adaptive(a)
                /\ Refuse(<<request, pack, registry, eligible, adjustments, cohort, plan, kernel, bundle>>)

FaultyPlanAccepted(p) == request.workflows => p.available

(* resolve_provider_workflows and resolve_prepared_task_workflows: an active
   workflow must have the version eligibility was computed on, and a task that
   names workflow context needs an installed registry. *)
PlanAccepted(p) ==
    /\ p.active => p.version = eligible
    /\ request.workflows => p.available

(* What the provider may answer: only active workflows require anything. *)
Plans ==
    {NoPlan, [NoPlan EXCEPT !.available = TRUE, !.version = registry]}
        \union {[available |-> TRUE, active |-> TRUE, version |-> registry, required |-> required] :
                    required \in {{}} \union {{c} : c \in Components}}

PlanWorkflows ==
    /\ phase = "workflows"
    /\ \E answer \in Plans :
             \/ /\ PlanAccepted(answer)
                /\ plan' = answer
                /\ phase' = "kernel"
                /\ UNCHANGED <<request, pack, registry, eligible, adjustments, cohort, kernel, bundle>>
             \/ /\ ~PlanAccepted(answer)
                /\ Refuse(<<request, pack, registry, eligible, adjustments, cohort, plan, kernel, bundle>>)

(* compose_task_kernel: a workflow that requires a component the manifest does
   not know refuses the task when the stage's instructions are looked up. *)
ComposeKernel ==
    /\ phase = "kernel"
    /\ \/ /\ Expand(plan.required) \subseteq Stages
          /\ kernel' = OrderKernel(MergedStages(SelectedStages(request.shape, adjustments), plan.required))
          /\ phase' = "guards"
          /\ UNCHANGED <<request, pack, registry, eligible, adjustments, cohort, plan, bundle>>
       \/ /\ ~(Expand(plan.required) \subseteq Stages)
          /\ Refuse(<<request, pack, registry, eligible, adjustments, cohort, plan, kernel, bundle>>)

GuardRoutes(disposition) == RoutesOf({"guard"}, disposition, adjustments)

(* validate_compatibility: only with a workflow registry are the versions of
   registry, event contract and guard pack compared. *)
MayBeIncompatible == plan.available

(* EffectivePolicy: what the policy hash pins. *)
EffectivePolicy(active) == [kernel |-> kernel, guards |-> active, workflows |-> plan]

(* The RuntimeBundle holds the policy and the rollout decisions. *)
RuntimeBundle(active, routes) ==
    LET policy == EffectivePolicy(active)
    IN [kernel |-> policy.kernel, guards |-> policy.guards, workflows |-> policy.workflows,
        assignments |-> [g \in AlwaysOn \union pack |->
                             Assignment(g, request.facets, request.canaries, routes)]]

(* resolve_task_guards, and the bundle that resolve() returns. *)
CompileGuards ==
    /\ phase = "guards"
    /\ LET routes == GuardRoutes("suppress")
           applicable == ApplicableGuards(pack, request.facets, request.canaries, routes)
           compiled == CompileTaskGuards(AlwaysOn \union applicable, GuardRoutes("prefer"))
       IN \/ /\ \E active \in compiled : bundle' = {RuntimeBundle(active, routes)}
             /\ phase' = "resolved"
             /\ UNCHANGED <<request, pack, registry, eligible, adjustments, cohort, plan, kernel>>
          \/ /\ compiled = {} \/ MayBeIncompatible
             /\ Refuse(<<request, pack, registry, eligible, adjustments, cohort, plan, kernel, bundle>>)

ResolutionNext ==
    \/ ReceiveRequest \/ LoadRoutingProfiles \/ LoadGuardPack \/ AskEligibility
    \/ RegistryUpdated \/ AssignExperiment \/ ResolveAdvice \/ PlanWorkflows
    \/ ComposeKernel \/ CompileGuards

ResolutionSpec == ResolutionInit /\ [][ResolutionNext]_resolutionVars

-----------------------------------------------------------------------------
(* The kernel is ordered as the manifest says and closed under its requirements:
   every stage once, after each of its active predecessors, nothing missing that
   an active stage requires, and nothing in it but what some kept stage of the
   profile or some workflow requirement leads to.  The reference is the least
   closed set, not the code's iteration. *)
KernelFollowsManifest ==
    \A b \in bundle :
        LET active == ToSet(b.kernel)
            base == SelectedStages(request.shape, adjustments) \union Expand(b.workflows.required)
            Closed(S) == \A s \in S : Requires[s] \subseteq S
        IN /\ Len(b.kernel) = Cardinality(active)
           /\ \A i, j \in DOMAIN b.kernel : b.kernel[i] \in OrderAfter[b.kernel[j]] => i < j
           /\ base \subseteq active /\ Closed(active)
           /\ \A S \in SUBSET active : base \subseteq S /\ Closed(S) => S = active

(* No routing profile, experiment arm or advice removes the safety and output
   stages from a profile that lists them, and none switches on a stage that
   neither the profile nor a workflow leads to. *)
AdaptationBounded ==
    \A b \in bundle :
        LET static == Expand(ToSet(Profiles[request.shape]))
        IN /\ {s \in static : Owner[s] \in NonSuppressible} \subseteq ToSet(b.kernel)
           /\ ToSet(b.kernel) \subseteq RequiresClosure(static \union Expand(b.workflows.required))

(* The guards of a bundle never contradict one another: one version per family,
   one guard per enforcement contract, no declared conflict between two of them,
   no guard beside one that supersedes it, and every one of them in scope.  What
   looks like such a reference is the key or id of another guard of the task. *)
GuardsCoherent ==
    \A b \in bundle : \A g, h \in b.guards :
        /\ ScopeMatches(g, request.facets)
        /\ g # h =>
              /\ g.family # h.family /\ g.ekey # h.ekey
              /\ h.key \notin g.conflicts \union g.supersedes
              /\ \A ref \in {h.id, h.family} \intersect (g.conflicts \union g.supersedes) :
                    \E other \in (AlwaysOn \union pack) \ {h} : ref \in {other.key, other.id}

(* Optional guards never push the pack over its token budget: what is over it
   is the kernel's rules alone. *)
BudgetHolds ==
    \A b \in bundle : b.guards \subseteq AlwaysOn \/ Cost(b.guards) <= TokenBudget

(* A rule of the runtime kernel is missing from a bundle only when a guard of
   the compiled artifact supersedes it by name (that guard may itself be over
   the budget: supersession is settled before the budget is). *)
KernelRulesKeptUnlessSuperseded ==
    \A b \in bundle : \A g \in AlwaysOn \ b.guards :
        \E h \in pack : {g.key, g.id, g.family} \intersect h.supersedes # {}

(* What is reported as an experiment's exposure is what runs: a guard of the
   artifact that is active is reported "treatment", and one that was suppressed,
   out of scope or left to the control group is not active. *)
ActiveIsTreatment ==
    \A b \in bundle : \A g \in b.guards \ AlwaysOn : b.assignments[g] = "treatment"

(* The plan that is pinned is the one preferences were computed on, although the
   registry may have been replaced between the two questions to the provider. *)
PinnedPlanIsEligible ==
    \A b \in bundle : b.workflows.active => b.workflows.version = eligible

(* Types of the resolution's state, and the bounds of the compositional phases:
   a kernel never lists more stages than the manifest has, a bundle exists
   exactly when the call returned one, and no guard in it comes from anywhere
   but the kernel file and the artifact. *)
ResolutionTypeOK ==
    /\ phase \in {"request", "profiles", "pack", "eligibility", "cohort", "advice",
                  "workflows", "kernel", "guards", "resolved", "refused"}
    /\ request.shape \in Shapes \union {"none"}
    /\ pack \subseteq Artifact /\ Cardinality(pack) <= MaxPack
    /\ registry \in 1..MaxRegistry /\ eligible \in 0..registry
    /\ cohort \in {"none", "holdout", "control", "treatment"}
    /\ ToSet(kernel) \subseteq Stages /\ Len(kernel) <= Cardinality(Stages)
    /\ (phase = "resolved") = (bundle # {})
    /\ \A b \in bundle : b.guards \subseteq AlwaysOn \union pack
=============================================================================
