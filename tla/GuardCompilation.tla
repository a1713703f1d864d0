--------------------------- MODULE GuardCompilation ---------------------------
(* What resolver/guards.py and resolver/task_guards.py make of the compiled    *)
(* guard pack for one task: which guards apply, which of them survive family   *)
(* versions, duplicate contracts, supersession and conflicts, which fit the    *)
(* token budget, and what is reported about each of them.                      *)
(*                                                                             *)
(* A guard is a record.  id, key and family are names; a reference in          *)
(* "supersedes" or "conflicts" may use any of the three.  scope gives for each *)
(* restricted dimension (domains, stateworks, task shapes, models, harnesses,  *)
(* trigger) the values the guard is for; the texts of rules and the hashes     *)
(* over them are left out.                                                     *)
EXTENDS Integers, FiniteSets, SequencesExt

CONSTANTS
    AlwaysOn,        \* the rules of shared/runtime-kernel.yaml, as guards
    Artifact,        \* the guards a compiled-guard-pack.json may hold
    KeyRank,         \* the alphabetical order of the guards' keys
    TokenBudget      \* token_budget of compile_task_guards

Guards == AlwaysOn \union Artifact

(* Keys and ids identify guards and keys have one order; the rules of the kernel
   file are active, unrestricted, declare no relations, and each is a family and
   an enforcement contract of its own. *)
ASSUME GuardAssumption ==
    /\ TokenBudget \in Nat /\ IsFiniteSet(Guards)
    /\ \A g, h \in Guards : (g.key = h.key \/ g.id = h.id) => g = h
    /\ \A g, h \in Guards : KeyRank[g.key] = KeyRank[h.key] => g = h
    /\ \A g, h \in AlwaysOn : g.ekey = h.ekey => g = h
    /\ \A g \in Guards : KeyRank[g.key] \in Nat /\ g.cost \in Nat /\ g.priority \in Nat
    /\ \A g \in AlwaysOn :
          /\ g.status = "active" /\ g.family = g.id
          /\ g.supersedes = {} /\ g.conflicts = {}
          /\ \A d \in DOMAIN g.scope : g.scope[d] = {}

(* mandatory_ids: resolve_task_guards names the ids of the kernel's rules. *)
Mandatory == {g.id : g \in AlwaysOn}

(* nested_guard_scope with the comparisons of applicable_guards: a restriction
   on a dimension the task says nothing about excludes the guard. *)
ScopeMatches(g, facets) ==
    \A d \in DOMAIN g.scope : g.scope[d] = {} \/ g.scope[d] \intersect facets[d] # {}

(* canary_assigned: the stable hash of guard and task is the set of canaries
   that this task draws. *)
CanaryAssigned(g, canaries) == g.key \in canaries

Deployed(g, canaries) ==
    \/ g.status = "active"
    \/ g.status = "canary" /\ CanaryAssigned(g, canaries)

(* The routes "suppress" adjustments name match a guard by key, id or family. *)
Suppressed(g, routes) == {g.key, g.id, g.family} \intersect routes # {}

ApplicableGuards(pack, facets, canaries, routes) ==
    {g \in pack : ~Suppressed(g, routes) /\ ScopeMatches(g, facets) /\ Deployed(g, canaries)}

-----------------------------------------------------------------------------
(* compile_task_guards, one operator per pass. *)

(* _guard_ref: a key, else an id, else a family with a single member; the set
   holds the key it stands for, or nothing. *)
GuardRef(ref, guards) ==
    LET byKey == {g \in guards : g.key = ref}
        byId == {g \in guards : g.id = ref}
        kin == {g \in guards : g.family = ref}
    IN CASE byKey # {} -> {g.key : g \in byKey}
         [] byKey = {} /\ byId # {} -> {g.key : g \in byId}
         [] byKey = {} /\ byId = {} ->
               IF Cardinality(kin) = 1 THEN {g.key : g \in kin} ELSE {}

Targets(refs, guards) == UNION {GuardRef(ref, guards) : ref \in refs}

FamilyMembers(g, guards) == {h \in guards : h.family = g.family}

(* A family with several versions keeps those no other member supersedes. *)
Survivors(members) ==
    IF Cardinality(members) = 1 THEN members
    ELSE {g \in members : g.key \notin Targets(UNION {h.supersedes : h \in members}, members)}

FamiliesResolved(guards) ==
    \A g \in guards : Cardinality(Survivors(FamilyMembers(g, guards))) = 1

OnePerFamily(guards) == UNION {Survivors(FamilyMembers(g, guards)) : g \in guards}

(* The order of the deduplication: kernel rules, then priority, then key. *)
Duty(g) == IF g.id \in Mandatory THEN 0 ELSE 1

Outranks(g, h) ==
    \/ Duty(g) < Duty(h)
    \/ Duty(g) = Duty(h) /\ g.priority < h.priority
    \/ Duty(g) = Duty(h) /\ g.priority = h.priority /\ KeyRank[g.key] < KeyRank[h.key]

(* One guard per enforcement key. *)
Deduplicated(guards) ==
    {g \in guards : \A h \in guards \ {g} : h.ekey = g.ekey => Outranks(g, h)}

(* Every supersedes reference names another guard that is still there, and the
   relation has no cycle (visit): no set of guards each supersedes one of it. *)
SupersessionSound(guards) ==
    /\ \A g \in guards : \A ref \in g.supersedes :
          GuardRef(ref, guards) # {} /\ g.key \notin GuardRef(ref, guards)
    /\ \A S \in (SUBSET guards) \ {{}} :
          \E g \in S : Targets(g.supersedes, guards) \intersect {h.key : h \in S} = {}

Unsuperseded(guards) ==
    {g \in guards : g.key \notin Targets(UNION {h.supersedes : h \in guards}, guards)}

FaultyConflictFree(guards) ==
    \A g \in guards : \A ref \in g.conflicts : GuardRef(ref, guards) # {}

(* Every conflicts_with reference must resolve, and none may name another
   guard of the task. *)
ConflictFree(guards) ==
    \A g \in guards : \A ref \in g.conflicts :
        GuardRef(ref, guards) # {} /\ GuardRef(ref, guards) \subseteq {g.key}

(* rank: preferred by routing, then priority, then key. *)
RanksBefore(g, h, preferred) ==
    LET later(x) == IF {x.key, x.id} \intersect preferred # {} THEN 0 ELSE 1
    IN \/ later(g) < later(h)
       \/ later(g) = later(h) /\ g.priority < h.priority
       \/ later(g) = later(h) /\ g.priority = h.priority /\ KeyRank[g.key] < KeyRank[h.key]

Cost(guards) == FoldSet(LAMBDA g, sum : g.cost + sum, 0, guards)

(* Kernel rules always; of the others, in rank order, each that fits beside the
   kernel rules and those admitted before it.  RanksBefore is a strict order, so
   the set of the admissions has one element. *)
WithinBudget(guards, preferred) ==
    LET kernel == {g \in guards : g.id \in Mandatory}
        admitted(active, g) ==
            {h \in active : h.id \in Mandatory \/ RanksBefore(h, g, preferred)}
    IN {active \in SUBSET guards :
           /\ kernel \subseteq active
           /\ \A g \in guards \ kernel :
                 g \in active <=> Cost(admitted(active, g)) + g.cost <= TokenBudget}

(* compile_task_guards over the always-on and applicable guards: nothing when it
   raises, else the active guards. *)
CompileTaskGuards(guards, preferred) ==
    LET families == OnePerFamily(guards)
        distinct == Deduplicated(families)
        remaining == Unsuperseded(distinct)
        legal == FamiliesResolved(guards) /\ SupersessionSound(distinct) /\ ConflictFree(remaining)
    IN IF legal THEN WithinBudget(remaining, preferred) ELSE {}

-----------------------------------------------------------------------------

(* The rollout decision reported for a guard of the pack.  Suppression by
   family is not looked at here. *)
Assignment(g, facets, canaries, routes) ==
    IF g.key \in routes \/ g.id \in routes THEN "ineligible"
    ELSE IF g.status \notin {"active", "canary"} \/ ~ScopeMatches(g, facets) THEN "ineligible"
    ELSE IF g.status = "canary" /\ ~CanaryAssigned(g, canaries) THEN "control"
    ELSE "treatment"
=============================================================================
