--------------------------- MODULE ComponentLifecycle ---------------------------
(***************************************************************************)
(* The component lifecycle of a session under an external behavior         *)
(* authority (DigitalPsychology, DP): which pipeline stages are active,    *)
(* the component overlay that DP projects onto them, the target-scoped     *)
(* leases in that overlay, and the adapter through which DP prepares,      *)
(* applies, synchronizes and rolls back.                                   *)
(*                                                                         *)
(* Stages, their owners, requirements and frequencies come from            *)
(* shared/pipeline.yaml, where a stage requires at most one other.  What a *)
(* projection says besides component modes and leases (focus, budgets,     *)
(* strategies) is carried in `mode' alone; the other controls are leased   *)
(* and read in the same way.  Of the counts only the ones of per_task      *)
(* stages are ever read.                                                   *)
(***************************************************************************)
EXTENDS Naturals, Integers, Sequences, FiniteSets

CONSTANTS
    Stages,         \* stages of the bundle's kernel
    OwnerOf,        \* the component a stage belongs to
    Requires,       \* the stage it requires, or "none"
    Frequency,      \* how long its activation lasts
    TaskStart,      \* stages whose task_start predicate matches this task
    Components,     \* COMPONENT_IDS
    AllowedModes,   \* COMPONENT_ALLOWED_MODES
    BaselineMode,   \* COMPONENT_BASELINE_MODES
    Projections,    \* the projections DP may offer
    Batches,        \* the directive batches DP may offer
    Segments,       \* number of execution segments
    MaxIndex        \* bound: host actions

None == "none"
HardFloor == "ward"
Floor == "mandatory"
Transient == {"reset", "reopen", "recovery"}
Modes == UNION {AllowedModes[c] : c \in Components}

ASSUME LifecycleAssumption ==
    /\ None \notin Stages
    /\ OwnerOf \in [Stages -> Components]
    /\ Requires \in [Stages -> Stages \cup {None}]
    /\ Frequency \in [Stages -> {"per_task", "per_action", "per_artifact",
                                 "per_edit", "per_response"}]
    /\ TaskStart \subseteq Stages
    /\ BaselineMode \in [Components -> Modes]
    /\ HardFloor \in Components /\ AllowedModes[HardFloor] = {Floor}
    /\ Segments \in Nat \ {0}
    /\ MaxIndex \in Nat
    /\ \A s \in Stages : OwnerOf[s] # HardFloor =>
          BaselineMode[OwnerOf[s]] \in {"normal", "elevated"}
    /\ \A p \in Projections :
          /\ p.index \in Nat
          /\ IsFiniteSet(p.leases)
          /\ \A l \in p.leases : {l.id, l.expires, l.revision} \subseteq Nat

(* A lease replaces the value of one target, a component or "mode", until
   expires; previous is what DP says the target held before. *)
Overlay(p) == [revision |-> p.revision, mode |-> p.mode, modes |-> p.modes,
               leases |-> p.leases]
NoOverlay == [revision |-> -1, mode |-> None, modes |-> <<>>, leases |-> {}]
NoProjection == [revision |-> -1, index |-> 0, mode |-> None, modes |-> <<>>,
                 leases |-> {}]

(* What capture_state captures. *)
Lifecycle == [task : SUBSET Stages, segment : SUBSET Stages,
              action : SUBSET Stages, artifact : SUBSET Stages,
              response : SUBSET Stages, counted : SUBSET Stages,
              startup : SUBSET Stages]
Idle == [task |-> {}, segment |-> {}, action |-> {}, artifact |-> {},
         response |-> {}, counted |-> {}, startup |-> {}]
NoTransition == [overlay |-> NoOverlay, previous |-> NoOverlay, state |-> Idle]
NoBatch == [directives |-> <<>>, prior |-> NoProjection, open |-> FALSE]

VARIABLES
    bound,        \* the external authority has been bound
    lc,           \* LifecycleController
    index,        \* LifecycleController.action_index
    overlay,      \* LifecycleController._component_overlay
    projection,   \* BehaviorState.external_projection
    active,       \* LifecycleWorkflowState.active_lifecycle, what the model sees
    startup,      \* external_startup_lifecycle and its captured state
    transition,   \* last_component_overlay_transition
    batch,        \* the directive batch DP holds
    segment,      \* current_segment_index
    status        \* status of the current segment

adapter == <<bound, startup, transition, batch>>
plan == <<segment, status>>
vars == <<bound, lc, index, overlay, projection, active, startup, transition,
          batch, segment, status>>
-----------------------------------------------------------------------------
(* effective_target_value: the newest live lease decides; when all leases of
   the target have expired, the value before the oldest of them. *)
Newer(l, m) == \/ l.revision > m.revision
               \/ l.revision = m.revision /\ l.id >= m.id
Leased(o, i, target, unleased) ==
    LET leases == {l \in o.leases : l.target = target}
        live == {l \in leases : i <= l.expires}
    IN IF leases = {} THEN unleased
       ELSE IF live # {}
            THEN (CHOOSE l \in live : \A m \in live : Newer(l, m)).applied
            ELSE (CHOOSE l \in leases : \A m \in leases : Newer(m, l)).previous

ComponentMode(o, i, c) == Leased(o, i, c, o.modes[c])

(* The closure of a stage under Requires. *)
Closed(S) == \A s \in S : Requires[s] \in S \cup {None}
Needs == [s \in Stages |->
            {r \in Stages : \A S \in SUBSET Stages : s \in S /\ Closed(S) => r \in S}]
RequiredByHardFloor == UNION {Needs[w] : w \in {x \in Stages : OwnerOf[x] = HardFloor}}

StagePermitted(o, i, startStages, s) ==
    \/ o = NoOverlay
    \/ OwnerOf[s] = HardFloor
    \/ s \in RequiredByHardFloor
    \/ LET mode == ComponentMode(o, i, OwnerOf[s])
       IN /\ mode # "off"
          /\ mode = "passive" => s \in startStages

InUse(l) == l.task \cup l.segment \cup l.action \cup l.artifact \cup l.response
Active(l, o, i) == {s \in InUse(l) : StagePermitted(o, i, l.startup, s)}

(* activate: the stage and, first, what it requires and is not active yet.  A
   requirement that is not permitted prevents the stage; one that is permitted
   and fails itself does not.  So r is reached from s over stages that are not
   prevented, of which only s may be active already. *)
Pulled(l, o, i, s) ==
    LET permitted(r) == r = None \/ StagePermitted(o, i, l.startup, r)
        already == Active(l, o, i)
    IN {r \in Needs[s] : \A x \in Needs[s] : r \in Needs[x] =>
           /\ permitted(x) /\ permitted(Requires[x])
           /\ x = s \/ x \notin already}

Added(l, fresh) ==
    LET of(frequencies) == {s \in fresh : Frequency[s] \in frequencies}
    IN [l EXCEPT !.task = @ \cup (of({"per_task"}) \ l.counted),
                 !.counted = @ \cup of({"per_task"}),
                 !.action = @ \cup of({"per_action"}),
                 !.artifact = @ \cup of({"per_artifact", "per_edit"}),
                 !.response = @ \cup of({"per_response"})]

(* Several stages one after the other: where a later one reaches what an earlier
   one activated, the rest of the way is active too. *)
ActivateAll(l, o, i, S) == Added(l, UNION {Pulled(l, o, i, s) : s \in S \cap Stages})
Activate(l, o, i, s) == ActivateAll(l, o, i, {s})

OnTaskStart(l, o, i) == ActivateAll(l, o, i, TaskStart)
-----------------------------------------------------------------------------
(* initialize_runtime_session: a new controller, task_start dispatched. *)
Started == OnTaskStart(Idle, NoOverlay, 0)

TypeOK ==
    /\ bound \in BOOLEAN
    /\ lc \in Lifecycle
    /\ index \in 0..MaxIndex
    /\ projection \in Projections \cup {NoProjection}
    /\ overlay \in {Overlay(p) : p \in Projections} \cup {NoOverlay}
    /\ active \subseteq Stages
    /\ startup \in [active : SUBSET Stages, state : Lifecycle]
    /\ transition.state \in Lifecycle
    /\ batch.prior \in Projections \cup {NoProjection}
    /\ segment \in 0..(Segments - 1)
    /\ status \in {"ACTIVE", "BLOCKED", "COMPLETED"}

Fresh ==
    /\ bound' = FALSE
    /\ lc' = Started
    /\ index' = 0
    /\ overlay' = NoOverlay
    /\ projection' = NoProjection
    /\ active' = InUse(Started)
    /\ startup' = [active |-> {}, state |-> Idle]
    /\ transition' = NoTransition
    /\ batch' = NoBatch

Init ==
    /\ bound = FALSE
    /\ lc = Started
    /\ index = 0
    /\ overlay = NoOverlay
    /\ projection = NoProjection
    /\ active = InUse(Started)
    /\ startup = [active |-> {}, state |-> Idle]
    /\ transition = NoTransition
    /\ batch = NoBatch
    /\ segment = 0
    /\ status = "ACTIVE"

(* A resume builds a new controller: nothing of the overlay is journalled. *)
Restart ==
    /\ Fresh
    /\ UNCHANGED segment
    /\ status' = IF status = "BLOCKED" THEN "ACTIVE" ELSE status

(* enable_external_behavior_authority, called by the adapter's constructor. *)
BindAuthority ==
    /\ ~bound
    /\ bound' = TRUE
    /\ startup' = [active |-> active, state |-> lc]
    /\ UNCHANGED <<lc, index, overlay, projection, active, transition, batch,
                   plan>>
-----------------------------------------------------------------------------
(* build_task_behavior_contract and _validate_task_behavior_floor: for the
   components of the bundle neither a mode nor any value of a lease may be
   weaker than the baseline. *)
Suppressed(c) ==
    IF c \notin {OwnerOf[s] : s \in Stages} THEN {}
    ELSE CASE BaselineMode[c] \in {"normal", "elevated"} -> {"off", "passive"}
           [] BaselineMode[c] = "passive" -> {"off"}
           [] OTHER -> {}
FaultyKeepsFloor(p) ==
    /\ \A c \in Components : p.modes[c] \notin Suppressed(c)
    /\ \A l \in p.leases :
          l.target \in Components => l.applied \notin Suppressed(l.target)
KeepsFloor(p) ==
    /\ \A c \in Components : p.modes[c] \notin Suppressed(c)
    /\ \A l \in p.leases :
          l.target \in Components =>
             {l.applied, l.previous} \cap Suppressed(l.target) = {}

(* ExternalBehaviorProjection.__post_init__, AppliedControlLease and
   ComponentOverlay: every component has an allowed mode, no hard floor is
   touched, no lease is from the future. *)
WellFormed(p) ==
    /\ \A c \in Components : p.modes[c] \in AllowedModes[c]
    /\ \A l \in p.leases :
          /\ l.revision <= p.revision
          /\ l.target \in Components =>
                {l.applied, l.previous} \subseteq AllowedModes[l.target]

Larger(i, j) == IF i >= j THEN i ELSE j

(* The stage that a reset of the component runs again. *)
FirstStage(c) == CASE c = "owl" -> "owl"
                   [] c = "anchor" -> "anchor_open"
                   [] c = "dox" -> "dox_load"
                   [] OTHER -> None

(* The stages of shared/pipeline.yaml require one another without cycles, no
   longer than they last themselves, and of a component that may be reset only
   its first stage is required from outside. *)
Resettable == {"owl"} \cup {c \in Components : AllowedModes[c] \cap Transient # {}}
ASSUME PipelineAssumption ==
    /\ \A s, r \in Stages : s \in Needs[r] /\ r \in Needs[s] => s = r
    /\ \A s \in Stages : LET r == Requires[s] IN r # None =>
          /\ Frequency[r] \in {"per_task", Frequency[s]}
          /\ OwnerOf[r] \in Resettable \ {OwnerOf[s]} => r = FirstStage(OwnerOf[r])

(* _reset_component: the component's stages are forgotten and its first one,
   if it has one, runs again.  A first stage requires first stages only, so
   several components may be reset one after the other or at once. *)
Reset(l, o, i, C) ==
    LET own == {s \in Stages : OwnerOf[s] \in C}
    IN ActivateAll([l EXCEPT !.task = @ \ own, !.segment = @ \ own,
                             !.action = @ \ own, !.artifact = @ \ own,
                             !.response = @ \ own, !.counted = @ \ own],
                   o, i, {FirstStage(c) : c \in C})

(* apply_component_overlay: a component that enters a transient mode is reset,
   one that stays in one is not. *)
Applied(o, i) ==
    LET entering == {c \in Components :
                        /\ o.modes[c] \in Transient
                        /\ overlay = NoOverlay \/ overlay.modes[c] \notin Transient}
    IN Reset([lc EXCEPT !.startup = startup.active], o, i, entering)

(* The lifecycle and what the model sees of it. *)
Show(l, o, i) ==
    /\ lc' = l
    /\ overlay' = o
    /\ index' = i
    /\ active' = Active(l, o, i)

(* _materialize_external_behavior_projection. *)
Acceptable(p) ==
    /\ p.revision >= projection.revision
    /\ p.revision = projection.revision => p = projection
FaultyMaterialize(p) ==
    /\ bound
    /\ WellFormed(p)
    /\ KeepsFloor(p)
    /\ Show(Applied(Overlay(p), p.index), Overlay(p), p.index)
    /\ projection' = p
    /\ transition' = [overlay |-> Overlay(p), previous |-> overlay, state |-> lc]
Materialize(p) ==
    /\ bound
    /\ WellFormed(p)
    /\ KeepsFloor(p)
    /\ Larger(index, p.index) <= MaxIndex
    /\ LET i == Larger(index, p.index)
       IN Show(Applied(Overlay(p), i), Overlay(p), i)
    /\ projection' = p
    /\ transition' = [overlay |-> Overlay(p), previous |-> overlay, state |-> lc]

(* rollback_external_behavior_projection: the last transition is undone if it
   leads back to the projection asked for; any other one is applied. *)
FaultyRollback(p, expected) ==
    /\ expected = projection.revision
    /\ Show(transition.state, transition.previous, index)
    /\ projection' = p
    /\ transition' = NoTransition
Rollback(p, expected) ==
    /\ expected = projection.revision
    /\ IF /\ transition # NoTransition
          /\ transition.previous = Overlay(p)
          /\ transition.overlay.revision = expected
       THEN /\ Show(transition.state, transition.previous, index)
            /\ projection' = p
            /\ transition' = NoTransition
       ELSE Materialize(p)

(* restore_external_behavior_startup. *)
RestoreStartup ==
    /\ Show(startup.state, NoOverlay, index)
    /\ projection' = NoProjection
    /\ transition' = NoTransition
-----------------------------------------------------------------------------
(* _validate_directive: the floors again, on every directive by itself. *)
DirectiveAllowed(d) ==
    d.target \in Components =>
       d.value \in AllowedModes[d.target] \ Suppressed(d.target)

(* prepare_behavior_directives *)
PrepareBatch(ds) ==
    /\ bound
    /\ \A k \in DOMAIN ds : DirectiveAllowed(ds[k])
    /\ batch' = [directives |-> ds, prior |-> projection, open |-> TRUE]
    /\ UNCHANGED <<bound, lc, index, overlay, projection, active, startup,
                   transition, plan>>

(* _validate_directive_projection: the projection holds the last value that
   the batch gives to each target. *)
Holds(p, target) == IF target = "mode" THEN p.mode ELSE p.modes[target]
MaterializesBatch(ds, p) ==
    \A k \in DOMAIN ds :
       (\A j \in DOMAIN ds : j > k => ds[j].target # ds[k].target) =>
          Holds(p, ds[k].target) = ds[k].value

(* apply_behavior_projection *)
ApplyProjection(p) ==
    /\ batch.open
    /\ MaterializesBatch(batch.directives, p)
    /\ Acceptable(p)
    /\ Materialize(p)
    /\ UNCHANGED <<bound, startup, batch, plan>>

(* synchronize_behavior_projection *)
SynchronizeProjection(p) ==
    /\ Acceptable(p)
    /\ Materialize(p)
    /\ UNCHANGED <<bound, startup, batch, plan>>

(* rollback_behavior_directives names the current revision as the expected one
   and so never fails on it. *)
RollbackBatch ==
    /\ batch.open
    /\ IF batch.prior = NoProjection
       THEN RestoreStartup
       ELSE Rollback(batch.prior, projection.revision)
    /\ batch' = NoBatch
    /\ UNCHANGED <<bound, startup, plan>>

(* restore_behavior_projection: the host's last committed projection. *)
RestoreProjection(p, expected) ==
    /\ bound
    /\ Rollback(p, expected)
    /\ UNCHANGED <<bound, startup, batch, plan>>

(* expire_external_behavior_leases: what the model sees is refreshed only if a
   lease ran out in this very step. *)
Expires(i) == \E l \in overlay.leases : index <= l.expires /\ l.expires < i
ExpireLeases(i) ==
    /\ bound
    /\ i > index /\ i <= MaxIndex
    /\ index' = i
    /\ active' = IF Expires(i) THEN Active(lc, overlay, i) ELSE active
    /\ UNCHANGED <<bound, lc, overlay, projection, startup, transition, batch,
                   plan>>
-----------------------------------------------------------------------------
(* The session's own boundaries.  A model or planning call needs a projection;
   the others do not ask. *)
Session(l) ==
    /\ Show(l, overlay, index)
    /\ UNCHANGED <<projection, adapter, plan>>

BeforeModelCall ==
    /\ bound /\ projection # NoProjection
    /\ LET l == OnTaskStart(lc, overlay, index)
       IN Session(IF ComponentMode(overlay, index, "owl") = "elevated"
                  THEN Reset(l, overlay, index, {"owl"}) ELSE l)

BeforeToolPlanning(risky) ==
    /\ bound /\ projection # NoProjection
    /\ Session(ActivateAll([lc EXCEPT !.action = {}], overlay, index,
                           IF risky THEN {"fuse", "ward"} ELSE {"fuse"}))

(* on_action: ward's predicates match a risky action; a decision other than
   ALLOW activates it as well. *)
OnAction(risky, allowed) ==
    /\ bound
    /\ Session(ActivateAll(lc, overlay, index,
                           IF risky \/ ~allowed THEN {"fuse", "ward"} ELSE {"fuse"}))

CompleteAction ==
    /\ bound
    /\ index < MaxIndex
    /\ Show([lc EXCEPT !.action = {}], overlay, index + 1)
    /\ UNCHANGED <<projection, adapter, plan>>

(* on_artifact, with the impact facts summed up in flow_triggered. *)
OnArtifact(flow, durable, changed) ==
    LET mode(c) == IF overlay = NoOverlay THEN None
                   ELSE ComponentMode(overlay, index, c)
    IN /\ bound
       /\ Session(ActivateAll([lc EXCEPT !.artifact = {}], overlay, index,
            (IF flow \/ mode("flow") = "elevated" THEN {"flow"} ELSE {})
            \cup (IF durable \/ mode("dox") = "elevated"
                  THEN {"dox_closeout"} ELSE {})
            \cup (IF changed \/ mode("anchor") = "elevated"
                  THEN {"anchor_closeout"} ELSE {})))

ArtifactProcessed ==
    /\ bound
    /\ Session([lc EXCEPT !.artifact = {}])

(* on_completion and on_response_complete, in _render_output. *)
RenderFinal ==
    /\ bound
    /\ LET opened == [lc EXCEPT !.response = {}]
           closing == IF overlay.mode = "READY_TO_COMPLETE"
                      THEN Activate(opened, overlay, index, "anchor_closeout")
                      ELSE opened
       IN Session([Activate(closing, overlay, index, "sispis")
                   EXCEPT !.response = {}])

(* publish_handoff completes the current segment, a blocked one as well. *)
CompleteSegment ==
    /\ bound
    /\ status # "COMPLETED"
    /\ status' = "COMPLETED"
    /\ UNCHANGED <<lc, index, overlay, projection, active, adapter, segment>>

(* reset_for_segment *)
ForSegment(l) == [l EXCEPT !.segment = {s \in l.task : Frequency[s] = "per_task"},
                           !.action = {}, !.artifact = {}, !.response = {}]

AdvanceSegment ==
    /\ bound
    /\ segment + 1 < Segments
    /\ IF status = "COMPLETED"
       THEN /\ segment' = segment + 1
            /\ status' = "ACTIVE"
            /\ Show(ForSegment(lc), overlay, index)
       ELSE /\ status' = "BLOCKED"
            /\ UNCHANGED <<segment, lc, index, overlay, active>>
    /\ UNCHANGED <<projection, adapter>>
-----------------------------------------------------------------------------
Next ==
    \/ BindAuthority
    \/ Restart
    \/ \E ds \in Batches : PrepareBatch(ds)
    \/ \E p \in Projections : ApplyProjection(p)
    \/ \E p \in Projections : SynchronizeProjection(p)
    \/ RollbackBatch
    \/ \E p \in Projections, e \in -1..2 : RestoreProjection(p, e)
    \/ \E i \in 1..MaxIndex : ExpireLeases(i)
    \/ BeforeModelCall
    \/ \E risky \in BOOLEAN : BeforeToolPlanning(risky)
    \/ \E risky, allowed \in BOOLEAN : OnAction(risky, allowed)
    \/ CompleteAction
    \/ \E flow, durable, changed \in BOOLEAN : OnArtifact(flow, durable, changed)
    \/ ArtifactProcessed
    \/ RenderFinal
    \/ CompleteSegment
    \/ AdvanceSegment

Spec == Init /\ [][Next]_vars
-----------------------------------------------------------------------------
(* No sequence of projections, expired leases, rollbacks and resets suppresses
   a stage of the bundle: DP cannot lower a task's baseline or WARD, not even
   through the value a lease falls back to when it expires. *)
FloorHolds ==
    \A s \in Stages : StagePermitted(overlay, index, lc.startup, s)

(* A stage is active only together with what it requires. *)
RequirementsActive ==
    \A s \in InUse(lc) : Requires[s] # None => Requires[s] \in InUse(lc)

(* A per_task stage has run exactly if it is active, so it runs once until its
   component is reset, across segments, rollbacks and restarts; wrappers never
   become task state. *)
RunsOncePerTask ==
    /\ lc.task = lc.counted
    /\ \A s \in lc.task : Frequency[s] = "per_task"

(* The overlay in force is the projection the session reports, the rollback
   record is about that overlay, and the stages shown to the model are the
   controller's, whatever was applied, expired or rolled back before. *)
ReportedIsInForce ==
    /\ projection # NoProjection => overlay = Overlay(projection)
    /\ projection = NoProjection => overlay = NoOverlay
    /\ transition # NoTransition => transition.overlay = overlay
    /\ active = Active(lc, overlay, index)

(* While the process runs, an expired lease never becomes live again: no
   projection, rollback or restore turns the action index back. *)
ExpiredKept ==
    bound' => \A l \in overlay.leases : l.expires < index => l.expires < index'

ExpiredStaysExpired == [][ExpiredKept]_vars
=============================================================================
