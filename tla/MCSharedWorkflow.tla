----------------------------- MODULE MCSharedWorkflow -----------------------------
(* Two agents with one grant each on a shared workflow, or one of them with a
   private workflow; and the route decisions and blockers of one session.  They
   share no state here, so a behavior is one of the workflow or of the routes. *)
EXTENDS SharedWorkflow

CONSTANTS a1, a2, g1, g2, s1, s2,
          Routes, Initial, Candidate, Cohort, Invocations, Blockers,
          MaxDecisions, MaxEvidence, MaxOutcomes, MaxRaised

VARIABLES part, status, memory, recorded, initials, attested, told, reports, raised

routing == <<status, memory, recorded, initials, attested, told, reports, raised>>

Route == INSTANCE RouteEvidence WITH
    session <- memory, journal <- recorded, issued <- attested,
    faults <- raised, MaxFaults <- MaxRaised

ASSUME RouteAssumption == Route!RouteConstants

WorkflowInit ==
    /\ part \in {"workflow", "routes"} /\ Init /\ Route!RouteInit
    /\ part = "routes" => pinned[a2] = g2

WorkflowNext ==
    \/ part = "workflow" /\ Next /\ UNCHANGED <<part, routing>>
    \/ part = "routes" /\ Route!RouteNext /\ UNCHANGED <<part, vars>>

WorkflowSpec == WorkflowInit /\ [][WorkflowNext]_<<part, vars, routing>>

(* The resolver's frozen choices are on record once each, in their order,
   no decision the host knows of is missing, and an outcome is what a reported
   result of a validation it cites says, also across crashes. *)
RouteOutcomesGrounded == Route!DecisionsOnRecord /\ Route!OutcomesGrounded

(* What the host was last told of a blocker holds, also after a crash. *)
RouteBlockersAsTold == Route!BlockersAsTold
-----------------------------------------------------------------------------
MCMembers == [g \in Grants |-> IF g = g1 THEN a1 ELSE a2]
MCBundles == {[a \in Agents |-> IF a = a1 THEN g1 ELSE g2],
              [a \in Agents |-> IF a = a1 THEN g1 ELSE None]}
MCInitial == <<"ward">>

(* At most one grant or profile is withdrawn or one fault happens in a run, and
   the workflows move MaxRevision times together.  The first agent has its
   grant and starts first; the owner of a private workflow acts alone, and so does
   the adopter of a profile, who alone prepares actions, once it is withdrawn. *)
MCOneDisturbance ==
    /\ g2 \in issued => g1 \in issued
    /\ IF pinned[a2] = None THEN a1 \notin up ELSE rows[a2] # <<>> => rows[a1] # <<>>
    /\ \A a \in Agents \ Adopters : call[a].at \notin {"revocation", "membership"}
    /\ profile # "current" => up \subseteq Adopters
    /\ Revision(Shared) + Revision(a1) + Revision(a2) <= MaxRevision
    /\ Cardinality(revoked) + Cardinality(expired) + faults
           + (IF profile # "current" THEN 1 ELSE 0) <= 1

(* Five operations with one fault, six when two are outcomes of one decision, four
   with two faults; outcomes and blockers in different runs. *)
MCFewRoutes ==
    LET outcomes == memory.outcomes \union recorded.outcomes
        operations == CASE raised > 1 -> 4
                        [] raised <= 1 /\ Cardinality(outcomes) > 1 /\ memory.invalidated = {}
                               /\ Len(memory.decisions) = 1 -> 6
                        [] OTHER -> 5
    IN  /\ memory.blockers \union recorded.blockers = {} \/ outcomes = {}
        /\ Len(memory.decisions) + attested + Cardinality(outcomes)
               + Cardinality(memory.invalidated) <= operations

MCSmall == MCOneDisturbance /\ MCFewRoutes
=============================================================================
