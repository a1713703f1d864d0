CONSTANTS
  a1 = a1
  a2 = a2
  g1 = g1
  g2 = g2
  s1 = s1
  s2 = s2
  Agents = {a1, a2}
  Grants = {g1, g2}
  Members <- MCMembers
  Transitional = {g1, g2}
  Bundles <- MCBundles
  Adopters = {a1}
  States = {s1, s2}
  Start0 = s1
  MaxRevision = 2
  MaxFaults = 1
  Routes = {"fuse", "ward"}
  Initial <- MCInitial
  Candidate = "ward"
  Cohort = "treatment"
  Invocations = {"i1"}
  Blockers = {"b1"}
  MaxDecisions = 2
  MaxEvidence = 3
  MaxOutcomes = 2
  MaxRaised = 2
SPECIFICATION WorkflowSpec
CONSTRAINT MCSmall
INVARIANTS
  StepsOnRecord
  AppliedFromAssertedOrigin
  ViewIncludesOwnSteps
  RevocationBites
  
  RouteBlockersAsTold
CHECK_DEADLOCK FALSE
