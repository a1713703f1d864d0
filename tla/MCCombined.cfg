CONSTANTS
  s1 = s1
  s2 = s2
  c1 = c1
  b1 = b1
  Subjects <- OneSubject
  TaskSubject = s1
  Criteria = {c1}
  Required = {c1}
  CriterionKinds <- SeenRendered
  PlainKinds = {"rendered_observation"}
  HostDispositions = {"BLOCKED"}
  ValidatorKinds = {"completion_boundary"}
  Boundaries = {b1}
  RequiredBoundaries <- BoundaryToCover
  Combined = TRUE
  MaxFacts = 4
  MaxWorkflowRevision = 1
  MaxCrashes = 1
  MaxRefs = 1
SPECIFICATION Spec
INVARIANTS
  IInv
PROPERTIES
  CompletionAuditable
CHECK_DEADLOCK FALSE
