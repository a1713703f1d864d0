CONSTANTS
  s1 = s1
  s2 = s2
  c1 = c1
  b1 = b1
  Subjects <- TwoSubjects
  TaskSubject = s1
  Criteria = {c1}
  Required = {c1}
  CriterionKinds <- ToolProved
  PlainKinds = {}
  HostDispositions = {}
  ValidatorKinds = {"completion_boundary"}
  Boundaries = {}
  RequiredBoundaries <- NothingToCover
  Combined = FALSE
  MaxFacts = 5
  MaxWorkflowRevision = 0
  MaxCrashes = 1
  MaxRefs = 1
SPECIFICATION Spec
INVARIANTS
  NoStaleFinal
  FinalOnLiveEvidence
  JournalCoversSession
CHECK_DEADLOCK FALSE
