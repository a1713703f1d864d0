CONSTANTS
  primary = primary
  side = side
  p1 = p1
  p2 = p2
  q1 = q1
  a1 = a1
  a2 = a2
  a3 = a3
  PrimaryCause = primary
  Plans = {q1}
  RecoveryLimit = 2
  SameApproachLimit = 2
  Causes = {primary, side}
  Premises = {p1}
  Attempts = {a1}
  SupportLimit = 1
  Shared = FALSE
  Delivery = TRUE
  MaxCount = 2
  MaxForeign = 0
  MaxCrashes = 1
SPECIFICATION Spec
INVARIANTS
  TerminatedTaskNotRevived
CHECK_DEADLOCK FALSE
