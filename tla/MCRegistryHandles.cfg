CONSTANTS
  s1 = s1
  s2 = s2
  s3 = s3
  Sessions = {s1, s2}
  MaxSessions = 1
  Ttl = 2
  MaxTokens = 3
  MaxTime = 2
SPECIFICATION Spec
INVARIANTS
  HandleKeepsSession
