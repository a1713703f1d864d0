CONSTANTS
  g1 = g1
  g2 = g2
  g3 = g3
  Agents = {g1, g2, g3}
  MaxAttempts = 3
  KeepAttempts = 3
  RecoveryLimit = 2
  Emitters = {m1, m2}
  Subscribers = {u1}
  Retention = 3
  QueueSize = 2
  MaxEvents = 4
  Sessions = {s1, s2, s3}
  MaxSessions = 2
  Ttl = 2
  MaxTokens = 4
  MaxTime = 4
SPECIFICATION StoresSpec
SYMMETRY StoresSymmetry
INVARIANTS
  
  OperatorInv
  RegistryInv
PROPERTIES
  NoExpiredSessionServed
CHECK_DEADLOCK FALSE
