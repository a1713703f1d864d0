CONSTANTS
  e1 = e1
  e2 = e2
  e3 = e3
  e4 = e4
  e5 = e5
  noisy = noisy
  quiet = quiet
  x1 = x1
  x2 = x2
  Feed <- Session
  Channel <- Channels
  Origin <- Origins
  Privileged = {e3, e4}
  Oversized = {e5}
  Exporters = {x1, x2}
  BatchSize = 2
  MaxDelivered = 2
  MaxCrashes = 1
SPECIFICATION Spec
INVARIANTS
  ExportInv

  
