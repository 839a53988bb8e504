SPECIFICATION Spec
CONSTANTS
  Sessions = {s1, s2}
  Files = {f1}
  Documents = {}
  Versions = {v1}
  ArtifactIds = {a1}
  Requests = {1, 2}
  RefLimit = 1
  None = None
  MaxInFlight = 2
  Faults = TRUE
  MaxRuns = 0
CONSTRAINT Bounds
INVARIANTS
  NeverReServed
CHECK_DEADLOCK FALSE
