SPECIFICATION Spec
CONSTANTS
  Sessions = {s1}
  Files = {f1}
  Documents = {}
  Versions = {v1, v2}
  ArtifactIds = {a1, a2}
  Requests = {1, 2, 3, 4}
  RefLimit = 1
  None = None
  MaxInFlight = 2
  Faults = FALSE
  MaxRuns = 1
CONSTRAINT Bounds
SYMMETRY Interchangeable
INVARIANTS
  ZoomIsExact
  
CHECK_DEADLOCK FALSE
