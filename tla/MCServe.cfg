SPECIFICATION Spec
CONSTANTS
  Sessions = {s1}
  Files = {f1}
  Documents = {}
  Versions = {v1, v2}
  ArtifactIds = {a1, a2}
  Requests = {1, 2, 3}
  RefLimit = 1
  None = None
  MaxInFlight = 2
  Faults = TRUE
  MaxRuns = 0
CONSTRAINT Bounds
SYMMETRY Interchangeable
INVARIANTS
  TypeOK
  HandlesRecoverable
  AuditedBeforeAnswered
  
  FileLeadsTable
  ReferencesGrounded
PROPERTIES
  NothingRewritten
  HandlesRefine
CHECK_DEADLOCK FALSE
