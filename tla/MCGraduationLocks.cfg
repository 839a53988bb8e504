SPECIFICATION Spec
CONSTANTS
  c1 = c1
  c2 = c2
  Candidates = {c1, c2}
  Kind <- FixAndVague
  Sessions = {s1, s2}
  Miners = {m1}
  Refreshes = {w1}
  MinedSessionsCap = 2
  ContradictedSessionsCap = 2
  MaxPasses = 2
  MaxDays = 0
  None = None
SYMMETRY Interchangeable
CONSTRAINT Bounds
INVARIANT InStep
PROPERTIES LockedUntouched RerunsSettle
