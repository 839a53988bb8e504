SPECIFICATION Spec
CONSTANTS
  Files = {f1, f2}
  Directives = {d1}
  Jobs = {j1}
  Batches <- SomeBatches
  MaxEdits = 2
  None = None
SYMMETRY Interchangeable
CONSTRAINT Bounds
INVARIANTS  EntriesLead
