CONSTANTS
    c1 = c1
    c2 = c2
    n1 = n1
    m1 = m1
    m2 = m2
    h1 = h1
    h2 = h2
    None = None
    Corpora <- MCCorpora
    Names <- MCNames
    Sessions <- MCSessions
    Handles <- MCHandles
    Holds <- MCHolds
    MaxAsks = 2
    MaxSteps = 2
    MaxZooms = 1
    MaxRestarts = 1
SPECIFICATION Spec
SYMMETRY Symmetry
INVARIANTS
    NumbersGoOn
    Reconciled
    ReceiptsHonest
CHECK_DEADLOCK FALSE
