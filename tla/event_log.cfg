SPECIFICATION LogSpec
CONSTANTS
    w1 = w1
    w2 = w2
    Writers <- MCWriters
    Devices = {phone}
    PageSize = 1
    Retention = 1
    MaxEvents = 4
    MaxTime = 3
SYMMETRY Symmetry
CHECK_DEADLOCK FALSE
INVARIANTS
    CommitOrder
    SkipsOnlyPruned
