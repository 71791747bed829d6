SPECIFICATION MCSpec
CONSTANTS
    Limits = {0, 1, 2, 3}
    BatchSizes = {0, 1, 3}
    MaxDocs = 4
    DefaultBatch = 2
INVARIANTS
    TypeOK
    LimitHeld
    DanglingUnused
    NoLeakedCursor
PROPERTIES
    KeepsPromise
    LoopEnds
CHECK_DEADLOCK FALSE
