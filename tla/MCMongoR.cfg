SPECIFICATION RFairSpec
CONSTANTS
    AutoReconnect = FALSE
    AuthEntries = 0
    PiggyMax = 2
    MaxGen = 1
    MaxId = 5
    MaxBlast = 0
    MaxTime = 1
    MaxBatch = 2
INVARIANTS
    SessionInv
    OneMeansStored
    ZeroUntilClose
PROPERTIES
    RCallReturns
CHECK_DEADLOCK FALSE
