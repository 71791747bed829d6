SPECIFICATION Spec
CONSTANTS
    p1 = p1
    p2 = p2
    Procs <- MCProcs
    NServers = 2
    MaxFaults = 2
    MaxTs = 2
    MaxTime = 1
    Skews <- OneAhead
    Takeover = 0
    maxAttempts = 2
INVARIANTS
    LockInv
    OneHolder
    Released
CHECK_DEADLOCK FALSE
