SPECIFICATION FairSpec
CONSTANTS
    Workers = {w1, w2, w3}
    Callers = {c1, c2}
    Owner = c1
    MaxTasks = 5
INVARIANTS
    Accounted
    NoIdleWorker
    NeverBlocks
PROPERTIES
    JoinMeansDone
    JoinReturns
CHECK_DEADLOCK FALSE
