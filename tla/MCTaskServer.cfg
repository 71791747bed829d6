SPECIFICATION FairSpec
CONSTANTS
    Callers = {c1, c2}
    MaxMsgs = 3
    MaxAsks = 2
INVARIANTS
    QueueInv
    CallMeansRun
PROPERTIES
    SentRuns
    CallComesBack
CHECK_DEADLOCK FALSE
