SPECIFICATION Spec
CONSTANTS
    AutoReconnect = TRUE
    AuthEntries = 0
    PiggyMax = 2
    MaxGen = 2
    MaxId = 4
    MaxBlast = 1
    MaxTime = 2
INVARIANTS
    NoWrongId
CHECK_DEADLOCK FALSE
