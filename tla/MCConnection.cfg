SPECIFICATION FairSpec
CONSTANTS
    AutoReconnect = TRUE
    AuthEntries = 1
    PiggyMax = 2
    MaxGen = 3
    MaxId = 4
    MaxBlast = 1
    MaxTime = 3
INVARIANTS
    AuthPresented
    TypeOK
    NoStrayReply
    OnceInOrder
PROPERTIES
    CallReturns
    HealedByReconnect
CHECK_DEADLOCK FALSE
