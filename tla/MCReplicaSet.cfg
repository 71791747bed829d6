SPECIFICATION FairSpec
CONSTANTS
    h1 = h1
    h2 = h2
    Members <- MCMembers
    Seeds <- OneSeed
    Clients = {c1}
    Watcher = watcher
    MaxChanges = 2
INVARIANTS
    NodesInv
PROPERTIES
    FindsPrimary
    SlavesRecover
CHECK_DEADLOCK FALSE
