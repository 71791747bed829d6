SPECIFICATION Spec
CONSTANTS
    h1 = h1
    h2 = h2
    Members <- MCMembers
    Seeds <- TwoSeeds
    Clients = {c1, c2}
    Watcher = watcher
    MaxChanges = 1
INVARIANTS
    MasterOrException
CHECK_DEADLOCK FALSE
