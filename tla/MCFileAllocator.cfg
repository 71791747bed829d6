SPECIFICATION FairSpec
CONSTANTS
    Names = {n1, n2, n3}
    MaxSize = 2
INVARIANTS
    ListInv
    AsapMeansAllocated
    FirstSizeUsed
PROPERTIES
    CallsReturn
CHECK_DEADLOCK FALSE
