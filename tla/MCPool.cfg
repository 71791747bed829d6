SPECIFICATION FairSpec
CONSTANTS
    Threads = {t1, t2}
    Hosts = {h1, h2}
    Fds = {1, 2}
    MaxSock = 3
    MaxConn = 2
    MaxTime = 1
INVARIANTS
    PoolInv
    PooledUsable
    DescriptorInv
    InScope
PROPERTIES
    ConnectReturns
CHECK_DEADLOCK FALSE
