CONSTANTS
    p1 = p1
    p2 = p2
    c1 = c1
    c2 = c2
    c3 = c3
    user = user
    none = none
    None = None
    Projects <- TwoProjects
    Conns <- TwoConns
    Networks <- OneNetwork
    CID_BASE = 1
    CID_MAX = 4
    U32 = 6
    CidBound = 5
    SessionBound = 4
    Events = {"qemu_exit"}
SPECIFICATION FairSpec
INVARIANT SessionsCounted
INVARIANT NoDoubleBoot
PROPERTY ImplementsLeases
PROPERTY RemovedVmKilled
