CONSTANTS
    d1 = d1
    d2 = d2
    d3 = d3
    c1 = c1
    NoDaemon = NoDaemon
    Daemons <- ThreeDaemons
    Clients <- OneClient
    DaemonEvents = {"crash"}
SPECIFICATION DaemonFairSpec
INVARIANT ServingIsUnique
INVARIANT CrashedVmsSwept
INVARIANT SweepSparesLiveVms
PROPERTY StartSucceeds
CHECK_DEADLOCK FALSE
