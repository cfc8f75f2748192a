CONSTANTS
    Shares = 3
    Launches = 2
    Events = {"crash", "stop"}
SPECIFICATION FairSpec
INVARIANT LivingAreRecorded
INVARIANT SweepLeavesNothing
INVARIANT NothingLeftRunning
PROPERTY LaunchEnds
PROPERTY StopKills
CHECK_DEADLOCK FALSE
