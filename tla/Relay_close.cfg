SPECIFICATION FairSpec
CONSTANTS
    Amount = 1
    Room = 1
PROPERTY RelayEnds
CHECK_DEADLOCK FALSE
