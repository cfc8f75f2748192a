CONSTANTS
    Chunks = 2
    PipeSize = 1
    Signals = 2
    Codes = {0, 1}
SPECIFICATION FairSpec
INVARIANT NoOutputLost
INVARIANT ExitAfterOutput
PROPERTY SessionEnds
PROPERTY InterruptTakesEffect
CHECK_DEADLOCK FALSE
