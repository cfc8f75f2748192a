SPECIFICATION FairSpec
CONSTANTS
    MAX_PAYLOAD = 10
    Clients = {"smoke", "attached", "ports"}
    Scripts <- MCScripts
    Timeout = 5
    RETRY_INTERVAL = 3
    EVENT_POLL_INTERVAL = 1
    Grain = 2
    MaxOutput = 3
INVARIANTS
    FramesInStep
    OutputIsTheCommands
    LimitIsExact
    AtMostOneLateFrame
PROPERTY
    HostDoesNotHang
CHECK_DEADLOCK FALSE
