CONSTANTS
    p1 = p1
    p2 = p2
    s1 = s1
    s2 = s2
    Ports <- TwoPorts
    Taken <- OneTaken
    Sessions <- TwoSessions
    StreamSize = 3
SPECIFICATION FairSpec
INVARIANT SubscribersInSync
PROPERTY OpenPortForwarded
PROPERTY ClosedPortReleased
