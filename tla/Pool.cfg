SPECIFICATION FairSpec
CONSTANTS
    Peers = {p1, p2}
    Pieces = {i1, i2}
    RarestFirst = TRUE
    Conns = {c1, c2}
    MaxConnections = 2
    MaxStrays = 1
    NoConn = NoConn
    NoPeer = NoPeer
INVARIANTS TypeOK FrequencyIsExact OneConnectionPerPeer BannedStayOut AvailabilityFollowsPool
PROPERTIES RarestIsStarted ImplementsAvailability DeadPeersAreForgotten
CHECK_DEADLOCK FALSE
