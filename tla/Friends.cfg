\* Two users on two servers with one stub each, four requests,
\* two disconnections or moves, one fault.
CONSTANTS
    s1 = s1
    s2 = s2
    u1 = u1
    u2 = u2
    None = None
    Servers <- MCServers
    Users <- MCUsers
    Peers <- MCPeers
    PoolSize = 1
    EmptyWhenMissing = TRUE
    MaxRequests = 4
    MaxMoves = 2
    MaxFaults = 1
SPECIFICATION MCSpec
INVARIANTS
    TypeOK
    ToldIsStored
    NothingMissedHere
PROPERTIES
    HandlersEnd
CHECK_DEADLOCK FALSE
