\* As Friends.cfg, nothing fails: what the approval says that stays on one server.
CONSTANTS
    s1 = s1
    s2 = s2
    u1 = u1
    u2 = u2
    None = None
    Servers <- MCServers
    Users <- MCUsers
    Peers <- MCPeers
    PoolSize = 1
    EmptyWhenMissing = TRUE
    MaxRequests = 4
    MaxMoves = 1
    MaxFaults = 0
SPECIFICATION MCSpec
INVARIANTS
    ApprovalNamesApprover
CHECK_DEADLOCK FALSE
