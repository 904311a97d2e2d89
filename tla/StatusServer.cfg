\* Two users, two handler threads, two chat servers; callers wait for their answers.
CONSTANTS
    u1 = u1
    u2 = u2
    a1 = a1
    a2 = a2
    t1 = t1
    t2 = t2
    None = None
    Users <- MCUsers
    Names <- MCNames
    Addrs <- MCAddrs
    Capacities <- MCCapacities
    Threads <- MCThreads
    Objs <- MCObjs
    StaleAfter = 0
    DefaultCapacity = 2
    Serial = TRUE
    ScriptLoaded = TRUE
    MaxTime = 1
    MaxRpcs = 5
    MaxFaults = 1
SPECIFICATION Spec
SYMMETRY Symmetry
INVARIANTS
    TypeOK
    NodeListSync
    InflightReserved
    RouteMatchesAnswer
PROPERTIES
    MovedOnlineUserIsKicked
    LoadFollowsRoutes
CHECK_DEADLOCK FALSE
