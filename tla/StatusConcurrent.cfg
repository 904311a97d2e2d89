\* Calls about one user overlap: the SET of one undoes the script of another.
CONSTANTS
    u1 = u1
    u2 = u2
    a1 = a1
    a2 = a2
    t1 = t1
    t2 = t2
    None = None
    Users <- MCOneUser
    Names <- MCNames
    Addrs <- MCAddrs
    Capacities <- MCOneCapacity
    Threads <- MCThreads
    Objs <- MCObjs
    StaleAfter = 0
    DefaultCapacity = 2
    Serial = FALSE
    ScriptLoaded = TRUE
    MaxTime = 0
    MaxRpcs = 4
    MaxFaults = 0
SPECIFICATION Spec
PROPERTIES
    LoadFollowsRoutes
CHECK_DEADLOCK FALSE
