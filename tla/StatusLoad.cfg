\* A logout leaves the count of the chat server it was on.
CONSTANTS
    u1 = u1
    u2 = u2
    a1 = a1
    a2 = a2
    t1 = t1
    t2 = t2
    None = None
    Users <- MCOneUser
    Names <- MCNames
    Addrs <- MCAddrs
    Capacities <- MCOneCapacity
    Threads <- MCThreads
    Objs <- MCObjs
    StaleAfter = 0
    DefaultCapacity = 2
    Serial = TRUE
    ScriptLoaded = TRUE
    MaxTime = 0
    MaxRpcs = 3
    MaxFaults = 0
SPECIFICATION Spec
INVARIANTS
    CurrentLoadIsAssignedUsers
CHECK_DEADLOCK FALSE
