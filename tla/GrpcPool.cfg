\* Four threads share two stubs; failed calls lose theirs, as in FriendGrpcClient.
CONSTANTS
    t1 = t1
    t2 = t2
    t3 = t3
    t4 = t4
    s1 = s1
    s2 = s2
    None = None
    Threads <- MCThreads
    Stubs <- MCStubs
    Leaky = TRUE
    Partial = TRUE
SPECIFICATION KickSpec
INVARIANTS
    TypeOK
    OnePoolPerThread
    StubsConserved
    NoLostWakeup
PROPERTIES
    SettledPoolStays
    RefinesPool
    SleepersAreServed
CHECK_DEADLOCK FALSE
