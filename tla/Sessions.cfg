\* Two sessions of one user, the worker and a gRPC thread, three messages.
CONSTANTS
    s1 = s1
    s2 = s2
    u1 = u1
    worker = worker
    g1 = g1
    None = None
    Connections <- MCConnections
    Users <- MCUsers
    Workers <- MCWorkers
    GrpcThreads <- MCGrpcThreads
    MaxMessages = 3
SPECIFICATION Spec
INVARIANTS
    TypeOK
    LatestLoginIsBound
    OnlyRacedStay
    QueueHasTakers
    EachMessageOnce
PROPERTIES
    EveryMessageIsTaken
CHECK_DEADLOCK FALSE
