\* Two io_contexts, and places for three connections.
CONSTANTS
    c1 = c1
    c2 = c2
    c3 = c3
    None = None
    Conns <- MCConns
    Contexts = 2
SPECIFICATION Spec
INVARIANTS
    TypeOK
PROPERTIES
    AnsweredOrCut
    RequestsEnd
    ShutdownEnds
CHECK_DEADLOCK FALSE
