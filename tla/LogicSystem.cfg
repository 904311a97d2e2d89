\* Three io threads, up to four messages, the end of the process at any time.
CONSTANTS
    p1 = p1
    p2 = p2
    p3 = p3
    login = login
    unknown = unknown
    None = None
    Posters <- MCPosters
    Messages <- MCMessages
    Handled <- MCHandled
    MaxPosts = 4
SPECIFICATION Spec
INVARIANTS
    TypeOK
    NoLostWakeup
PROPERTIES
    RefinesMailbox
    PostedBeforeStopIsServed
CHECK_DEADLOCK FALSE
