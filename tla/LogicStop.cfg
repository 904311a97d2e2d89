\* The destructor notifies between the test and the wait of the worker.
CONSTANTS
    p1 = p1
    p2 = p2
    p3 = p3
    login = login
    unknown = unknown
    None = None
    Posters <- MCPosters
    Messages <- MCMessages
    Handled <- MCHandled
    MaxPosts = 1
SPECIFICATION Spec
PROPERTIES
    StopIsJoined
CHECK_DEADLOCK FALSE
