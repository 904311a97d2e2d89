\* Two calls and two threads, two addresses, one of them with an account.
CONSTANTS
    e1 = e1
    e2 = e2
    p1 = p1
    p2 = p2
    Emails = {e1, e2}
    Passwords = {p1, p2}
    VerifyCalls = {v1, v2}
    Threads = {t1, t2}
    None = None
    MaxCodes = 2
    MaxRequests = 2
    MaxFaults = 1
SPECIFICATION MCSpec
SYMMETRY Symmetry
INVARIANTS TypeOK OwnCodeOnly CodesExpire CurrentCodeIsMailed RegisteredHasAccount
CHECK_DEADLOCK FALSE
