SPECIFICATION Spec
CONSTANTS
    r1 = r1
    r2 = r2
    l1 = l1
    l2 = l2
    p1 = p1
    p2 = p2
    Requests = {r1, r2, l1, l2}
    LiveRequests = {l1, l2}
    Processes = {p1, p2}
    Home <- MCHome
    Max = 2
    QueueLimit = 1
    MaxFaults = 1
INVARIANTS
    TypeOK
    HeldWithinLimit
    ServedIsCounted
    WaitIsExact
CHECK_DEADLOCK FALSE
