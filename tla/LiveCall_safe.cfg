SPECIFICATION FairSpec
CONSTANTS
    c = c
    s1 = s1
    s2 = s2
    p1 = p1
    p2 = p2
    NoThread = NoThread
    Creator = c
    Threads <- MCThreads
    Processes = {p1, p2}
    Home <- MCHome
    FaultKinds <- AllFaults
    MaxFaults = 1
INVARIANTS
    TypeOK
    CallIsWatched
    ClosedIsReleased
PROPERTIES
    KeepsPromise
    CallIsLogged
CHECK_DEADLOCK FALSE
