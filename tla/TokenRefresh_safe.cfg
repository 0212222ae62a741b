SPECIFICATION Spec
CONSTANTS
    b1 = b1
    r1 = r1
    NoCaller = NoCaller
    Background <- MCBackground
    Requests <- MCRequests
    Home <- MCHome
    MaxMints = 3
    MaxAsked = 1
    MaxFaults = 1
INVARIANTS
    TypeOK
    SpentOnce
    StoredIsAlive
    ErrorIsDeserved
    CachedIsCurrent
PROPERTY
    KeepsPromise
