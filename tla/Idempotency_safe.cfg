SPECIFICATION Spec
CONSTANTS
    r1 = r1
    r2 = r2
    r3 = r3
    Nobody = Nobody
    Requests = {r1, r2, r3}
    Fingerprints <- MCFingerprints
    Detached = {r2}
    Oversized = {r3}
    TTL = 2
    LockTime = 1
    Backoff = 1
    MaxTime = 3
    FaultKinds = {"store", "crash"}
    MaxFaults = 1
INVARIANTS TypeOK OncePerLifetime ReplayIsTheirs
PROPERTY KeepsPromise
CHECK_DEADLOCK FALSE
