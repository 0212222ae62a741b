SPECIFICATION Spec
CONSTANTS
    h1 = h1
    h2 = h2
    Handlers <- MCHandlers
    Kinds = {"balance", "subscription", "renewal"}
    FaultKinds <- AllFaults
    MaxFaults = 2
SYMMETRY HandlerSymmetry
INVARIANTS TypeOK GrantedAtMostOnce CompletedIsGranted
PROPERTIES FollowsPath KeepsPromise
CHECK_DEADLOCK FALSE
