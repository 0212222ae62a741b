SPECIFICATION Spec
CONSTANTS
    l1 = l1
    l2 = l2
    l3 = l3
    Leases = {l1, l2, l3}
    Unreachable = {l1, l2}
    MaxConnections = 1
    TTL = 6
    Interval = 2
    OpTimeout = 1
SYMMETRY LeaseSymmetry
INVARIANTS TypeOK HeldWithinCap OpenIsHeld
CHECK_DEADLOCK FALSE
