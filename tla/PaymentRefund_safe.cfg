SPECIFICATION Spec
CONSTANTS
    a1 = a1
    a2 = a2
    Admins <- MCAdmins
    Amount = 2
    Balance = 2
    Overdraft = 1
    Renewals = {TRUE, FALSE}
    FaultKinds <- Faults
    MaxFaults = 2
SYMMETRY AdminSymmetry
INVARIANTS TypeOK RefundsAlone RefundedIsPaidOut HeldIsAccountedFor
PROPERTY KeepsPromise
CHECK_DEADLOCK FALSE
