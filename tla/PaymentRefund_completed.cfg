SPECIFICATION Spec
CONSTANTS
    a1 = a1
    a2 = a2
    Admins <- MCAdmins
    Amount = 2
    Balance = 3
    Overdraft = 1
    Renewals = {TRUE}
    FaultKinds <- NoFaults
    MaxFaults = 0
INVARIANTS CompletedIsDelivered
CHECK_DEADLOCK FALSE
