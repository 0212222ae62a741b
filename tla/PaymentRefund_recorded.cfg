SPECIFICATION Spec
CONSTANTS
    a1 = a1
    a2 = a2
    Admins <- MCAdmins
    Amount = 2
    Balance = 3
    Overdraft = 1
    Renewals = {FALSE}
    FaultKinds <- NoFaults
    MaxFaults = 0
INVARIANTS PendingIsRecorded
CHECK_DEADLOCK FALSE
