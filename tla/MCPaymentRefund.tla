--------------------------- MODULE MCPaymentRefund ---------------------------
EXTENDS PaymentRefund, TLC

CONSTANTS a1, a2

MCAdmins == {a1, a2}
AdminSymmetry == Permutations(MCAdmins)

Faults == {"deduct", "status", "rollback", "record", "flag", "answer", "crash"}
NoFaults == {}

=============================================================================
