--------------------------- MODULE MCPaymentOrder ---------------------------
EXTENDS PaymentOrder, TLC

CONSTANTS h1, h2

MCHandlers == {h1, h2}
HandlerSymmetry == Permutations(MCHandlers)

\* Liveness is checked without symmetry.
AllFaults == {"create", "query", "read", "statement", "commit", "crash", "extend"}
AckedFaults == {"create", "query", "statement", "commit", "crash", "extend"}

=============================================================================
