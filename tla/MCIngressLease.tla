--------------------------- MODULE MCIngressLease ---------------------------
EXTENDS IngressLease, TLC

CONSTANTS l1, l2, l3

LeaseSymmetry == Permutations({l1, l2})

=============================================================================
