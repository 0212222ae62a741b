---------------------------- MODULE MCIdempotency ----------------------------
EXTENDS Idempotency

CONSTANTS r1, r2, r3

\* All ask for the same, or the first for something else.
MCFingerprints ==
    {[r \in {r1, r2, r3} |-> "same"], [r \in {r1, r2, r3} |-> IF r = r1 THEN "other" ELSE "same"]}

=============================================================================
