------------------------- MODULE MCConcurrencySlots -------------------------
(* Two requests and two Live calls for two places, in two processes.       *)
EXTENDS ConcurrencySlots

CONSTANTS r1, r2, l1, l2, p1, p2

MCHome == [r \in Requests |-> IF r \in {r2, l2} THEN p2 ELSE p1]
=============================================================================
