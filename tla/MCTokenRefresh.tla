--------------------------- MODULE MCTokenRefresh ---------------------------
(* A refresh worker and a request of another process.                      *)
EXTENDS TokenRefresh

CONSTANTS b1, r1

MCBackground == {b1}
MCRequests == {r1}
MCHome == [c \in {b1, r1} |-> IF c = r1 THEN "second" ELSE "first"]
==============================================================================
