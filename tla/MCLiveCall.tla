----------------------------- MODULE MCLiveCall -----------------------------
(* The request that creates the call, and two sidebands, one of them in    *)
(* another process.                                                        *)
EXTENDS LiveCall

CONSTANTS c, s1, s2, p1, p2

MCThreads == {c, s1, s2}
MCHome == [t \in MCThreads |-> IF t = s2 THEN p2 ELSE p1]
AllFaults == {"save", "claim", "get", "refresh", "unclaim", "close", "release", "log", "crash"}
=============================================================================
