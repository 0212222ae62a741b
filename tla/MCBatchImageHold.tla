--------------------------- MODULE MCBatchImageHold ---------------------------
(* One job of two units, one of them charged, beside another hold of the user  *)
(* that a wrong release could take; two workers, one with failing heartbeats.  *)
EXTENDS BatchImageHold

CONSTANTS w1, w2

MCWorkers == {w1, w2}
MCStalled == {w1}
==============================================================================
