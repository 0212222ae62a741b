--------------------------- MODULE RefundPromise ---------------------------
(***************************************************************************)
(* What the refunds of one order promise, however many requests try: the   *)
(* provider pays out once, what the user was deducted is not deducted      *)
(* again, and it is given back only while the provider can no longer pay.  *)
(* The payment is promised as long as no error hid one, the deduction as   *)
(* long as none was lost without a record; one does not excuse the other.  *)
(***************************************************************************)
EXTENDS Integers

CONSTANT Amount  \* what the order credited and cost

VARIABLES
    held,      \* deducted from the user and not given back
    pending,   \* the provider has been asked, and has not answered
    paidOut,   \* what the provider has paid
    answered,  \* no error has hidden a payment
    recorded   \* no deduction was lost without a record

vars == <<held, pending, paidOut, answered, recorded>>

Init == held = 0 /\ pending = FALSE /\ paidOut = 0 /\ answered = TRUE /\ recorded = TRUE

Unpaid == ~pending /\ (answered => paidOut = 0)
Known == UNCHANGED <<answered, recorded>>

Deduct ==
    /\ Unpaid /\ held' - held \in 1 .. Amount
    /\ (recorded' => recorded /\ held = 0) /\ UNCHANGED <<pending, paidOut, answered>>
GiveBack ==
    /\ Unpaid /\ held' \in 0 .. held - 1 /\ (recorded => held' = 0)
    /\ UNCHANGED <<pending, paidOut>> /\ Known
Ask == Unpaid /\ pending' = TRUE /\ UNCHANGED <<held, paidOut>> /\ Known
Refuse == pending /\ pending' = FALSE /\ UNCHANGED <<held, paidOut>> /\ Known
Pay ==
    /\ (answered => paidOut = 0) /\ paidOut' - paidOut \in 1 .. Amount /\ pending' = FALSE
    /\ (answered' => answered) /\ UNCHANGED <<held, recorded>>
Lose == recorded /\ recorded' = FALSE /\ UNCHANGED <<held, pending, paidOut, answered>>

Next == Deduct \/ GiveBack \/ Ask \/ Refuse \/ Pay \/ Lose

Spec == Init /\ [][Next]_vars

=============================================================================
