--------------------------- MODULE PaymentPromise ---------------------------
(***************************************************************************)
(* What the payment system promises about one order, whatever happens in   *)
(* between: money comes first, and for that money the user gets the goods  *)
(* at most once and the inviter the rebate at most once, after the goods.  *)
(***************************************************************************)

VARIABLES
    paid,     \* the provider has the money
    granted,  \* the user has the goods
    rebated   \* the inviter has the rebate

vars == <<paid, granted, rebated>>

Init == paid = FALSE /\ granted = FALSE /\ rebated = FALSE

Pay == ~paid /\ paid' = TRUE /\ UNCHANGED <<granted, rebated>>
Grant == paid /\ ~granted /\ granted' = TRUE /\ UNCHANGED <<paid, rebated>>
Rebate == granted /\ ~rebated /\ rebated' = TRUE /\ UNCHANGED <<paid, granted>>

Next == Pay \/ Grant \/ Rebate

Spec == Init /\ [][Next]_vars

=============================================================================
