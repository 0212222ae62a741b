--------------------------- MODULE FulfilmentPath ---------------------------
(***************************************************************************)
(* How the row and the goods of an order move once its payment counts,     *)
(* whatever handlers serve it.  PaymentOrder implements it; its steps but  *)
(* Enter and Refund are the environment of PaymentRefund.                  *)
(*                                                                         *)
(* Only the lease leads out of RECHARGING and no handler touches a row in  *)
(* a refund, but delivery is tied to no status: a handler that lost its    *)
(* lease delivers all the same.                                            *)
(***************************************************************************)

VARIABLES
    status,    \* payment_orders.status: UNPAID before the payment counts, REFUNDING
               \* for every status of a refund
    delivered  \* the user has the goods

vars == <<status, delivered>>

\* The statuses a fulfilment starts from.
Waiting == {"PAID", "SCHEDULED", "FAILED"}

Init == status = "UNPAID" /\ delivered = FALSE

\* The payment is confirmed, or the order's creation fails.
Enter == status = "UNPAID" /\ status' \in Waiting /\ UNCHANGED delivered

\* A handler takes the lease.
Begin == status \in Waiting /\ status' = "RECHARGING" /\ UNCHANGED delivered

\* The transaction that delivers does not look at the order's status.
Deliver ==
    /\ ~delivered /\ delivered' = TRUE
    /\ status \notin {"UNPAID", "PAID"} /\ UNCHANGED status

Complete ==
    /\ status = "RECHARGING" /\ delivered
    /\ status' = "COMPLETED" /\ UNCHANGED delivered

Fail == status = "RECHARGING" /\ status' = "FAILED" /\ UNCHANGED delivered

\* The renewal is not due, or its source term was extended meanwhile.
Postpone ==
    /\ status \in Waiting \cup {"RECHARGING"}
    /\ status' = "SCHEDULED" /\ UNCHANGED delivered

\* A refund takes the order, delivered or not, when no handler holds its lease.
Refund ==
    /\ status \in Waiting \cup {"COMPLETED"}
    /\ status' = "REFUNDING" /\ UNCHANGED delivered

Next == Enter \/ Begin \/ Deliver \/ Complete \/ Fail \/ Postpone \/ Refund

Spec == Init /\ [][Next]_vars

=============================================================================
