------------------------- MODULE PaymentRefundProofs -------------------------
(***************************************************************************)
(* Refunds are exclusive, pay out once and deduct once, for any number of  *)
(* requests, any amounts and any bound on failures.                        *)
(*                                                                         *)
(* Exclusion comes first: the conditional update of ExecuteRefund leaves   *)
(* REFUNDING to one request.  From it follow two ledgers, kept per status  *)
(* and per step of that request: what the provider has paid (PInv)         *)
(* and what the user's balance lacks (HInv).  The first is exact while no  *)
(* error hid a payment (Answered), the second while no deduction was lost  *)
(* without a record (Recorded); neither needs the other.                   *)
(***************************************************************************)
EXTENDS PaymentRefund, TLAPS

\* The provider has paid nothing while the order may still be refunded.
Open == {"PAID", "SCHEDULED", "FAILED", "RECHARGING", "COMPLETED", "REFUND_REQUESTED", "REFUND_FAILED"}

Settled == gateway \in {"none", "failed"} /\ (Answered => paidOut = 0)
Paid(n) == paidOut >= n /\ (Answered => paidOut = n)
Asked(n) == asked = n /\ gateway # "none" /\ Paid(IF gateway = "succeeded" THEN asked ELSE 0)

OpenUnpaid == status \in Open => Settled
PendingAsked == status = "REFUND_PENDING" => refundAmount # 0 /\ Asked(refundAmount)
RefundedAnswered == status \in {"REFUNDED", "PARTIALLY_REFUNDED"} => gateway # "pending"
PaidBounded ==
    /\ Answered => paidOut <= Amount /\ (gateway = "pending" => paidOut = 0)
    /\ gateway = "pending" => asked # 0

PaidByStep ==
    \A a \in Admins :
        /\ pc[a] \in {"deduct", "refund", "rollback", "log", "restore", "failed"} => Settled
        /\ pc[a] = "ok" => Paid(plan[a].amount) /\ gateway = "none"
        /\ pc[a] = "pend" => Asked(plan[a].amount)
        /\ pc[a] \in {"won", "lost", "record"} =>
              /\ "REFUND_PENDING" \in audits
              /\ status = "REFUND_PENDING" => gateway = IF pc[a] = "won" THEN "succeeded" ELSE "failed"

PendingOnce == status = "REFUND_PENDING" => "REFUND_PENDING" \in audits

PInv ==
    /\ TypeOK /\ RefundsAlone
    /\ OpenUnpaid /\ PendingAsked /\ RefundedAnswered /\ PaidBounded
    /\ PaidByStep /\ PendingOnce /\ RefundedIsPaidOut

USE AmountAssumption, RenewalsAssumption
    DEF row, user, provider, goods, failures, Goto, Fault, Note, Take, Statuses, Undelivered, Labels, Losses,
        Plans, Inside, Available, Open, Refunded, Restored, Refundable, Lockable, RollbackRecord, Flagged,
        Claimable, Answered

LEMMA InitPInv == Init => PInv
<1> SUFFICES ASSUME Init PROVE PInv
    OBVIOUS
<1> USE DEF Init
<1>1. TypeOK
  <2>1. RowOK BY DEF RowOK
  <2>2. MoneyOK BY DEF MoneyOK
  <2>3. RequestsOK BY DEF RequestsOK
  <2> QED BY <2>1, <2>2, <2>3 DEF TypeOK
<1>2. RefundsAlone BY DEF RefundsAlone
<1>3. OpenUnpaid /\ PendingAsked /\ RefundedAnswered /\ PaidBounded
      BY DEF OpenUnpaid, PendingAsked, RefundedAnswered, PaidBounded, Settled
<1>4. PaidByStep BY DEF PaidByStep
<1>5. PendingOnce /\ RefundedIsPaidOut
  <2>1. status \in IF renewal THEN {"PAID", "SCHEDULED"} ELSE {"COMPLETED"} BY Zenon
  <2>2. status \in {"PAID", "SCHEDULED", "COMPLETED"} BY ONLY <2>1
  <2> QED BY ONLY <2>2 DEF PendingOnce, RefundedIsPaidOut
<1> QED BY <1>1, <1>2, <1>3, <1>4, <1>5 DEF PInv

LEMMA NextPInv == PInv /\ [Next]_vars => PInv'
<1> SUFFICES ASSUME PInv, [Next]_vars PROVE PInv'
    OBVIOUS
<1> USE DEF PInv, TypeOK, RowOK, MoneyOK, RequestsOK, RefundsAlone, OpenUnpaid, PendingAsked,
            RefundedAnswered, PaidBounded, PaidByStep, PendingOnce, RefundedIsPaidOut, Settled, Asked, Paid
<1>1. CASE RequestRefund
  <2>1. RowOK' BY <1>1 DEF RequestRefund
  <2>2. MoneyOK' BY <1>1 DEF RequestRefund
  <2>3. RequestsOK' BY <1>1 DEF RequestRefund
  <2>4. RefundsAlone' BY <1>1 DEF RequestRefund
  <2>5. (OpenUnpaid /\ PendingAsked /\ RefundedAnswered /\ PaidBounded)' BY <1>1 DEF RequestRefund
  <2>6. PaidByStep' BY <1>1 DEF RequestRefund
  <2>7. (PendingOnce /\ RefundedIsPaidOut)' BY <1>1 DEF RequestRefund
  <2> QED BY <2>1, <2>2, <2>3, <2>4, <2>5, <2>6, <2>7
<1>2. ASSUME NEW a \in Admins, PrepareRefund(a) PROVE PInv'
  <2>1. RowOK' BY <1>2 DEF PrepareRefund
  <2>2. MoneyOK' BY <1>2 DEF PrepareRefund
  <2>3. RequestsOK' BY <1>2 DEF PrepareRefund
  <2>4. RefundsAlone' BY <1>2 DEF PrepareRefund
  <2>5. (OpenUnpaid /\ PendingAsked /\ RefundedAnswered /\ PaidBounded)' BY <1>2 DEF PrepareRefund
  <2>6. PaidByStep' BY <1>2 DEF PrepareRefund
  <2>7. (PendingOnce /\ RefundedIsPaidOut)' BY <1>2 DEF PrepareRefund
  <2> QED BY <2>1, <2>2, <2>3, <2>4, <2>5, <2>6, <2>7
<1>3. ASSUME NEW a \in Admins, ExecuteRefund(a) PROVE PInv'
  <2>1. RowOK' BY <1>3 DEF ExecuteRefund
  <2>2. MoneyOK' BY <1>3 DEF ExecuteRefund
  <2>3. RequestsOK' BY <1>3 DEF ExecuteRefund
  <2>4. RefundsAlone' BY <1>3 DEF ExecuteRefund
  <2>5. (OpenUnpaid /\ PendingAsked /\ RefundedAnswered /\ PaidBounded)' BY <1>3 DEF ExecuteRefund
  <2>6. PaidByStep' BY <1>3 DEF ExecuteRefund
  <2>7. (PendingOnce /\ RefundedIsPaidOut)' BY <1>3 DEF ExecuteRefund
  <2> QED BY <2>1, <2>2, <2>3, <2>4, <2>5, <2>6, <2>7
<1>4. ASSUME NEW a \in Admins, Deduct(a) PROVE PInv'
  <2>1. RowOK' BY <1>4 DEF Deduct
  <2>2. MoneyOK' BY <1>4 DEF Deduct
  <2>3. RequestsOK' BY <1>4 DEF Deduct
  <2>4. RefundsAlone' BY <1>4 DEF Deduct
  <2>5. (OpenUnpaid /\ PendingAsked /\ RefundedAnswered /\ PaidBounded)' BY <1>4 DEF Deduct
  <2>6. PaidByStep' BY <1>4 DEF Deduct
  <2>7. (PendingOnce /\ RefundedIsPaidOut)' BY <1>4 DEF Deduct
  <2> QED BY <2>1, <2>2, <2>3, <2>4, <2>5, <2>6, <2>7
<1>5. ASSUME NEW a \in Admins, DeductFails(a) PROVE PInv'
  <2>1. RowOK' BY <1>5 DEF DeductFails
  <2>2. MoneyOK' BY <1>5 DEF DeductFails
  <2>3. RequestsOK' BY <1>5 DEF DeductFails
  <2>4. RefundsAlone' BY <1>5 DEF DeductFails
  <2>5. (OpenUnpaid /\ PendingAsked /\ RefundedAnswered /\ PaidBounded)' BY <1>5 DEF DeductFails
  <2>6. PaidByStep' BY <1>5 DEF DeductFails
  <2>7. (PendingOnce /\ RefundedIsPaidOut)' BY <1>5 DEF DeductFails
  <2> QED BY <2>1, <2>2, <2>3, <2>4, <2>5, <2>6, <2>7
<1>6. ASSUME NEW a \in Admins, GatewayRefunds(a) PROVE PInv'
  <2>1. RowOK' BY <1>6 DEF GatewayRefunds
  <2>2. MoneyOK' BY <1>6 DEF GatewayRefunds
  <2>3. RequestsOK' BY <1>6 DEF GatewayRefunds
  <2>4. RefundsAlone' BY <1>6 DEF GatewayRefunds
  <2>5. (OpenUnpaid /\ PendingAsked /\ RefundedAnswered /\ PaidBounded)' BY <1>6 DEF GatewayRefunds
  <2>6. PaidByStep' BY <1>6 DEF GatewayRefunds
  <2>7. (PendingOnce /\ RefundedIsPaidOut)' BY <1>6 DEF GatewayRefunds
  <2> QED BY <2>1, <2>2, <2>3, <2>4, <2>5, <2>6, <2>7
<1>6a. ASSUME NEW a \in Admins, AnswerLost(a) PROVE PInv'
  <2>1. RowOK' BY <1>6a DEF AnswerLost
  <2>2. MoneyOK' BY <1>6a DEF AnswerLost
  <2>3. RequestsOK' BY <1>6a DEF AnswerLost
  <2>4. RefundsAlone' BY <1>6a DEF AnswerLost
  <2>5. (OpenUnpaid /\ PendingAsked /\ RefundedAnswered /\ PaidBounded)' BY <1>6a DEF AnswerLost
  <2>6. PaidByStep' BY <1>6a DEF AnswerLost
  <2>7. (PendingOnce /\ RefundedIsPaidOut)' BY <1>6a DEF AnswerLost
  <2> QED BY <2>1, <2>2, <2>3, <2>4, <2>5, <2>6, <2>7
<1>7. ASSUME NEW a \in Admins, MarkRefundOk(a) PROVE PInv'
  <2>1. RowOK' BY <1>7 DEF MarkRefundOk
  <2>2. MoneyOK' BY <1>7 DEF MarkRefundOk
  <2>3. RequestsOK' BY <1>7 DEF MarkRefundOk
  <2>4. RefundsAlone' BY <1>7 DEF MarkRefundOk
  <2>5. (OpenUnpaid /\ PendingAsked /\ RefundedAnswered /\ PaidBounded)' BY <1>7 DEF MarkRefundOk
  <2>6. PaidByStep' BY <1>7 DEF MarkRefundOk
  <2>7. (PendingOnce /\ RefundedIsPaidOut)' BY <1>7 DEF MarkRefundOk
  <2> QED BY <2>1, <2>2, <2>3, <2>4, <2>5, <2>6, <2>7
<1>8. ASSUME NEW a \in Admins, MarkRefundPending(a) PROVE PInv'
  <2>0. plan[a] \in Plans OBVIOUS
  <2>1. RowOK'
    <3>1. CASE UNCHANGED row BY <3>1
    <3>2. CASE /\ status' = "REFUND_PENDING" /\ refundAmount' = plan[a].amount
               /\ audits' = audits \cup {"REFUND_PENDING"} /\ heldDetail' = plan[a].take
        BY <2>0, <3>2 DEF Plans
    <3> QED BY <1>8, <3>1, <3>2 DEF MarkRefundPending
  <2>2. MoneyOK' BY <1>8, <2>0 DEF MarkRefundPending
  <2>3. RequestsOK' BY <1>8, <2>0 DEF MarkRefundPending
  <2>4. RefundsAlone' BY <1>8, <2>0 DEF MarkRefundPending
  <2>5. (OpenUnpaid /\ PendingAsked /\ RefundedAnswered /\ PaidBounded)' BY <1>8, <2>0 DEF MarkRefundPending
  <2>6. PaidByStep' BY <1>8, <2>0 DEF MarkRefundPending
  <2>7. (PendingOnce /\ RefundedIsPaidOut)' BY <1>8, <2>0 DEF MarkRefundPending
  <2> QED BY <2>1, <2>2, <2>3, <2>4, <2>5, <2>6, <2>7
<1>9. ASSUME NEW a \in Admins, RollbackRefund(a) PROVE PInv'
  <2>1. RowOK' BY <1>9 DEF RollbackRefund
  <2>2. MoneyOK' BY <1>9 DEF RollbackRefund
  <2>3. RequestsOK' BY <1>9 DEF RollbackRefund
  <2>4. RefundsAlone' BY <1>9 DEF RollbackRefund
  <2>5. (OpenUnpaid /\ PendingAsked /\ RefundedAnswered /\ PaidBounded)' BY <1>9 DEF RollbackRefund
  <2>6. PaidByStep' BY <1>9 DEF RollbackRefund
  <2>7. (PendingOnce /\ RefundedIsPaidOut)' BY <1>9 DEF RollbackRefund
  <2> QED BY <2>1, <2>2, <2>3, <2>4, <2>5, <2>6, <2>7
<1>9a. ASSUME NEW a \in Admins, RecordRollback(a) PROVE PInv'
  <2>1. RowOK' BY <1>9a DEF RecordRollback
  <2>2. MoneyOK' BY <1>9a DEF RecordRollback
  <2>3. RequestsOK'
    <3>1. pc' \in [Admins -> Labels] /\ UNCHANGED <<plan, goods>> BY <1>9a DEF RecordRollback
    <3>2. faults' \in {faults, faults + 1} /\ mishaps' \in {mishaps, mishaps \cup {"unrecorded"}}
          BY <1>9a DEF RecordRollback
    <3>3. {"unrecorded"} \subseteq Losses OBVIOUS
    <3> QED BY <3>1, <3>2, <3>3
  <2>4. RefundsAlone' BY <1>9a DEF RecordRollback
  <2>5. (OpenUnpaid /\ PendingAsked /\ RefundedAnswered /\ PaidBounded)' BY <1>9a DEF RecordRollback
  <2>6. PaidByStep' BY <1>9a DEF RecordRollback
  <2>7. (PendingOnce /\ RefundedIsPaidOut)' BY <1>9a DEF RecordRollback
  <2> QED BY <2>1, <2>2, <2>3, <2>4, <2>5, <2>6, <2>7
<1>10. ASSUME NEW a \in Admins, RestoreStatus(a) PROVE PInv'
  <2>1. RowOK' BY <1>10 DEF RestoreStatus
  <2>2. MoneyOK' BY <1>10 DEF RestoreStatus
  <2>3. RequestsOK' BY <1>10 DEF RestoreStatus
  <2>4. RefundsAlone' BY <1>10 DEF RestoreStatus
  <2>5. (OpenUnpaid /\ PendingAsked /\ RefundedAnswered /\ PaidBounded)' BY <1>10 DEF RestoreStatus
  <2>6. PaidByStep' BY <1>10 DEF RestoreStatus
  <2>7. (PendingOnce /\ RefundedIsPaidOut)' BY <1>10 DEF RestoreStatus
  <2> QED BY <2>1, <2>2, <2>3, <2>4, <2>5, <2>6, <2>7
<1>11. ASSUME NEW a \in Admins, MarkRefundFailed(a) PROVE PInv'
  <2>1. RowOK' BY <1>11 DEF MarkRefundFailed
  <2>2. MoneyOK' BY <1>11 DEF MarkRefundFailed
  <2>3. RequestsOK' BY <1>11 DEF MarkRefundFailed
  <2>4. RefundsAlone' BY <1>11 DEF MarkRefundFailed
  <2>5. (OpenUnpaid /\ PendingAsked /\ RefundedAnswered /\ PaidBounded)' BY <1>11 DEF MarkRefundFailed
  <2>6. PaidByStep' BY <1>11 DEF MarkRefundFailed
  <2>7. (PendingOnce /\ RefundedIsPaidOut)' BY <1>11 DEF MarkRefundFailed
  <2> QED BY <2>1, <2>2, <2>3, <2>4, <2>5, <2>6, <2>7
<1>12. ASSUME NEW a \in Admins, QueryRefund(a) PROVE PInv'
  <2>1. RowOK' BY <1>12 DEF QueryRefund
  <2>2. MoneyOK' BY <1>12 DEF QueryRefund
  <2>3. RequestsOK' BY <1>12 DEF QueryRefund
  <2>4. RefundsAlone' BY <1>12 DEF QueryRefund
  <2>5. (OpenUnpaid /\ PendingAsked /\ RefundedAnswered /\ PaidBounded)' BY <1>12 DEF QueryRefund
  <2>6. PaidByStep' BY <1>12 DEF QueryRefund
  <2>7. (PendingOnce /\ RefundedIsPaidOut)' BY <1>12 DEF QueryRefund
  <2> QED BY <2>1, <2>2, <2>3, <2>4, <2>5, <2>6, <2>7
<1>13. ASSUME NEW a \in Admins, FinalizeSuccess(a) PROVE PInv'
  <2>1. RowOK' BY <1>13 DEF FinalizeSuccess
  <2>2. MoneyOK' BY <1>13 DEF FinalizeSuccess
  <2>3. RequestsOK' BY <1>13 DEF FinalizeSuccess
  <2>4. RefundsAlone' BY <1>13 DEF FinalizeSuccess
  <2>5. (OpenUnpaid /\ PendingAsked /\ RefundedAnswered /\ PaidBounded)' BY <1>13 DEF FinalizeSuccess
  <2>6. PaidByStep' BY <1>13 DEF FinalizeSuccess
  <2>7. (PendingOnce /\ RefundedIsPaidOut)' BY <1>13 DEF FinalizeSuccess
  <2> QED BY <2>1, <2>2, <2>3, <2>4, <2>5, <2>6, <2>7
<1>14. ASSUME NEW a \in Admins, FinalizeFailure(a) PROVE PInv'
  <2>1. RowOK' BY <1>14 DEF FinalizeFailure
  <2>2. MoneyOK' BY <1>14 DEF FinalizeFailure
  <2>3. RequestsOK' BY <1>14 DEF FinalizeFailure
  <2>4. RefundsAlone' BY <1>14 DEF FinalizeFailure
  <2>5. (OpenUnpaid /\ PendingAsked /\ RefundedAnswered /\ PaidBounded)' BY <1>14 DEF FinalizeFailure
  <2>6. PaidByStep' BY <1>14 DEF FinalizeFailure
  <2>7. (PendingOnce /\ RefundedIsPaidOut)' BY <1>14 DEF FinalizeFailure
  <2> QED BY <2>1, <2>2, <2>3, <2>4, <2>5, <2>6, <2>7
<1>15. ASSUME NEW a \in Admins, RecordFailure(a) PROVE PInv'
  <2>1. RowOK' BY <1>15 DEF RecordFailure
  <2>2. MoneyOK' BY <1>15 DEF RecordFailure
  <2>3. RequestsOK' BY <1>15 DEF RecordFailure
  <2>4. RefundsAlone' BY <1>15 DEF RecordFailure
  <2>5. (OpenUnpaid /\ PendingAsked /\ RefundedAnswered /\ PaidBounded)' BY <1>15 DEF RecordFailure
  <2>6. PaidByStep' BY <1>15 DEF RecordFailure
  <2>7. (PendingOnce /\ RefundedIsPaidOut)' BY <1>15 DEF RecordFailure
  <2> QED BY <2>1, <2>2, <2>3, <2>4, <2>5, <2>6, <2>7
<1>16. ASSUME NEW a \in Admins, Crash(a) PROVE PInv'
  <2>1. RowOK' BY <1>16 DEF Crash
  <2>2. MoneyOK' BY <1>16 DEF Crash
  <2>3. RequestsOK' BY <1>16 DEF Crash
  <2>4. RefundsAlone' BY <1>16 DEF Crash
  <2>5. (OpenUnpaid /\ PendingAsked /\ RefundedAnswered /\ PaidBounded)' BY <1>16 DEF Crash
  <2>6. PaidByStep' BY <1>16 DEF Crash
  <2>7. (PendingOnce /\ RefundedIsPaidOut)' BY <1>16 DEF Crash
  <2> QED BY <2>1, <2>2, <2>3, <2>4, <2>5, <2>6, <2>7
<1>17. CASE GatewayResolves
  <2>1. RowOK' BY <1>17 DEF GatewayResolves
  <2>2. MoneyOK' BY <1>17 DEF GatewayResolves
  <2>3. RequestsOK' BY <1>17 DEF GatewayResolves
  <2>4. RefundsAlone' BY <1>17 DEF GatewayResolves
  <2>5. (OpenUnpaid /\ PendingAsked /\ RefundedAnswered /\ PaidBounded)' BY <1>17 DEF GatewayResolves
  <2>6. PaidByStep' BY <1>17 DEF GatewayResolves
  <2>7. (PendingOnce /\ RefundedIsPaidOut)' BY <1>17 DEF GatewayResolves
  <2> QED BY <2>1, <2>2, <2>3, <2>4, <2>5, <2>6, <2>7
<1>18. CASE Spend
  <2>1. RowOK' BY <1>18 DEF Spend
  <2>2. MoneyOK' BY <1>18 DEF Spend
  <2>3. RequestsOK' BY <1>18 DEF Spend
  <2>4. RefundsAlone' BY <1>18 DEF Spend
  <2>5. (OpenUnpaid /\ PendingAsked /\ RefundedAnswered /\ PaidBounded)' BY <1>18 DEF Spend
  <2>6. PaidByStep' BY <1>18 DEF Spend
  <2>7. (PendingOnce /\ RefundedIsPaidOut)' BY <1>18 DEF Spend
  <2> QED BY <2>1, <2>2, <2>3, <2>4, <2>5, <2>6, <2>7
<1>19. CASE Activation
  <2> USE DEF Path!Begin, Path!Deliver, Path!Complete, Path!Fail, Path!Postpone, Path!Waiting
  <2>1. RowOK' BY <1>19 DEF Activation
  <2>2. MoneyOK' BY <1>19 DEF Activation
  <2>3. RequestsOK' BY <1>19 DEF Activation
  <2>4. RefundsAlone' BY <1>19 DEF Activation
  <2>5. (OpenUnpaid /\ PendingAsked /\ RefundedAnswered /\ PaidBounded)' BY <1>19 DEF Activation
  <2>6. PaidByStep' BY <1>19 DEF Activation
  <2>7. (PendingOnce /\ RefundedIsPaidOut)' BY <1>19 DEF Activation
  <2> QED BY <2>1, <2>2, <2>3, <2>4, <2>5, <2>6, <2>7
<1>20. CASE UNCHANGED vars BY <1>20 DEF vars
<1> QED BY <1>1, <1>2, <1>3, <1>4, <1>5, <1>6, <1>6a, <1>7, <1>8, <1>9, <1>9a, <1>10, <1>11,
           <1>12, <1>13, <1>14, <1>15, <1>16, <1>17, <1>18, <1>19, <1>20 DEF Next, Refund, Finalize

-----------------------------------------------------------------------------
(* The ledger of the user's balance.                                       *)

\* What is held covers what the attempts under way, and the pending refund, may give back.
HeldCovers ==
    /\ held >= 0
    /\ status = "REFUND_PENDING" => held >= heldDetail
    /\ \A a \in Admins :
          /\ pc[a] \in {"refund", "ok", "pend", "rollback"} => held >= plan[a].take
          /\ pc[a] \in {"won", "lost", "record"} => plan[a].take = heldDetail

HeldByStatus ==
    /\ held <= Amount
    /\ ~Flagged => /\ status \in Open => held = 0
                   /\ status = "REFUND_PENDING" => held = heldDetail
    /\ Flagged /\ status = "REFUND_PENDING" => heldDetail = 0

HeldByStep ==
    \A a \in Admins :
        /\ pc[a] \in {"deduct", "restore"} /\ ~Flagged => held = 0
        /\ pc[a] \in {"refund", "ok", "pend", "rollback"} =>
              IF Flagged THEN plan[a].take = 0 ELSE held = plan[a].take
        /\ pc[a] = "failed" /\ ~Flagged => held = 0

HInv == PInv /\ HeldCovers /\ (Recorded => HeldByStatus /\ HeldByStep)

LEMMA InitHInv == Init => HInv
BY InitPInv DEF Init, HInv, HeldCovers, HeldByStatus, HeldByStep

\* Whatever is lost: only what is held is given back.
LEMMA NextCovers == PInv /\ HeldCovers /\ [Next]_vars => HeldCovers'
<1> SUFFICES ASSUME PInv, HeldCovers, [Next]_vars PROVE HeldCovers'
    OBVIOUS
<1> USE DEF PInv, TypeOK, RowOK, MoneyOK, RequestsOK, RefundsAlone, PaidByStep, HeldCovers
<1>1. CASE RequestRefund BY <1>1 DEF RequestRefund
<1>2. ASSUME NEW a \in Admins, PrepareRefund(a) PROVE HeldCovers' BY <1>2 DEF PrepareRefund
<1>3. ASSUME NEW a \in Admins, ExecuteRefund(a) PROVE HeldCovers' BY <1>3 DEF ExecuteRefund
<1>4. ASSUME NEW a \in Admins, Deduct(a) PROVE HeldCovers' BY <1>4 DEF Deduct
<1>5. ASSUME NEW a \in Admins, DeductFails(a) PROVE HeldCovers' BY <1>5 DEF DeductFails
<1>6. ASSUME NEW a \in Admins, GatewayRefunds(a) PROVE HeldCovers' BY <1>6 DEF GatewayRefunds
<1>6a. ASSUME NEW a \in Admins, AnswerLost(a) PROVE HeldCovers' BY <1>6a DEF AnswerLost
<1>7. ASSUME NEW a \in Admins, MarkRefundOk(a) PROVE HeldCovers' BY <1>7 DEF MarkRefundOk
<1>8. ASSUME NEW a \in Admins, MarkRefundPending(a) PROVE HeldCovers' BY <1>8 DEF MarkRefundPending
<1>9. ASSUME NEW a \in Admins, RollbackRefund(a) PROVE HeldCovers' BY <1>9 DEF RollbackRefund
<1>9a. ASSUME NEW a \in Admins, RecordRollback(a) PROVE HeldCovers' BY <1>9a DEF RecordRollback
<1>10. ASSUME NEW a \in Admins, RestoreStatus(a) PROVE HeldCovers' BY <1>10 DEF RestoreStatus
<1>11. ASSUME NEW a \in Admins, MarkRefundFailed(a) PROVE HeldCovers' BY <1>11 DEF MarkRefundFailed
<1>12. ASSUME NEW a \in Admins, QueryRefund(a) PROVE HeldCovers' BY <1>12 DEF QueryRefund
<1>13. ASSUME NEW a \in Admins, FinalizeSuccess(a) PROVE HeldCovers' BY <1>13 DEF FinalizeSuccess
<1>14. ASSUME NEW a \in Admins, FinalizeFailure(a) PROVE HeldCovers' BY <1>14 DEF FinalizeFailure
<1>15. ASSUME NEW a \in Admins, RecordFailure(a) PROVE HeldCovers' BY <1>15 DEF RecordFailure
<1>16. ASSUME NEW a \in Admins, Crash(a) PROVE HeldCovers' BY <1>16 DEF Crash
<1>17. CASE GatewayResolves BY <1>17 DEF GatewayResolves
<1>18. CASE Spend BY <1>18 DEF Spend
<1>19. CASE Activation
    BY <1>19 DEF Activation, Path!Begin, Path!Deliver, Path!Complete, Path!Fail, Path!Postpone, Path!Waiting
<1>20. CASE UNCHANGED vars BY <1>20 DEF vars
<1> QED BY <1>1, <1>2, <1>3, <1>4, <1>5, <1>6, <1>6a, <1>7, <1>8, <1>9, <1>9a, <1>10, <1>11, <1>12,
           <1>13, <1>14, <1>15, <1>16, <1>17, <1>18, <1>19, <1>20 DEF Next, Refund, Finalize

\* A deduction takes some d, in spite of a flag only if the lookup hid it.
LEMMA DeductTakes ==
    ASSUME TypeOK, NEW a \in Admins, Deduct(a)
    PROVE  \E d \in 0 .. Amount :
              /\ held' = held + d /\ plan' = [plan EXCEPT ![a].take = d]
              /\ Flagged /\ Recorded' => d = 0
<1> USE DEF TypeOK, MoneyOK, RequestsOK
<1>1. plan[a].take \in 0 .. Amount OBVIOUS
<1>2. PICK seen \in BOOLEAN :
         LET d == IF seen THEN 0 ELSE Available(plan[a].take) IN
           Take(d) /\ Note(Flagged /\ d > 0, "flag") /\ plan' = [plan EXCEPT ![a].take = d]
      BY DEF Deduct
<1> DEFINE d == IF seen THEN 0 ELSE Available(plan[a].take)
<1>3. d \in 0 .. Amount BY <1>1
<1>4. held' = held + d /\ plan' = [plan EXCEPT ![a].take = d] BY <1>2
<1>5. Flagged /\ Recorded' => d = 0 BY <1>2, <1>3 DEF Recorded
<1> HIDE DEF d
<1> QED BY <1>3, <1>4, <1>5

\* While nothing is lost without a record, a step keeps the ledger exact.
LEMMA NextHeld ==
    HInv /\ Recorded /\ Recorded' /\ [Next]_vars => (HeldByStatus /\ HeldByStep)'
<1> SUFFICES ASSUME HInv, Recorded, Recorded', [Next]_vars PROVE HeldByStatus' /\ HeldByStep'
    OBVIOUS
<1> USE DEF HInv, PInv, TypeOK, RowOK, MoneyOK, RequestsOK, RefundsAlone, PaidByStep, HeldCovers,
            HeldByStatus, HeldByStep
<1>1. CASE RequestRefund
  <2>1. HeldByStatus' BY <1>1 DEF RequestRefund
  <2>2. HeldByStep' BY <1>1 DEF RequestRefund
  <2> QED BY <2>1, <2>2
<1>2. ASSUME NEW a \in Admins, PrepareRefund(a) PROVE HeldByStatus' /\ HeldByStep'
  <2>1. HeldByStatus' BY <1>2 DEF PrepareRefund
  <2>2. HeldByStep' BY <1>2 DEF PrepareRefund
  <2> QED BY <2>1, <2>2
<1>3. ASSUME NEW a \in Admins, ExecuteRefund(a) PROVE HeldByStatus' /\ HeldByStep'
  <2>1. HeldByStatus' BY <1>3 DEF ExecuteRefund
  <2>2. HeldByStep' BY <1>3 DEF ExecuteRefund
  <2> QED BY <2>1, <2>2
<1>4. ASSUME NEW a \in Admins, Deduct(a) PROVE HeldByStatus' /\ HeldByStep'
  <2>1. HeldByStatus' BY <1>4 DEF Deduct, Recorded
  <2>2. HeldByStep'
    <3>1. PICK d \in 0 .. Amount :
             /\ held' = held + d /\ plan' = [plan EXCEPT ![a].take = d]
             /\ Flagged /\ Recorded' => d = 0
          BY <1>4, DeductTakes
    <3>2. pc[a] = "deduct" /\ pc' = [pc EXCEPT ![a] = "refund"] /\ UNCHANGED row BY <1>4 DEF Deduct
    <3>3. ~Flagged => held = 0 BY <3>2
    <3> QED BY <3>1, <3>2, <3>3
  <2> QED BY <2>1, <2>2
<1>5. ASSUME NEW a \in Admins, DeductFails(a) PROVE HeldByStatus' /\ HeldByStep'
  <2>1. HeldByStatus' BY <1>5 DEF DeductFails, Recorded
  <2>2. HeldByStep' BY <1>5 DEF DeductFails, Recorded
  <2> QED BY <2>1, <2>2
<1>6. ASSUME NEW a \in Admins, GatewayRefunds(a) PROVE HeldByStatus' /\ HeldByStep'
  <2>1. HeldByStatus' BY <1>6 DEF GatewayRefunds
  <2>2. HeldByStep' BY <1>6 DEF GatewayRefunds
  <2> QED BY <2>1, <2>2
<1>6a. ASSUME NEW a \in Admins, AnswerLost(a) PROVE HeldByStatus' /\ HeldByStep'
  <2>1. HeldByStatus' BY <1>6a DEF AnswerLost
  <2>2. HeldByStep' BY <1>6a DEF AnswerLost
  <2> QED BY <2>1, <2>2
<1>7. ASSUME NEW a \in Admins, MarkRefundOk(a) PROVE HeldByStatus' /\ HeldByStep'
  <2>1. HeldByStatus' BY <1>7 DEF MarkRefundOk
  <2>2. HeldByStep' BY <1>7 DEF MarkRefundOk
  <2> QED BY <2>1, <2>2
<1>8. ASSUME NEW a \in Admins, MarkRefundPending(a) PROVE HeldByStatus' /\ HeldByStep'
  <2>1. HeldByStatus' BY <1>8 DEF MarkRefundPending
  <2>2. HeldByStep' BY <1>8 DEF MarkRefundPending
  <2> QED BY <2>1, <2>2
<1>9. ASSUME NEW a \in Admins, RollbackRefund(a) PROVE HeldByStatus' /\ HeldByStep'
  <2>1. HeldByStatus' BY <1>9 DEF RollbackRefund
  <2>2. HeldByStep' BY <1>9 DEF RollbackRefund
  <2> QED BY <2>1, <2>2
<1>9a. ASSUME NEW a \in Admins, RecordRollback(a) PROVE HeldByStatus' /\ HeldByStep'
  <2>1. HeldByStatus' BY <1>9a DEF RecordRollback, Recorded
  <2>2. HeldByStep' BY <1>9a DEF RecordRollback, Recorded
  <2> QED BY <2>1, <2>2
<1>10. ASSUME NEW a \in Admins, RestoreStatus(a) PROVE HeldByStatus' /\ HeldByStep'
  <2>1. HeldByStatus' BY <1>10 DEF RestoreStatus
  <2>2. HeldByStep' BY <1>10 DEF RestoreStatus
  <2> QED BY <2>1, <2>2
<1>11. ASSUME NEW a \in Admins, MarkRefundFailed(a) PROVE HeldByStatus' /\ HeldByStep'
  <2>1. HeldByStatus' BY <1>11 DEF MarkRefundFailed
  <2>2. HeldByStep' BY <1>11 DEF MarkRefundFailed
  <2> QED BY <2>1, <2>2
<1>12. ASSUME NEW a \in Admins, QueryRefund(a) PROVE HeldByStatus' /\ HeldByStep'
  <2>1. HeldByStatus' BY <1>12 DEF QueryRefund
  <2>2. HeldByStep' BY <1>12 DEF QueryRefund
  <2> QED BY <2>1, <2>2
<1>13. ASSUME NEW a \in Admins, FinalizeSuccess(a) PROVE HeldByStatus' /\ HeldByStep'
  <2>1. HeldByStatus' BY <1>13 DEF FinalizeSuccess
  <2>2. HeldByStep' BY <1>13 DEF FinalizeSuccess
  <2> QED BY <2>1, <2>2
<1>14. ASSUME NEW a \in Admins, FinalizeFailure(a) PROVE HeldByStatus' /\ HeldByStep'
  <2>1. HeldByStatus' BY <1>14 DEF FinalizeFailure
  <2>2. HeldByStep' BY <1>14 DEF FinalizeFailure
  <2> QED BY <2>1, <2>2
<1>15. ASSUME NEW a \in Admins, RecordFailure(a) PROVE HeldByStatus' /\ HeldByStep'
  <2>1. HeldByStatus' BY <1>15 DEF RecordFailure
  <2>2. HeldByStep' BY <1>15 DEF RecordFailure
  <2> QED BY <2>1, <2>2
<1>16. ASSUME NEW a \in Admins, Crash(a) PROVE HeldByStatus' /\ HeldByStep'
  <2>1. HeldByStatus' BY <1>16 DEF Crash
  <2>2. HeldByStep' BY <1>16 DEF Crash
  <2> QED BY <2>1, <2>2
<1>17. CASE GatewayResolves
  <2>1. HeldByStatus' BY <1>17 DEF GatewayResolves
  <2>2. HeldByStep' BY <1>17 DEF GatewayResolves
  <2> QED BY <2>1, <2>2
<1>18. CASE Spend
  <2>1. HeldByStatus' BY <1>18 DEF Spend
  <2>2. HeldByStep' BY <1>18 DEF Spend
  <2> QED BY <2>1, <2>2
<1>19. CASE Activation
  <2> USE DEF Path!Begin, Path!Deliver, Path!Complete, Path!Fail, Path!Postpone, Path!Waiting
  <2>1. HeldByStatus' BY <1>19 DEF Activation
  <2>2. HeldByStep' BY <1>19 DEF Activation
  <2> QED BY <2>1, <2>2
<1>20. CASE UNCHANGED vars
  <2>1. HeldByStatus' BY <1>20 DEF vars
  <2>2. HeldByStep' BY <1>20 DEF vars
  <2> QED BY <2>1, <2>2
<1> QED BY <1>1, <1>2, <1>3, <1>4, <1>5, <1>6, <1>6a, <1>7, <1>8, <1>9, <1>9a, <1>10, <1>11, <1>12,
           <1>13, <1>14, <1>15, <1>16, <1>17, <1>18, <1>19, <1>20 DEF Next, Refund, Finalize

\* What was lost stays lost.
LEMMA LossesStay == Next => mishaps \subseteq mishaps'
BY DEF Next, Refund, Finalize, RequestRefund, PrepareRefund, ExecuteRefund, Deduct, DeductFails,
       GatewayRefunds, AnswerLost, MarkRefundOk, MarkRefundPending, RollbackRefund, RecordRollback,
       RestoreStatus, MarkRefundFailed, QueryRefund, FinalizeSuccess, FinalizeFailure, RecordFailure,
       Crash, GatewayResolves, Spend, Activation

LEMMA NextHInv == HInv /\ [Next]_vars => HInv'
<1> SUFFICES ASSUME HInv, [Next]_vars PROVE HInv'
    OBVIOUS
<1>1. PInv' BY NextPInv DEF HInv
<1>2. HeldCovers' BY NextCovers DEF HInv
<1>3. Recorded' => Recorded BY LossesStay DEF Recorded, vars, failures
<1>4. Recorded' => (HeldByStatus /\ HeldByStep)' BY <1>3, NextHeld
<1> QED BY <1>1, <1>2, <1>4 DEF HInv

-----------------------------------------------------------------------------
(* PaymentRefund implements RefundPromise.                                 *)

\* A new order has promised nothing yet.
LEMMA PromiseInit == Init => Promise!Init
<1> SUFFICES ASSUME Init PROVE Promise!Init
    OBVIOUS
<1>1. mishaps = {} /\ held = 0 /\ paidOut = 0 /\ gateway = "none" BY DEF Init
<1> QED BY ONLY <1>1 DEF Promise!Init, Answered, Recorded

\* The balance moves in four steps, the provider's money in three; the ledgers of the
\* two invariants say that each finds the promise where it may be taken on.
LEMMA PromiseStep == HInv /\ [Next]_vars => [Promise!Next]_Promise!vars
<1> USE DEF Promise!vars, Promise!Unpaid, Promise!Known, Recorded
<1> SUFFICES ASSUME HInv, [Next]_vars PROVE [Promise!Next]_Promise!vars
    OBVIOUS
<1> USE DEF HInv, PInv, TypeOK, MoneyOK, RequestsOK
<1>1. ASSUME NEW a \in Admins, Deduct(a) \/ DeductFails(a) PROVE [Promise!Deduct]_Promise!vars
  <2>0. plan[a].take \in 0 .. Amount /\ held >= 0 BY DEF HeldCovers
  <2>1. PICK d \in 0 .. Amount : held' = held + d /\ (d > 0 /\ Recorded' => ~Flagged)
    <3>1. CASE Deduct(a) BY <3>1, DeductTakes
    <3>2. CASE DeductFails(a) BY <2>0, <3>2 DEF DeductFails
    <3> QED BY <1>1, <3>1, <3>2
  <2>2. UNCHANGED <<provider, Answered>> /\ (Recorded' => Recorded) BY <1>1 DEF Deduct, DeductFails
  <2>3. (Answered => paidOut = 0) /\ gateway # "pending"
        BY <1>1 DEF Deduct, DeductFails, PaidByStep, Settled
  <2>4. d > 0 /\ Recorded' => held = 0 BY <1>1, <2>1, <2>2 DEF HeldByStep, Deduct, DeductFails
  <2>5. CASE d = 0
    <3>1. held' = held BY <2>0, <2>1, <2>5
    <3>2. UNCHANGED mishaps BY <1>1, <2>0, <2>1, <2>5, <3>1 DEF Deduct, DeductFails
    <3> QED BY <2>2, <3>1, <3>2
  <2>6. CASE d > 0
    <3>1. held' - held \in 1 .. Amount BY <2>0, <2>1, <2>6
    <3>2. Recorded' => Recorded /\ held = 0 BY <2>2, <2>4, <2>6
    <3> QED BY <2>2, <2>3, <3>1, <3>2 DEF Promise!Deduct
  <2> QED BY <2>5, <2>6
<1>2. ASSUME NEW a \in Admins, RollbackRefund(a) PROVE [Promise!GiveBack]_Promise!vars
  <2>1. (Answered => paidOut = 0) /\ gateway # "pending" BY <1>2 DEF RollbackRefund, PaidByStep, Settled
  <2>2. Recorded => IF Flagged THEN plan[a].take = 0 ELSE held = plan[a].take
        BY <1>2 DEF RollbackRefund, HeldByStep
  <2>3. plan[a].take \in 0 .. held BY <1>2 DEF HeldCovers, RollbackRefund
  <2>4. held' \in {held, held - plan[a].take} /\ UNCHANGED <<provider, mishaps>>
        BY <1>2, <2>3 DEF RollbackRefund
  <2>5. CASE held' = held BY <2>4, <2>5
  <2>6. CASE held' # held
    <3>1. held' \in 0 .. held - 1 /\ plan[a].take # 0 BY <2>3, <2>4, <2>6
    <3>2. Recorded => held' = 0 BY <2>2, <2>3, <2>4, <2>6, <3>1
    <3> QED BY <2>1, <2>4, <3>1, <3>2 DEF Promise!GiveBack
  <2> QED BY <2>5, <2>6
<1>3. ASSUME NEW a \in Admins, FinalizeFailure(a) PROVE [Promise!GiveBack]_Promise!vars
  <2>1. held' = held \/ (status = "REFUND_PENDING" /\ held' = held - plan[a].take)
        BY <1>3 DEF FinalizeFailure
  <2>2. UNCHANGED <<provider, mishaps>> /\ pc[a] = "lost" BY <1>3 DEF FinalizeFailure
  <2>3. status = "REFUND_PENDING" => (Answered => paidOut = 0) /\ gateway = "failed"
        BY <2>2 DEF PaidByStep, PendingAsked, Asked, Paid
  <2>4. status = "REFUND_PENDING" => plan[a].take \in 0 .. held BY <2>2 DEF HeldCovers
  <2>5. status = "REFUND_PENDING" /\ Recorded => plan[a].take = IF Flagged THEN 0 ELSE held
        BY <2>2 DEF HeldCovers, HeldByStatus
  <2>6. CASE held' = held BY <2>2, <2>6
  <2>7. CASE held' # held
    <3>1. status = "REFUND_PENDING" /\ held' = held - plan[a].take BY <2>1, <2>7
    <3>2. held' \in 0 .. held - 1 /\ plan[a].take # 0 BY <2>4, <2>7, <3>1
    <3>3. Recorded => held' = 0 BY <2>5, <3>1, <3>2
    <3> QED BY <2>2, <2>3, <3>1, <3>2, <3>3 DEF Promise!GiveBack
  <2> QED BY <2>6, <2>7
<1>4. ASSUME NEW a \in Admins, GatewayRefunds(a) \/ AnswerLost(a)
      PROVE [Promise!Pay \/ Promise!Ask]_Promise!vars
  <2>1. (Answered => paidOut = 0) /\ gateway # "pending"
        BY <1>4 DEF GatewayRefunds, AnswerLost, PaidByStep, Settled
  <2>2. plan[a].amount \in 1 .. Amount OBVIOUS
  <2>3. UNCHANGED <<held, Recorded>> /\ (Answered' => Answered) BY <1>4 DEF GatewayRefunds, AnswerLost
  <2>4. CASE paidOut' = paidOut + plan[a].amount
    <3>1. gateway' = "none" BY <1>4, <2>2, <2>4 DEF GatewayRefunds, AnswerLost
    <3>2. paidOut' - paidOut \in 1 .. Amount BY <2>2, <2>4
    <3> QED BY <2>1, <2>3, <3>1, <3>2 DEF Promise!Pay
  <2>5. CASE paidOut' = paidOut
    <3>1. UNCHANGED mishaps BY <1>4, <2>2, <2>5 DEF GatewayRefunds, AnswerLost
    <3>2. gateway' \in {"none", "pending"} BY <1>4 DEF GatewayRefunds, AnswerLost
    <3> QED BY <2>1, <2>3, <2>5, <3>1, <3>2 DEF Promise!Ask
  <2> QED BY <1>4, <2>4, <2>5 DEF GatewayRefunds, AnswerLost
<1>5. ASSUME GatewayResolves PROVE [Promise!Pay \/ Promise!Refuse]_Promise!vars
  <2>1. (Answered => paidOut = 0) /\ asked \in 1 .. Amount
        BY <1>5 DEF GatewayResolves, PaidBounded
  <2>2. UNCHANGED <<held, mishaps>> /\ gateway = "pending" /\ gateway' # "pending"
        BY <1>5 DEF GatewayResolves
  <2>3. paidOut' \in {paidOut, paidOut + asked} BY <1>5 DEF GatewayResolves
  <2>4. CASE paidOut' = paidOut BY <2>2, <2>4 DEF Promise!Refuse
  <2>5. CASE paidOut' = paidOut + asked
    <3>1. paidOut' - paidOut \in 1 .. Amount BY <2>1, <2>5
    <3> QED BY <2>1, <2>2, <3>1 DEF Promise!Pay
  <2> QED BY <2>3, <2>4, <2>5
<1>6. ASSUME NEW a \in Admins, RecordRollback(a) PROVE [Promise!Lose]_Promise!vars
  <2>1. UNCHANGED <<held, provider, Answered>> /\ (Recorded' => Recorded) BY <1>6 DEF RecordRollback
  <2> QED BY <2>1 DEF Promise!Lose
<1>7. ASSUME NEW a \in Admins,
             \/ PrepareRefund(a) \/ ExecuteRefund(a) \/ MarkRefundOk(a)
             \/ MarkRefundPending(a) \/ RestoreStatus(a) \/ MarkRefundFailed(a)
             \/ QueryRefund(a) \/ FinalizeSuccess(a) \/ RecordFailure(a) \/ Crash(a)
      PROVE UNCHANGED Promise!vars
      BY <1>7 DEF PrepareRefund, ExecuteRefund, MarkRefundOk, MarkRefundPending, RestoreStatus,
                  MarkRefundFailed, QueryRefund, FinalizeSuccess, RecordFailure, Crash
<1>8. ASSUME RequestRefund \/ Spend \/ Activation
      PROVE UNCHANGED Promise!vars
      BY <1>8 DEF RequestRefund, Spend, Activation
<1>9. CASE UNCHANGED vars BY <1>9 DEF vars
<1> QED BY <1>1, <1>2, <1>3, <1>4, <1>5, <1>6, <1>7, <1>8, <1>9
        DEF Next, Refund, Finalize, Promise!Next

-----------------------------------------------------------------------------
(* Theorems.                                                               *)

\* Every variable keeps its type: an amount never leaves its range.
THEOREM RefundTypes == Spec => []TypeOK
<1>1. PInv => TypeOK BY DEF PInv
<1> QED BY InitPInv, NextPInv, <1>1, PTL DEF Spec

\* The updates of an attempt that go by the order's id alone touch a row that is
\* REFUNDING and belongs to that attempt (ExecuteRefund).
THEOREM RefundsExclude == Spec => []RefundsAlone
<1>1. PInv => RefundsAlone BY DEF PInv
<1> QED BY InitPInv, NextPInv, <1>1, PTL DEF Spec

\* However often a refund is tried, and whatever else fails, the provider pays at most
\* the order's amount as long as no error hid a payment (handleGwFail takes every error
\* for a refusal).
THEOREM PaysOutOnce == Spec => []PaidOutOnce
<1>1. PInv => PaidOutOnce BY DEF PInv, PaidBounded, PaidOutOnce
<1> QED BY InitPInv, NextPInv, <1>1, PTL DEF Spec

\* A refunded order was refunded by at least the amount it shows, and by just that
\* amount if no error hid a payment (markRefundOk, finalizePendingRefundSuccess).
THEOREM RefundedMeansPaidOut == Spec => []RefundedIsPaidOut
<1>1. PInv => RefundedIsPaidOut BY DEF PInv
<1> QED BY InitPInv, NextPInv, <1>1, PTL DEF Spec

\* Whatever fails, the user is deducted a second time only after a deduction was lost
\* without a record: its answer, the row of REFUND_ROLLBACK_FAILED or its lookup.
THEOREM DeductsOnce == Spec => []DeductedOnce
<1>1. HInv => DeductedOnce BY DEF HInv, HeldByStatus, DeductedOnce
<1> QED BY InitHInv, NextHInv, <1>1, PTL DEF Spec

\* What an order open to another refund holds of the user's balance is on record,
\* whatever fails but that record itself (RollbackRefund, writeAuditLog).
THEOREM HeldIsOnRecord == Spec => []HeldIsAccountedFor
<1>1. HInv => HeldIsAccountedFor
  BY DEF HInv, HeldByStatus, HeldIsAccountedFor
<1> QED BY InitHInv, NextHInv, <1>1, PTL DEF Spec

\* The attempts of all requests together move the balance and the provider's money as
\* one careful refund would, each up to the errors that RefundPromise names for it.
THEOREM PromiseKept == Spec => KeepsPromise
<1> QED BY InitHInv, PromiseInit, NextHInv, PromiseStep, PTL DEF Spec, KeepsPromise, Promise!Spec

=============================================================================
