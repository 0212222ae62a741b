---------------------------- MODULE PaymentRefund ----------------------------
(***************************************************************************)
(* Refunds of one order (internal/service/payment_refund.go): a status     *)
(* row, the user's balance, the provider's money and the audit rows change *)
(* one after the other, with no transaction around them.                   *)
(*                                                                         *)
(* Admins are the requests that refund or finalise the order, on any       *)
(* instance.  The order is a delivered balance order, or a paid            *)
(* subscription renewal that waits for its activation while handlers of    *)
(* its payment activate it (FulfilmentPath, which PaymentOrder             *)
(* implements); the deduction of a delivered subscription's days is not    *)
(* modelled.                                                               *)
(***************************************************************************)
EXTENDS Integers

CONSTANTS
    Admins,     \* request goroutines, over all instances
    Amount,     \* what the order credited and cost, in units
    Balance,    \* the user's balance at the start
    Overdraft,  \* how far usage may take the balance below zero (a bound)
    Renewals,   \* which orders are considered: renewals (TRUE), balance orders (FALSE)
    FaultKinds, \* which failures may happen
    MaxFaults   \* bound on the failures of one behaviour

ASSUME AmountAssumption == Amount \in Nat \ {0} /\ Balance \in Int /\ Overdraft \in Nat
ASSUME RenewalsAssumption == Renewals \subseteq BOOLEAN
ASSUME FaultAssumption ==
    /\ FaultKinds \subseteq {"deduct", "status", "rollback", "record", "flag", "answer", "crash"}
    /\ MaxFaults \in Nat

VARIABLES
    status,       \* payment_orders.status
    refundAmount, \* payment_orders.refund_amount
    audits,       \* actions in payment_audit_logs, unique per order
    heldDetail,   \* the deduction recorded by the REFUND_PENDING row
    balance,      \* the user's balance
    held,         \* (history) deducted by refunds and not given back
    gateway,      \* the provider's last word on a refund it did not answer at once
    asked,        \* the amount of that refund
    paidOut,      \* (history) what the provider gave back
    renewal,      \* the order is a renewal, not activated at the start
    delivered,    \* the goods were delivered (SUBSCRIPTION_ASSIGNED for a renewal)
    pc,           \* what each admin request does next
    plan,         \* the RefundPlan of each admin request
    faults,       \* failures injected so far
    mishaps       \* (history) what was lost without a trace, by name

row == <<status, refundAmount, audits, heldDetail>>
user == <<balance, held>>
provider == <<gateway, asked, paidOut>>
goods == <<renewal, delivered>>
failures == <<faults, mishaps>>
vars == <<row, user, provider, goods, pc, plan, failures>>

Statuses == {"PAID", "SCHEDULED", "FAILED", "RECHARGING", "COMPLETED", "REFUND_REQUESTED",
             "REFUNDING", "REFUND_PENDING", "PARTIALLY_REFUNDED", "REFUNDED", "REFUND_FAILED"}
Undelivered == {"PAID", "SCHEDULED", "FAILED"}
Labels == {"idle", "execute", "deduct", "refund", "ok", "pend", "rollback", "log",
           "restore", "failed", "won", "lost", "record"}
Losses == {"answer", "flag", "deducted", "unrecorded"}
Plans == [amount : 1 .. Amount, take : 0 .. Amount, from : Statuses, scheduled : BOOLEAN]

RowOK ==
    /\ status \in Statuses /\ refundAmount \in 0 .. Amount
    /\ audits \in SUBSET {"REFUND_PENDING", "REFUND_FAILED", "REFUND_ROLLBACK_FAILED"}
    /\ heldDetail \in 0 .. Amount

MoneyOK ==
    /\ balance \in Int /\ held \in Int
    /\ gateway \in {"none", "pending", "succeeded", "failed"}
    /\ asked \in 0 .. Amount /\ paidOut \in Nat

RequestsOK ==
    /\ renewal \in BOOLEAN /\ delivered \in BOOLEAN
    /\ pc \in [Admins -> Labels] /\ plan \in [Admins -> Plans]
    /\ faults \in Nat /\ mishaps \subseteq Losses

TypeOK == RowOK /\ MoneyOK /\ RequestsOK

Init ==
    /\ renewal \in Renewals /\ delivered = ~renewal
    /\ status \in IF renewal THEN {"PAID", "SCHEDULED"} ELSE {"COMPLETED"}
    /\ refundAmount = 0 /\ audits = {} /\ heldDetail = 0
    /\ balance = Balance /\ held = 0
    /\ gateway = "none" /\ asked = 0 /\ paidOut = 0
    /\ pc = [a \in Admins |-> "idle"]
    /\ plan = [a \in Admins |-> [amount |-> Amount, take |-> 0, from |-> "COMPLETED", scheduled |-> FALSE]]
    /\ faults = 0 /\ mishaps = {}

-----------------------------------------------------------------------------

Goto(a, label) == pc' = [pc EXCEPT ![a] = label]
Fault(kind) == kind \in FaultKinds /\ faults < MaxFaults /\ faults' = faults + 1
Note(happened, loss) == mishaps' = IF happened THEN mishaps \cup {loss} ELSE mishaps

AvailableUnclamped(n) == IF balance < n THEN balance ELSE n  \* mutant: without GREATEST

\* LEAST(amount, GREATEST(balance, 0)).
Available(n) == IF balance < 0 THEN 0 ELSE IF balance < n THEN balance ELSE n

\* markRefundOk and markRefundOkTx.
Refunded(n) == IF n < Amount THEN "PARTIALLY_REFUNDED" ELSE "REFUNDED"

\* restoreStatus goes by the status the plan was made on.
Restored(p) == IF p.from = "REFUND_REQUESTED" THEN "REFUND_REQUESTED" ELSE "COMPLETED"

-----------------------------------------------------------------------------
(* The user asks; an admin plans and executes.                             *)

RequestRefund ==
    /\ ~renewal /\ status = "COMPLETED" /\ balance >= Amount
    /\ status' = "REFUND_REQUESTED" /\ refundAmount' = Amount
    /\ UNCHANGED <<audits, heldDetail, user, provider, goods, pc, plan, failures>>

Refundable(scheduled) ==
    {"COMPLETED", "REFUND_REQUESTED", "REFUND_FAILED"} \cup (IF scheduled THEN Undelivered ELSE {})

\* PrepareRefund and prepDeduct.  An admin chooses the amount and whether to deduct;
\* the plan keeps the status, the balance and the activation it read.
PrepareRefund(a) ==
    /\ pc[a] = "idle"
    /\ LET scheduled == renewal /\ ~delivered IN
       /\ status \in Refundable(scheduled)
       /\ renewal => scheduled
       /\ \E n \in 1 .. Amount, deduct \in BOOLEAN :
             /\ scheduled => n = Amount
             /\ plan' = [plan EXCEPT ![a] =
                   [amount |-> n, take |-> IF deduct /\ ~scheduled THEN Available(n) ELSE 0,
                    from |-> status, scheduled |-> scheduled]]
    /\ Goto(a, "execute")
    /\ UNCHANGED <<row, user, provider, goods, failures>>

\* Mutant: the order is locked whatever it is.
LockableAnyway(p) == Statuses
Lockable(p) ==
    IF p.scheduled THEN Undelivered \cup {"REFUND_FAILED"}
    ELSE {"COMPLETED", "REFUND_REQUESTED", "REFUND_FAILED"}

\* ExecuteRefund locks the order by one conditional update.
ExecuteRefund(a) ==
    /\ pc[a] = "execute"
    /\ IF status \in Lockable(plan[a])
       THEN status' = "REFUNDING" /\ Goto(a, IF plan[a].take > 0 THEN "deduct" ELSE "refund")
       ELSE status' = status /\ Goto(a, "idle")
    /\ UNCHANGED <<refundAmount, audits, heldDetail, user, provider, goods, plan, failures>>

Flagged == "REFUND_ROLLBACK_FAILED" \in audits
Take(n) == balance' = balance - n /\ held' = held + n

\* A deduction that an earlier attempt could not roll back is not repeated.  The
\* lookup of its flag takes an error for absence.
Deduct(a) ==
    /\ pc[a] = "deduct"
    /\ \E seen \in BOOLEAN :
          /\ IF seen = Flagged THEN UNCHANGED faults ELSE ~seen /\ Fault("flag")
          /\ LET d == IF seen THEN 0 ELSE Available(plan[a].take) IN
             /\ Take(d) /\ Note(Flagged /\ d > 0, "flag")
             /\ plan' = [plan EXCEPT ![a].take = d]
    /\ Goto(a, "refund")
    /\ UNCHANGED <<row, provider, goods>>

\* The deduction fails (with the lookup, if there is a flag), or only its answer is
\* lost: what it took is then neither given back nor recorded.
DeductFails(a) ==
    /\ pc[a] = "deduct" /\ Fault(IF Flagged THEN "flag" ELSE "deduct")
    /\ \E d \in {0, Available(plan[a].take)} :
          Take(d) /\ Note(d > 0, IF Flagged THEN "flag" ELSE "deducted")
    /\ Goto(a, "restore")
    /\ UNCHANGED <<row, provider, goods, plan>>

-----------------------------------------------------------------------------
(* The provider's answer.                                                  *)

\* Mutant: a pending answer is taken for a success.
GatewayRefundsPendingOk(a) ==
    /\ pc[a] = "refund"
    /\ asked' = plan[a].amount
    /\ \/ gateway' = "none" /\ paidOut' = paidOut + plan[a].amount /\ Goto(a, "ok")
       \/ gateway' = "none" /\ paidOut' = paidOut /\ Goto(a, "rollback")
       \/ gateway' = "pending" /\ paidOut' = paidOut /\ Goto(a, "ok")
    /\ UNCHANGED <<row, user, goods, plan, failures>>

\* gwRefund and finishRefund: done, refused, or not final.  Every error is taken for a
\* refusal, one that hides a payment too; paidOut counts what is paid then or later.
GatewayRefunds(a) ==
    /\ pc[a] = "refund"
    /\ asked' = plan[a].amount
    /\ \/ gateway' = "none" /\ paidOut' = paidOut + plan[a].amount /\ Goto(a, "ok")
       \/ gateway' = "none" /\ paidOut' = paidOut /\ Goto(a, "rollback")
       \/ gateway' = "pending" /\ paidOut' = paidOut /\ Goto(a, "pend")
    /\ UNCHANGED <<row, user, goods, plan, failures>>

AnswerLost(a) ==
    /\ pc[a] = "refund" /\ Fault("answer") /\ Note(TRUE, "answer")
    /\ asked' = plan[a].amount /\ gateway' = "none" /\ paidOut' = paidOut + plan[a].amount
    /\ Goto(a, "rollback")
    /\ UNCHANGED <<row, user, goods, plan>>

MarkRefundOk(a) ==
    /\ pc[a] = "ok" /\ Goto(a, "idle")
    /\ \/ /\ status' = Refunded(plan[a].amount) /\ refundAmount' = plan[a].amount
          /\ UNCHANGED faults
       \/ UNCHANGED <<status, refundAmount>> /\ Fault("status")
    /\ UNCHANGED <<audits, heldDetail, user, provider, goods, plan, mishaps>>

\* The status and the REFUND_PENDING row are written in one transaction, which the
\* unique index on (order_id, action) refuses the second time.
MarkRefundPending(a) ==
    /\ pc[a] = "pend" /\ Goto(a, "idle")
    /\ IF "REFUND_PENDING" \in audits THEN UNCHANGED row
       ELSE /\ status' = "REFUND_PENDING" /\ refundAmount' = plan[a].amount
            /\ audits' = audits \cup {"REFUND_PENDING"} /\ heldDetail' = plan[a].take
    /\ UNCHANGED <<user, provider, goods, plan, failures>>

\* RollbackRefund gives the deduction back; that fails, or only its answer is lost.
RollbackRefund(a) ==
    /\ pc[a] = "rollback"
    /\ \E back \in BOOLEAN :
          /\ IF back THEN Take(-plan[a].take) ELSE UNCHANGED user
          /\ \/ back /\ Goto(a, "restore") /\ UNCHANGED faults
             \/ plan[a].take > 0 /\ Fault("rollback") /\ Goto(a, "log")
    /\ UNCHANGED <<row, provider, goods, plan, mishaps>>

\* Mutant: the rollback is not recorded when it fails.
RollbackRecordForgotten == audits
RollbackRecord == audits \cup {"REFUND_ROLLBACK_FAILED"}

\* The flag of a failed rollback is written as well as may be (an audit row that
\* exists already is left as it is).
RecordRollback(a) ==
    /\ pc[a] = "log" /\ Goto(a, "failed")
    /\ \/ audits' = RollbackRecord /\ UNCHANGED failures
       \/ audits' = audits /\ Fault("record") /\ Note(~Flagged /\ held > 0, "unrecorded")
    /\ UNCHANGED <<status, refundAmount, heldDetail, user, provider, goods, plan>>

RestoreStatus(a) ==
    /\ pc[a] = "restore" /\ Goto(a, "idle")
    /\ \/ status' = Restored(plan[a]) /\ UNCHANGED faults
       \/ status' = status /\ Fault("status")
    /\ UNCHANGED <<refundAmount, audits, heldDetail, user, provider, goods, plan, mishaps>>

MarkRefundFailed(a) ==
    /\ pc[a] = "failed" /\ Goto(a, "idle")
    /\ \/ /\ status' = "REFUND_FAILED" /\ audits' = audits \cup {"REFUND_FAILED"}
          /\ UNCHANGED faults
       \/ status' = status /\ audits' = audits \cup {"REFUND_FAILED"} /\ Fault("status")
       \/ status' = "REFUND_FAILED" /\ audits' = audits /\ Fault("record")
    /\ UNCHANGED <<refundAmount, heldDetail, user, provider, goods, plan, mishaps>>

-----------------------------------------------------------------------------
(* A refund that was pending.                                              *)

GatewayResolves ==
    /\ gateway = "pending"
    /\ \/ gateway' = "succeeded" /\ paidOut' = paidOut + asked
       \/ gateway' = "failed" /\ paidOut' = paidOut
    /\ UNCHANGED <<row, user, asked, goods, pc, plan, failures>>

\* QueryAndFinalizeRefund up to the provider's answer; the plan is rebuilt from the
\* order and the REFUND_PENDING row.
QueryRefund(a) ==
    /\ pc[a] = "idle" /\ status = "REFUND_PENDING" /\ gateway \in {"succeeded", "failed"}
    /\ plan' = [plan EXCEPT ![a] = [amount |-> refundAmount, take |-> heldDetail,
                                    from |-> status, scheduled |-> FALSE]]
    /\ Goto(a, IF gateway = "succeeded" THEN "won" ELSE "lost")
    /\ UNCHANGED <<row, user, provider, goods, failures>>

\* finalizePendingRefundSuccess: the deduction was held, so nothing more is taken.
FinalizeSuccess(a) ==
    /\ pc[a] = "won" /\ Goto(a, "idle")
    /\ status' = IF status = "REFUND_PENDING" THEN Refunded(plan[a].amount) ELSE status
    /\ UNCHANGED <<refundAmount, audits, heldDetail, user, provider, goods, plan, failures>>

\* finalizeRefundFailedTx claims the order, gives the deduction back and writes the
\* REFUND_FAILED row, or nothing of it; when giving back fails, a second transaction
\* records that instead.
Claimable == status = "REFUND_PENDING" /\ "REFUND_FAILED" \notin audits

FinalizeFailure(a) ==
    /\ pc[a] = "lost"
    /\ \/ /\ Claimable /\ status' = "REFUND_FAILED" /\ audits' = audits \cup {"REFUND_FAILED"}
          /\ balance' = balance + plan[a].take /\ held' = held - plan[a].take
          /\ Goto(a, "idle") /\ UNCHANGED faults
       \/ ~Claimable /\ UNCHANGED <<status, audits, user, faults>> /\ Goto(a, "idle")
       \/ /\ status = "REFUND_PENDING" /\ plan[a].take > 0 /\ Fault("rollback")
          /\ UNCHANGED <<status, audits, user>> /\ Goto(a, "record")
    /\ UNCHANGED <<refundAmount, heldDetail, provider, goods, plan, mishaps>>

RecordFailure(a) ==
    /\ pc[a] = "record" /\ Goto(a, "idle")
    /\ IF Claimable /\ "REFUND_ROLLBACK_FAILED" \notin audits
       THEN /\ status' = "REFUND_FAILED"
            /\ audits' = audits \cup {"REFUND_FAILED", "REFUND_ROLLBACK_FAILED"}
       ELSE UNCHANGED <<status, audits>>
    /\ UNCHANGED <<refundAmount, heldDetail, user, provider, goods, plan, failures>>

\* The request's process dies or its context ends.
Crash(a) ==
    /\ pc[a] # "idle" /\ Fault("crash")
    /\ Goto(a, "idle")
    /\ UNCHANGED <<row, user, provider, goods, plan, mishaps>>

-----------------------------------------------------------------------------
(* The user's requests, and the activation of a renewal.                   *)

Spend ==
    /\ balance > -Overdraft /\ balance' = balance - 1
    /\ UNCHANGED <<row, held, provider, goods, pc, plan, failures>>

Path == INSTANCE FulfilmentPath

\* Handlers that serve the payment meanwhile.  Those that lost the lease deliver even
\* when the order is being refunded: the transaction does not look at the status.
Activation ==
    /\ renewal
    /\ Path!Begin \/ Path!Deliver \/ Path!Complete \/ Path!Fail \/ Path!Postpone
    /\ UNCHANGED <<refundAmount, audits, heldDetail, user, provider, renewal, pc, plan, failures>>

-----------------------------------------------------------------------------

Finalize(a) == FinalizeSuccess(a) \/ FinalizeFailure(a) \/ RecordFailure(a)

Refund(a) ==
    \/ ExecuteRefund(a) \/ Deduct(a) \/ GatewayRefunds(a) \/ AnswerLost(a) \/ MarkRefundOk(a)
    \/ MarkRefundPending(a) \/ RollbackRefund(a) \/ RecordRollback(a) \/ RestoreStatus(a)
    \/ MarkRefundFailed(a)

Next ==
    \/ RequestRefund
    \/ \E a \in Admins : PrepareRefund(a) \/ Refund(a) \/ DeductFails(a)
                         \/ QueryRefund(a) \/ Finalize(a) \/ Crash(a)
    \/ GatewayResolves \/ Spend \/ Activation

Spec == Init /\ [][Next]_vars

-----------------------------------------------------------------------------
(* Properties.                                                             *)

\* Requests between the lock of ExecuteRefund and the end of their attempt.
Inside == {"deduct", "refund", "ok", "pend", "rollback", "log", "restore", "failed"}

\* Every update after the lock goes by the order's id alone: it is right only
\* because nobody else is inside and the order stays REFUNDING meanwhile.
RefundsAlone ==
    \A a \in Admins : pc[a] \in Inside =>
        status = "REFUNDING" /\ \A b \in Admins \ {a} : pc[b] \notin Inside

\* No error hid a payment of the provider.
Answered == "answer" \notin mishaps

\* No deduction was lost without a record: its answer, the flag's row or its lookup.
Recorded == mishaps \cap {"flag", "deducted", "unrecorded"} = {}

\* Over any number of attempts, answers and failed rollbacks the user loses no more
\* than the order gave (the REFUND_ROLLBACK_FAILED flag, the held deduction).
DeductedOnce == Recorded => held <= Amount

\* Over any number of attempts the provider gives back no more than was paid.
PaidOutOnce == Answered => paidOut <= Amount

\* Whatever the attempts of all requests do in between, the user's balance and the
\* provider's money move only as RefundPromise allows (the plan, the flag of a failed
\* rollback and the held deduction keep the attempts from moving them again).
Promise == INSTANCE RefundPromise
    WITH pending <- gateway = "pending", answered <- Answered, recorded <- Recorded
KeepsPromise == Promise!Spec

\* An order that says refunded was refunded, by just the amount it says; by no less
\* when an error had hidden a payment of an earlier attempt.
RefundedIsPaidOut ==
    status \in {"REFUNDED", "PARTIALLY_REFUNDED"} =>
        paidOut >= refundAmount /\ (Answered => paidOut = refundAmount)

\* An order at rest that may be refunded again holds nothing of the user's, unless
\* the failed rollback is on record for the next attempt to see.
HeldIsAccountedFor ==
    Recorded /\ held > 0 /\ status \in {"COMPLETED", "REFUND_REQUESTED", "REFUND_FAILED"}
        => Flagged

\* payment_refund.go, markRefundPending: the status and the audit row are written in
\* one transaction so that finalisation finds the held deduction: a refund the provider
\* has pending is REFUND_PENDING once its request has ended.
PendingIsRecorded ==
    gateway = "pending" /\ (\A a \in Admins : pc[a] \notin Inside) => status = "REFUND_PENDING"

\* docs/PAYMENT.md: COMPLETED is an order whose goods were delivered.
CompletedIsDelivered == status = "COMPLETED" => delivered

=============================================================================
