---------------------------- MODULE PaymentOrder ----------------------------
(***************************************************************************)
(* One payment order of internal/service: creation, upstream payment,      *)
(* webhook, cancellation, expiry, the fulfilment lease and the fulfilment  *)
(* itself (balance recharge or subscription, the latter possibly a renewal *)
(* that waits for a grandfathered term to end).                            *)
(*                                                                         *)
(* Handlers are the goroutines that serve requests about the order on any  *)
(* instance: a webhook, a user or admin cancellation, a verification, an   *)
(* admin retry, a pass of the expiry service.  A handler's steps are the   *)
(* database statements, transactions and provider calls of the code; they  *)
(* interleave freely.                                                      *)
(*                                                                         *)
(* Every save of the row refreshes updated_at, which is also the version   *)
(* of the fulfilment lease.  Only two facts about it are ever used: whether*)
(* it is at least five minutes old (aged: lease duration and expiry grace  *)
(* are both five minutes) and whether it still equals the value a handler  *)
(* remembers (the handler is in holds).                                    *)
(***************************************************************************)
EXTENDS Naturals

CONSTANTS
    Handlers,    \* request goroutines, over all instances
    Kinds,       \* the kinds of order considered
    FaultKinds,  \* which failures may happen
    MaxFaults    \* bound on the failures of one behaviour

ASSUME KindsAssumption == Kinds \subseteq {"balance", "subscription", "renewal"}
ASSUME FaultAssumption ==
    /\ FaultKinds \subseteq {"create", "query", "read", "statement", "commit", "crash", "extend"}
    /\ MaxFaults \in Nat

VARIABLES
    status,       \* payment_orders.status
    paidAt,       \* payment_orders.paid_at is set
    aged,         \* updated_at is at least five minutes old
    holds,        \* handlers whose remembered lease version equals updated_at
    code,         \* the order's redeem code: "none", "unused" or "used"
    assigned,     \* the SUBSCRIPTION_ASSIGNED audit row exists
    afterExpiry,  \* the PAYMENT_AFTER_EXPIRY audit row exists
    grants,       \* how many times the user got what was bought
    rebates,      \* how many times the inviter's rebate was accrued
    kind,         \* order_type; a renewal is a subscription with a renewal snapshot
    legacyActive, \* the grandfathered subscription has not ended
    creating,     \* CreateOrder has not returned yet
    upstream,     \* the payment at the provider
    pc,           \* what each handler does next
    target,       \* the status a cancelling handler wants
    hook,         \* handlers that serve a webhook delivery
    acked,        \* a webhook delivery was answered with success
    faults        \* failures injected so far

row == <<status, paidAt, aged, holds>>
goods == <<code, assigned, afterExpiry, grants, rebates>>
world == <<kind, legacyActive, creating, upstream>>
vars == <<row, goods, world, pc, target, hook, acked, faults>>

OrderStatuses == {"PENDING", "SCHEDULED", "PAID", "RECHARGING", "COMPLETED",
                  "EXPIRED", "CANCELLED", "FAILED", "REFUNDING"}
Leasable == {"PAID", "SCHEDULED", "FAILED"}
Labels == {"idle", "query", "close", "cancel", "reconcile", "notify", "already",
           "fulfil", "defer", "postpone", "lease", "reload", "work", "create",
           "redeem", "redeeming", "assign", "rebate", "complete", "fail", "reset"}

RowOK ==
    /\ status \in OrderStatuses /\ paidAt \in BOOLEAN /\ aged \in BOOLEAN
    /\ holds \in SUBSET Handlers

GoodsOK ==
    /\ code \in {"none", "unused", "used"} /\ assigned \in BOOLEAN /\ afterExpiry \in BOOLEAN
    /\ grants \in Nat /\ rebates \in Nat

WorldOK ==
    /\ kind \in {"balance", "subscription", "renewal"}
    /\ legacyActive \in BOOLEAN /\ creating \in BOOLEAN
    /\ upstream \in {"none", "open", "paid", "closed"}

HandlersOK ==
    /\ pc \in [Handlers -> Labels]
    /\ target \in [Handlers -> {"CANCELLED", "EXPIRED"}]
    /\ hook \in SUBSET Handlers /\ acked \in BOOLEAN /\ faults \in Nat

TypeOK == RowOK /\ GoodsOK /\ WorldOK /\ HandlersOK

\* createOrderInTx has committed the PENDING row; CreateOrder now calls the provider.
Init ==
    /\ status = "PENDING" /\ paidAt = FALSE /\ aged = FALSE /\ holds = {}
    /\ code = "none" /\ assigned = FALSE /\ afterExpiry = FALSE /\ grants = 0 /\ rebates = 0
    /\ kind \in Kinds /\ legacyActive = (kind = "renewal") /\ creating = TRUE /\ upstream = "none"
    /\ pc = [h \in Handlers |-> "idle"]
    /\ target = [h \in Handlers |-> "CANCELLED"]
    /\ hook = {} /\ acked = FALSE /\ faults = 0

-----------------------------------------------------------------------------
(* Steps of a handler, of the row and of the failure budget.               *)

\* Any save of the row: updated_at becomes now, so no remembered version matches.
Save(s) == status' = s /\ aged' = FALSE /\ holds' = {}

Goto(h, label) == pc' = [pc EXCEPT ![h] = label]

\* The handler returns; a webhook handler that returns no error acknowledges.
Return(h, ok) ==
    /\ Goto(h, "idle")
    /\ hook' = hook \ {h}
    /\ acked' = (acked \/ (ok /\ h \in hook))

LeaseFree == status \in Leasable \/ (status = "RECHARGING" /\ aged)

\* The condition of every update by the lease's owner.
OwnsAnyRow(h) == TRUE  \* mutant: the update has no condition
Owns(h) == status = "RECHARGING" /\ h \in holds

Fault(f) == f \in FaultKinds /\ faults < MaxFaults /\ faults' = faults + 1

-----------------------------------------------------------------------------
(* CreateOrder, after the insert.                                          *)

\* The provider accepted the payment and the row got its payment details.
CreateSucceeds ==
    /\ creating /\ creating' = FALSE
    /\ upstream' = "open"
    /\ Save(status)
    /\ UNCHANGED <<paidAt, goods, kind, legacyActive, pc, target, hook, acked, faults>>

\* The provider call or the save failed: the row becomes FAILED whatever it was,
\* though the provider may have created the payment.
CreateFails ==
    /\ creating /\ creating' = FALSE
    /\ Fault("create")
    /\ upstream' \in {upstream, "open"}
    /\ Save("FAILED")
    /\ UNCHANGED <<paidAt, goods, kind, legacyActive, pc, target, hook, acked>>

-----------------------------------------------------------------------------
(* Cancellation, expiry and reconciliation against the provider.           *)

BeginCancel(h, s) ==
    /\ pc[h] = "idle" /\ status = "PENDING"
    /\ target' = [target EXCEPT ![h] = s]
    /\ Goto(h, "query")
    /\ UNCHANGED <<row, goods, world, hook, acked, faults>>

BeginReconcile(h) ==
    /\ pc[h] = "idle" /\ status \in {"PENDING", "EXPIRED"}
    /\ Goto(h, "reconcile")
    /\ UNCHANGED <<row, goods, world, target, hook, acked, faults>>

\* checkPaid: a paid upstream order is handed to the notification path, after
\* its trade number was saved if the row did not have it.
QueryPaid(h) ==
    /\ pc[h] \in {"query", "reconcile"} /\ upstream = "paid"
    /\ Goto(h, "notify")
    /\ \/ UNCHANGED row
       \/ Save(status) /\ UNCHANGED paidAt
    /\ UNCHANGED <<goods, world, target, hook, acked, faults>>

\* Not paid upstream, or the query failed: a cancellation goes on, and it first
\* closes the upstream order unless the query failed.
QueryUnpaid(h) ==
    /\ pc[h] \in {"query", "reconcile"}
    /\ IF upstream = "paid" THEN Fault("query") ELSE UNCHANGED faults
    /\ IF pc[h] = "reconcile" THEN Goto(h, "idle")
       ELSE \/ Goto(h, "cancel")
            \/ upstream # "paid" /\ Goto(h, "close")
    /\ UNCHANGED <<row, goods, world, target, hook, acked>>

\* CancelPayment is best effort: its error is ignored, and not every provider has it.
CloseUpstream(h) ==
    /\ pc[h] = "close"
    /\ Goto(h, "cancel")
    /\ upstream' \in {upstream} \cup (IF upstream = "open" THEN {"closed"} ELSE {})
    /\ UNCHANGED <<row, goods, kind, legacyActive, creating, target, hook, acked, faults>>

\* Mutant: the provider's word for the state is written to the row.
FinishCancelClosed(h) ==
    /\ pc[h] = "cancel"
    /\ Goto(h, "idle")
    /\ Save("CLOSED")
    /\ UNCHANGED <<paidAt, goods, world, target, hook, acked, faults>>

FinishCancel(h) ==
    /\ pc[h] = "cancel"
    /\ Goto(h, "idle")
    /\ IF status = "PENDING" THEN Save(target[h]) /\ UNCHANGED paidAt ELSE UNCHANGED row
    /\ UNCHANGED <<goods, world, target, hook, acked, faults>>

-----------------------------------------------------------------------------
(* Payment notification.                                                   *)

\* A delivery of the provider's webhook; it may be late, repeated or concurrent.
Deliver(h) ==
    /\ pc[h] = "idle" /\ upstream = "paid"
    /\ Goto(h, "notify")
    /\ hook' = hook \cup {h}
    /\ UNCHANGED <<row, goods, world, target, acked, faults>>

ToPaid(h) ==
    /\ pc[h] = "notify"
    /\ IF status \in {"PENDING", "CANCELLED"} \/ (status = "EXPIRED" /\ ~aged)
       THEN /\ Save(IF kind = "renewal" /\ legacyActive THEN "SCHEDULED" ELSE "PAID")
            /\ paidAt' = TRUE
            /\ Goto(h, "fulfil")
       ELSE Goto(h, "already") /\ UNCHANGED row
    /\ UNCHANGED <<goods, world, target, hook, acked, faults>>

\* The conditional update matched no row: what the order is now decides.
AlreadyProcessed(h) ==
    /\ pc[h] = "already"
    /\ IF status \in Leasable \cup {"RECHARGING"}
       THEN Goto(h, "fulfil") /\ UNCHANGED <<hook, acked>>
       ELSE Return(h, TRUE)
    /\ afterExpiry' = (afterExpiry \/ status = "EXPIRED")
    /\ UNCHANGED <<row, code, assigned, grants, rebates, world, target, faults>>

\* A failed read of the order is reported as success by confirmPayment and
\* alreadyProcessed: the provider will not deliver again.
NotificationUnread(h) ==
    /\ pc[h] \in {"notify", "already"} /\ Fault("read")
    /\ Return(h, TRUE)
    /\ UNCHANGED <<row, goods, world, target>>

-----------------------------------------------------------------------------
(* Fulfilment: entry points, lease.                                        *)

\* RetryFulfillment by an admin.
RetriesUnpaid == status \in Leasable \cup {"RECHARGING"}  \* mutant: paid_at is not checked
Retriable == paidAt /\ status \in Leasable \cup {"RECHARGING"}

Retry(h) ==
    /\ pc[h] = "idle" /\ Retriable
    /\ Goto(h, "fulfil")
    /\ UNCHANGED <<row, goods, world, target, hook, acked, faults>>

\* ActivateDueSubscriptionRenewals by the expiry service, never on a fresh lease.
Activate(h) ==
    /\ pc[h] = "idle" /\ kind = "renewal" /\ paidAt
    /\ LeaseFree
    /\ Goto(h, "fulfil")
    /\ UNCHANGED <<row, goods, world, target, hook, acked, faults>>

\* ExecuteBalanceFulfillment and ExecuteSubscriptionFulfillment, up to the lease.
Fulfil(h) ==
    /\ pc[h] = "fulfil"
    /\ IF status \in {"PAID", "FAILED", "RECHARGING"}
                     \cup (IF kind # "balance" THEN {"SCHEDULED"} ELSE {})
       THEN Goto(h, IF kind = "renewal" THEN "defer" ELSE "lease") /\ UNCHANGED <<hook, acked>>
       ELSE Return(h, status = "COMPLETED")
    /\ UNCHANGED <<row, goods, world, target, faults>>

\* deferSubscriptionRenewal reads the assignment and the grandfathered term...
DeferRead(h) ==
    /\ pc[h] = "defer"
    /\ IF ~paidAt THEN Return(h, FALSE)
       ELSE /\ Goto(h, IF ~assigned /\ legacyActive THEN "postpone" ELSE "lease")
            /\ UNCHANGED <<hook, acked>>
    /\ UNCHANGED <<row, goods, world, target, faults>>

\* ...and sends an order that is not due back to wait.
Postpone(h) ==
    /\ pc[h] = "postpone"
    /\ IF status \in Leasable THEN Save("SCHEDULED") /\ UNCHANGED paidAt ELSE UNCHANGED row
    /\ Return(h, TRUE)
    /\ UNCHANGED <<goods, world, target, faults>>

AcquireLease(h) ==
    /\ pc[h] = "lease"
    /\ IF LeaseFree
       THEN /\ Save("RECHARGING")
            /\ Goto(h, "reload")
            /\ UNCHANGED <<paidAt, hook, acked>>
       ELSE UNCHANGED row /\ Return(h, status = "COMPLETED")
    /\ UNCHANGED <<goods, world, target, faults>>

\* The lease version is read back in a statement of its own.
ReloadLease(h) ==
    /\ pc[h] = "reload"
    /\ IF status = "RECHARGING"
       THEN holds' = holds \cup {h} /\ Goto(h, "work") /\ UNCHANGED <<hook, acked>>
       ELSE UNCHANGED holds /\ Return(h, FALSE)
    /\ UNCHANGED <<status, paidAt, aged, goods, world, target, faults>>

-----------------------------------------------------------------------------
(* doBalance.                                                              *)

LookupCode(h) ==
    /\ pc[h] = "work" /\ kind = "balance"
    /\ Goto(h, IF code = "used" THEN "rebate" ELSE IF code = "unused" THEN "redeem" ELSE "create")
    /\ UNCHANGED <<row, goods, world, target, hook, acked, faults>>

CreateCode(h) ==
    /\ pc[h] = "create"
    /\ IF code = "none" THEN code' = "unused" /\ Goto(h, "redeem")
       ELSE UNCHANGED code /\ Goto(h, "fail")
    /\ UNCHANGED <<row, assigned, afterExpiry, grants, rebates, world, target, hook, acked, faults>>

\* The Redis lock of the code turns a second redeemer away, unless it has expired
\* or Redis is down.
LockCode(h) ==
    /\ pc[h] = "redeem"
    /\ \/ Goto(h, "redeeming")
       \/ (\E g \in Handlers \ {h} : pc[g] = "redeeming") /\ Goto(h, "fail")
    /\ UNCHANGED <<row, goods, world, target, hook, acked, faults>>

CodeExists == code # "none"  \* mutant: the code is not checked again under the row lock
Redeemable == code = "unused"

\* One transaction: the code turns used only if it is unused, and credits the user.
\* An error after the commit is reported like any other.
Redeem(h) ==
    /\ pc[h] = "redeeming" /\ Redeemable
    /\ code' = "used" /\ grants' = grants + 1
    /\ \/ Goto(h, "rebate") /\ UNCHANGED faults
       \/ Goto(h, "fail") /\ Fault("commit")
    /\ UNCHANGED <<row, assigned, afterExpiry, rebates, world, target, hook, acked>>

RedeemRefused(h) ==
    /\ pc[h] = "redeeming" /\ ~Redeemable
    /\ Goto(h, "fail")
    /\ UNCHANGED <<row, goods, world, target, hook, acked, faults>>

-----------------------------------------------------------------------------
(* doSub.                                                                  *)

BeginAssign(h) ==
    /\ pc[h] = "work" /\ kind # "balance"
    /\ Goto(h, IF assigned THEN "rebate" ELSE "assign")
    /\ UNCHANGED <<row, goods, world, target, hook, acked, faults>>

GrantsOnAssign == IF assigned THEN grants ELSE grants + 1

\* The assignment transaction: the grandfathered source is locked and checked,
\* the subscription is assigned or extended, and the audit row, unique for the
\* order, decides between concurrent transactions.
Assign(h) ==
    /\ pc[h] = "assign" /\ ~(kind = "renewal" /\ legacyActive)
    /\ assigned' = TRUE
    /\ grants' = GrantsOnAssign
    /\ \/ Goto(h, "rebate") /\ UNCHANGED faults
       \/ Goto(h, "fail") /\ Fault("commit")
    /\ UNCHANGED <<row, code, afterExpiry, rebates, world, target, hook, acked>>

\* Mutant: the deferral is taken for success.
AssignDeferredDone(h) ==
    /\ pc[h] = "assign" /\ kind = "renewal" /\ legacyActive
    /\ Goto(h, "complete")
    /\ UNCHANGED <<row, goods, world, target, hook, acked, faults>>

AssignDeferred(h) ==
    /\ pc[h] = "assign" /\ kind = "renewal" /\ legacyActive
    /\ Goto(h, "reset")
    /\ UNCHANGED <<row, goods, world, target, hook, acked, faults>>

\* errSubscriptionRenewalDeferred: the lease owner sends the order back to wait.
ResetScheduled(h) ==
    /\ pc[h] = "reset"
    /\ IF Owns(h)
       THEN Save("SCHEDULED") /\ UNCHANGED paidAt ELSE UNCHANGED row
    /\ Return(h, TRUE)
    /\ UNCHANGED <<goods, world, target, faults>>

-----------------------------------------------------------------------------
(* Rebate and end of the fulfilment.                                       *)

RebatesOnApply == IF rebates = 0 THEN 1 ELSE rebates

\* The APPLIED audit row is claimed and the rebate accrued in one transaction.
ApplyRebate(h) ==
    /\ pc[h] = "rebate"
    /\ rebates' = RebatesOnApply
    /\ \/ Goto(h, "complete") /\ UNCHANGED faults
       \/ Goto(h, "fail") /\ Fault("commit")
    /\ UNCHANGED <<row, code, assigned, afterExpiry, grants, world, target, hook, acked>>

MarkCompleted(h) ==
    /\ pc[h] = "complete"
    /\ IF Owns(h)
       THEN Save("COMPLETED") /\ UNCHANGED paidAt /\ Return(h, TRUE)
       ELSE /\ UNCHANGED row
            /\ IF status = "COMPLETED" THEN Return(h, TRUE)
               ELSE Goto(h, "fail") /\ UNCHANGED <<hook, acked>>
    /\ UNCHANGED <<goods, world, target, faults>>

MarkFailed(h) ==
    /\ pc[h] = "fail"
    /\ IF Owns(h)
       THEN Save("FAILED") /\ UNCHANGED paidAt ELSE UNCHANGED row
    /\ Return(h, FALSE)
    /\ UNCHANGED <<goods, world, target, faults>>

\* A statement of the fulfilment fails without effect.
WorkFails(h) ==
    /\ pc[h] \in {"work", "create", "redeem", "redeeming", "assign", "rebate"}
    /\ Fault("statement")
    /\ Goto(h, "fail")
    /\ UNCHANGED <<row, goods, world, target, hook, acked>>

\* The process dies, or the request context ends: nothing more is done for it.
Crash(h) ==
    /\ pc[h] # "idle" /\ Fault("crash")
    /\ Goto(h, "idle") /\ hook' = hook \ {h}
    /\ holds' = holds \ {h}
    /\ UNCHANGED <<status, paidAt, aged, goods, world, target, acked>>

-----------------------------------------------------------------------------
(* The world outside.                                                      *)

UserPays ==
    /\ upstream = "open" /\ upstream' = "paid"
    /\ UNCHANGED <<row, goods, kind, legacyActive, creating, pc, target, hook, acked, faults>>

FiveMinutesPass ==
    /\ ~aged /\ aged' = TRUE
    /\ UNCHANGED <<status, paidAt, holds, goods, world, pc, target, hook, acked, faults>>

\* The grandfathered term ends; an administrator may also extend it again.
LegacyTermChanges ==
    /\ kind = "renewal"
    /\ IF legacyActive THEN UNCHANGED faults ELSE Fault("extend")
    /\ legacyActive' = ~legacyActive
    /\ UNCHANGED <<row, goods, kind, creating, upstream, pc, target, hook, acked>>

\* An admin's refund locks a delivered order, or a renewal that waits; its plan may be
\* older than the delivery.  REFUNDING stands for every status of a refund, which
\* PaymentRefund has in detail.
Refund ==
    /\ status = "COMPLETED" \/ (kind = "renewal" /\ paidAt /\ status \in Leasable)
    /\ Save("REFUNDING")
    /\ UNCHANGED <<paidAt, goods, world, pc, target, hook, acked, faults>>

-----------------------------------------------------------------------------

Work(h) ==
    \/ QueryPaid(h) \/ QueryUnpaid(h) \/ CloseUpstream(h) \/ FinishCancel(h)
    \/ ToPaid(h) \/ AlreadyProcessed(h)
    \/ Fulfil(h) \/ DeferRead(h) \/ Postpone(h) \/ AcquireLease(h) \/ ReloadLease(h)
    \/ LookupCode(h) \/ CreateCode(h) \/ LockCode(h) \/ Redeem(h) \/ RedeemRefused(h)
    \/ BeginAssign(h) \/ Assign(h) \/ AssignDeferred(h) \/ ResetScheduled(h)
    \/ ApplyRebate(h) \/ MarkCompleted(h) \/ MarkFailed(h)

Request(h) ==
    \/ \E s \in {"CANCELLED", "EXPIRED"} : BeginCancel(h, s)
    \/ BeginReconcile(h) \/ Deliver(h) \/ Retry(h) \/ Activate(h)

Next ==
    \/ CreateSucceeds \/ CreateFails
    \/ \E h \in Handlers : Request(h) \/ Work(h) \/ NotificationUnread(h) \/ WorkFails(h) \/ Crash(h)
    \/ UserPays \/ FiveMinutesPass \/ LegacyTermChanges \/ Refund

Spec == Init /\ [][Next]_vars

\* Handlers run to their end; the provider delivers until it is acknowledged and
\* each delivery is served; the expiry service passes every minute; time passes
\* and a grandfathered term ends.
Fairness ==
    /\ \A h \in Handlers : WF_vars(Work(h))
    /\ SF_vars(~acked /\ \E h \in Handlers : Deliver(h))
    /\ SF_vars(\E h \in Handlers : Activate(h))
    /\ WF_vars(FiveMinutesPass)
    /\ WF_vars(legacyActive /\ LegacyTermChanges)

FairSpec == Spec /\ Fairness

-----------------------------------------------------------------------------
(* Properties.                                                             *)

\* What was bought is delivered once, whatever handlers crash, repeat, steal the
\* lease or work on after they lost it (doBalance, ensurePaymentSubscriptionAssigned).
GrantedAtMostOnce == grants <= 1

\* COMPLETED means delivered and rebated, even when the completing handler is
\* not the one that delivered.
CompletedIsGranted == status = "COMPLETED" => grants = 1 /\ rebates = 1

\* COMPLETED is final for fulfilment, cancellation, expiry and creation, and so is a
\* refund: a stale handler cannot reopen the order.
CompletedIsFinal ==
    [][(status \in {"COMPLETED", "REFUNDING"}) => status' \in {status, "REFUNDING"}]_vars

\* The order of a renewal whose creation failed, while the provider has the payment:
\* toPaid and the activation pass it by, and deferSubscriptionRenewal refuses it.
Stranded == kind = "renewal" /\ status = "FAILED" /\ ~paidAt


\* The order, with its handlers, lease, crashes and retries, does nothing but what
\* PaymentPromise allows.
Promise == INSTANCE PaymentPromise
               WITH paid <- upstream = "paid", granted <- grants = 1, rebated <- rebates = 1
KeepsPromise == Promise!Spec

\* Whatever its handlers do, crash or do late, the order moves only as FulfilmentPath
\* says, on which refunds rely: COMPLETED only with the goods, from there only into a
\* refund, which no handler disturbs, the goods once (the conditional updates of
\* toPaid, the lease, markCompleted, markFailed and deferSubscriptionRenewal).
Path == INSTANCE FulfilmentPath
            WITH status <- IF status \in {"PENDING", "CANCELLED", "EXPIRED"} THEN "UNPAID" ELSE status,
                 delivered <- grants = 1
FollowsPath == Path!Spec

=============================================================================
