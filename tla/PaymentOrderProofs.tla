------------------------- MODULE PaymentOrderProofs -------------------------
(***************************************************************************)
(* The fulfilment of a payment order delivers once, for every number of    *)
(* handlers, every bound on failures and every kind of order.              *)
(*                                                                         *)
(* None of the properties is inductive.  What makes them so is the tie     *)
(* between the goods and the row that makes their delivery idempotent (the *)
(* redeem code or the audit row), what a handler knows by the step it has  *)
(* reached, and that no path leads to fulfilment but from a paid payment.  *)
(***************************************************************************)
EXTENDS PaymentOrder, TLAPS

\* Steps that only a handler told of the payment reaches.
AfterPaid == Labels \ {"idle", "query", "close", "cancel", "reconcile"}

\* The idempotency row of the order's kind is set exactly when the goods are delivered.
GoodsMatchRows ==
    /\ grants = IF code = "used" \/ assigned THEN 1 ELSE 0
    /\ kind = "balance" => ~assigned
    /\ kind # "balance" => code = "none"

\* A handler works on orders of its kind, and knows what it did.
StepsKnow ==
    \A h \in Handlers :
        /\ pc[h] \in {"create", "redeem", "redeeming"} => kind = "balance"
        /\ pc[h] = "assign" => kind # "balance"
        /\ pc[h] \in {"rebate", "complete"} => grants = 1
        /\ pc[h] = "complete" => rebates = 1
        /\ pc[h] \in AfterPaid => upstream = "paid"

\* Money before goods before rebate.
MoneyFirst ==
    /\ creating => upstream = "none"
    /\ paidAt \/ grants = 1 => upstream = "paid"
    /\ rebates \in {0, 1} /\ (rebates = 1 => grants = 1)

IInv == TypeOK /\ GoodsMatchRows /\ StepsKnow /\ MoneyFirst /\ CompletedIsGranted

USE DEF row, goods, world, Save, Goto, Return, Fault, LeaseFree, Owns, Retriable, Redeemable,
        GrantsOnAssign, RebatesOnApply, OrderStatuses, Leasable, Labels, AfterPaid

LEMMA InitIInv == Init => IInv
<1> SUFFICES ASSUME Init PROVE IInv
    OBVIOUS
<1>1. TypeOK BY KindsAssumption DEF Init, TypeOK, RowOK, GoodsOK, WorldOK, HandlersOK
<1>2. GoodsMatchRows BY DEF Init, GoodsMatchRows
<1>3. StepsKnow BY DEF Init, StepsKnow
<1>4. MoneyFirst BY DEF Init, MoneyFirst
<1>5. CompletedIsGranted BY DEF Init, CompletedIsGranted
<1> QED BY <1>1, <1>2, <1>3, <1>4, <1>5 DEF IInv

LEMMA NextIInv == IInv /\ [Next]_vars => IInv'
<1> USE DEF IInv, TypeOK, RowOK, GoodsOK, WorldOK, HandlersOK, GoodsMatchRows, StepsKnow, MoneyFirst, CompletedIsGranted
<1> SUFFICES ASSUME IInv, [Next]_vars PROVE IInv'
    OBVIOUS
<1>1. CASE CreateSucceeds
  <2>1. RowOK' BY <1>1 DEF CreateSucceeds
  <2>2. GoodsOK' BY <1>1 DEF CreateSucceeds
  <2>3. WorldOK' BY <1>1 DEF CreateSucceeds
  <2>4. HandlersOK' BY <1>1 DEF CreateSucceeds
  <2>5. GoodsMatchRows' BY <1>1 DEF CreateSucceeds
  <2>6. StepsKnow' BY <1>1 DEF CreateSucceeds
  <2>7. MoneyFirst' /\ CompletedIsGranted' BY <1>1 DEF CreateSucceeds
  <2> QED BY <2>1, <2>2, <2>3, <2>4, <2>5, <2>6, <2>7
<1>2. CASE CreateFails
  <2>1. RowOK' BY <1>2 DEF CreateFails
  <2>2. GoodsOK' BY <1>2 DEF CreateFails
  <2>3. WorldOK' BY <1>2 DEF CreateFails
  <2>4. HandlersOK' BY <1>2 DEF CreateFails
  <2>5. GoodsMatchRows' BY <1>2 DEF CreateFails
  <2>6. StepsKnow' BY <1>2 DEF CreateFails
  <2>7. MoneyFirst' /\ CompletedIsGranted' BY <1>2 DEF CreateFails
  <2> QED BY <2>1, <2>2, <2>3, <2>4, <2>5, <2>6, <2>7
<1>3. ASSUME NEW h \in Handlers, Request(h) PROVE IInv'
  <2>1. ASSUME NEW s \in {"CANCELLED", "EXPIRED"}, BeginCancel(h, s) PROVE IInv'
        BY <2>1 DEF BeginCancel
  <2>2. CASE BeginReconcile(h) BY <2>2 DEF BeginReconcile
  <2>3. CASE Deliver(h) BY <2>3 DEF Deliver
  <2>4. CASE Retry(h) BY <2>4 DEF Retry
  <2>5. CASE Activate(h) BY <2>5 DEF Activate
  <2> QED BY <1>3, <2>1, <2>2, <2>3, <2>4, <2>5 DEF Request
<1>4. ASSUME NEW h \in Handlers, Work(h) PROVE IInv'
  <2>1. CASE QueryPaid(h)
    <3>1. RowOK' BY <2>1 DEF QueryPaid
    <3>2. GoodsOK' BY <2>1 DEF QueryPaid
    <3>3. WorldOK' BY <2>1 DEF QueryPaid
    <3>4. HandlersOK' BY <2>1 DEF QueryPaid
    <3>5. GoodsMatchRows' BY <2>1 DEF QueryPaid
    <3>6. StepsKnow' BY <2>1 DEF QueryPaid
    <3>7. MoneyFirst' /\ CompletedIsGranted' BY <2>1 DEF QueryPaid
    <3> QED BY <3>1, <3>2, <3>3, <3>4, <3>5, <3>6, <3>7
  <2>2. CASE QueryUnpaid(h) BY <2>2 DEF QueryUnpaid
  <2>3. CASE CloseUpstream(h) BY <2>3 DEF CloseUpstream
  <2>4. CASE FinishCancel(h)
    <3>1. RowOK' BY <2>4 DEF FinishCancel
    <3>2. GoodsOK' BY <2>4 DEF FinishCancel
    <3>3. WorldOK' BY <2>4 DEF FinishCancel
    <3>4. HandlersOK' BY <2>4 DEF FinishCancel
    <3>5. GoodsMatchRows' BY <2>4 DEF FinishCancel
    <3>6. StepsKnow' BY <2>4 DEF FinishCancel
    <3>7. MoneyFirst' /\ CompletedIsGranted' BY <2>4 DEF FinishCancel
    <3> QED BY <3>1, <3>2, <3>3, <3>4, <3>5, <3>6, <3>7
  <2>5. CASE ToPaid(h)
    <3>1. RowOK' BY <2>5 DEF ToPaid
    <3>2. GoodsOK' BY <2>5 DEF ToPaid
    <3>3. WorldOK' BY <2>5 DEF ToPaid
    <3>4. HandlersOK' BY <2>5 DEF ToPaid
    <3>5. GoodsMatchRows' BY <2>5 DEF ToPaid
    <3>6. StepsKnow' BY <2>5 DEF ToPaid
    <3>7. MoneyFirst' /\ CompletedIsGranted' BY <2>5 DEF ToPaid
    <3> QED BY <3>1, <3>2, <3>3, <3>4, <3>5, <3>6, <3>7
  <2>6. CASE AlreadyProcessed(h)
    <3>1. RowOK' BY <2>6 DEF AlreadyProcessed
    <3>2. GoodsOK' BY <2>6 DEF AlreadyProcessed
    <3>3. WorldOK' BY <2>6 DEF AlreadyProcessed
    <3>4. HandlersOK' BY <2>6 DEF AlreadyProcessed
    <3>5. GoodsMatchRows' BY <2>6 DEF AlreadyProcessed
    <3>6. StepsKnow' BY <2>6 DEF AlreadyProcessed
    <3>7. MoneyFirst' /\ CompletedIsGranted' BY <2>6 DEF AlreadyProcessed
    <3> QED BY <3>1, <3>2, <3>3, <3>4, <3>5, <3>6, <3>7
  <2>7. CASE Fulfil(h)
    <3>1. RowOK' BY <2>7 DEF Fulfil
    <3>2. GoodsOK' BY <2>7 DEF Fulfil
    <3>3. WorldOK' BY <2>7 DEF Fulfil
    <3>4. HandlersOK' BY <2>7 DEF Fulfil
    <3>5. GoodsMatchRows' BY <2>7 DEF Fulfil
    <3>6. StepsKnow' BY <2>7 DEF Fulfil
    <3>7. MoneyFirst' /\ CompletedIsGranted' BY <2>7 DEF Fulfil
    <3> QED BY <3>1, <3>2, <3>3, <3>4, <3>5, <3>6, <3>7
  <2>8. CASE DeferRead(h) BY <2>8 DEF DeferRead
  <2>9. CASE Postpone(h)
    <3>1. RowOK' BY <2>9 DEF Postpone
    <3>2. GoodsOK' BY <2>9 DEF Postpone
    <3>3. WorldOK' BY <2>9 DEF Postpone
    <3>4. HandlersOK' BY <2>9 DEF Postpone
    <3>5. GoodsMatchRows' BY <2>9 DEF Postpone
    <3>6. StepsKnow' BY <2>9 DEF Postpone
    <3>7. MoneyFirst' /\ CompletedIsGranted' BY <2>9 DEF Postpone
    <3> QED BY <3>1, <3>2, <3>3, <3>4, <3>5, <3>6, <3>7
  <2>10. CASE AcquireLease(h)
    <3>1. RowOK' BY <2>10 DEF AcquireLease
    <3>2. GoodsOK' BY <2>10 DEF AcquireLease
    <3>3. WorldOK' BY <2>10 DEF AcquireLease
    <3>4. HandlersOK' BY <2>10 DEF AcquireLease
    <3>5. GoodsMatchRows' BY <2>10 DEF AcquireLease
    <3>6. StepsKnow' BY <2>10 DEF AcquireLease
    <3>7. MoneyFirst' /\ CompletedIsGranted' BY <2>10 DEF AcquireLease
    <3> QED BY <3>1, <3>2, <3>3, <3>4, <3>5, <3>6, <3>7
  <2>11. CASE ReloadLease(h) BY <2>11 DEF ReloadLease
  <2>12. CASE LookupCode(h) BY <2>12 DEF LookupCode
  <2>13. CASE CreateCode(h) BY <2>13 DEF CreateCode
  <2>14. CASE LockCode(h) BY <2>14 DEF LockCode
  <2>15. CASE Redeem(h) BY <2>15 DEF Redeem
  <2>16. CASE RedeemRefused(h) BY <2>16 DEF RedeemRefused
  <2>17. CASE BeginAssign(h) BY <2>17 DEF BeginAssign
  <2>18. CASE Assign(h) BY <2>18 DEF Assign
  <2>19. CASE AssignDeferred(h) BY <2>19 DEF AssignDeferred
  <2>20. CASE ResetScheduled(h)
    <3>1. RowOK' BY <2>20 DEF ResetScheduled
    <3>2. GoodsOK' BY <2>20 DEF ResetScheduled
    <3>3. WorldOK' BY <2>20 DEF ResetScheduled
    <3>4. HandlersOK' BY <2>20 DEF ResetScheduled
    <3>5. GoodsMatchRows' BY <2>20 DEF ResetScheduled
    <3>6. StepsKnow' BY <2>20 DEF ResetScheduled
    <3>7. MoneyFirst' /\ CompletedIsGranted' BY <2>20 DEF ResetScheduled
    <3> QED BY <3>1, <3>2, <3>3, <3>4, <3>5, <3>6, <3>7
  <2>21. CASE ApplyRebate(h) BY <2>21 DEF ApplyRebate
  <2>22. CASE MarkCompleted(h)
    <3>1. RowOK' BY <2>22 DEF MarkCompleted
    <3>2. GoodsOK' BY <2>22 DEF MarkCompleted
    <3>3. WorldOK' BY <2>22 DEF MarkCompleted
    <3>4. HandlersOK' BY <2>22 DEF MarkCompleted
    <3>5. GoodsMatchRows' BY <2>22 DEF MarkCompleted
    <3>6. StepsKnow' BY <2>22 DEF MarkCompleted
    <3>7. MoneyFirst' /\ CompletedIsGranted' BY <2>22 DEF MarkCompleted
    <3> QED BY <3>1, <3>2, <3>3, <3>4, <3>5, <3>6, <3>7
  <2>23. CASE MarkFailed(h)
    <3>1. RowOK' BY <2>23 DEF MarkFailed
    <3>2. GoodsOK' BY <2>23 DEF MarkFailed
    <3>3. WorldOK' BY <2>23 DEF MarkFailed
    <3>4. HandlersOK' BY <2>23 DEF MarkFailed
    <3>5. GoodsMatchRows' BY <2>23 DEF MarkFailed
    <3>6. StepsKnow' BY <2>23 DEF MarkFailed
    <3>7. MoneyFirst' /\ CompletedIsGranted' BY <2>23 DEF MarkFailed
    <3> QED BY <3>1, <3>2, <3>3, <3>4, <3>5, <3>6, <3>7
  <2> QED BY <1>4, <2>1, <2>2, <2>3, <2>4, <2>5, <2>6, <2>7, <2>8, <2>9, <2>10, <2>11,
             <2>12, <2>13, <2>14, <2>15, <2>16, <2>17, <2>18, <2>19, <2>20, <2>21,
             <2>22, <2>23 DEF Work
<1>5. ASSUME NEW h \in Handlers, NotificationUnread(h) PROVE IInv'
      BY <1>5 DEF NotificationUnread
<1>6. ASSUME NEW h \in Handlers, WorkFails(h) PROVE IInv' BY <1>6 DEF WorkFails
<1>7. ASSUME NEW h \in Handlers, Crash(h) PROVE IInv' BY <1>7 DEF Crash
<1>8. CASE UserPays BY <1>8 DEF UserPays
<1>9. CASE FiveMinutesPass BY <1>9 DEF FiveMinutesPass
<1>10. CASE LegacyTermChanges BY <1>10 DEF LegacyTermChanges
<1>11. CASE Refund BY <1>11 DEF Refund
<1>12. CASE UNCHANGED vars BY <1>12 DEF vars
<1> QED
    BY <1>1, <1>2, <1>3, <1>4, <1>5, <1>6, <1>7, <1>8, <1>9, <1>10, <1>11, <1>12 DEF Next

-----------------------------------------------------------------------------
(* Theorems.                                                               *)

\* IInv holds in every reachable state: the basis of the theorems below.
THEOREM Invariance == Spec => []IInv
BY InitIInv, NextIInv, PTL DEF Spec

\* Every variable keeps its type, the rows, the world and the handlers' steps alike.
THEOREM TypeCorrect == Spec => []TypeOK
<1>1. IInv => TypeOK BY DEF IInv
<1> QED BY Invariance, <1>1, PTL

\* What was bought is delivered at most once (doBalance, ensurePaymentSubscriptionAssigned).
THEOREM DeliveredOnce == Spec => []GrantedAtMostOnce
<1>1. IInv => GrantedAtMostOnce BY DEF IInv, GoodsMatchRows, GrantedAtMostOnce
<1> QED BY Invariance, <1>1, PTL

\* An order is COMPLETED only when delivered and rebated (markCompleted).
THEOREM CompletedMeansDelivered == Spec => []CompletedIsGranted
<1>1. IInv => CompletedIsGranted BY DEF IInv
<1> QED BY Invariance, <1>1, PTL

Before == {"PENDING", "CANCELLED", "EXPIRED"}
UnderLease == {"reload", "work", "create", "redeem", "redeeming", "assign", "rebate",
               "complete", "fail", "reset"}

\* A handler that once had the lease still works on an order that was RECHARGING once,
\* and nothing but a cancellation moves an order that is being created.
Started ==
    /\ creating => status \in Before
    /\ \A h \in Handlers : pc[h] \in UnderLease => status \notin Before \cup {"PAID"}

LEMMA InitStarted == Init => Started
BY DEF Init, Started, Before, UnderLease

LEMMA NextStarted == IInv /\ Started /\ [Next]_vars => Started'
<1> SUFFICES ASSUME IInv, Started, [Next]_vars PROVE Started'
    OBVIOUS
<1> USE DEF Started, Before, UnderLease
<1>0. TypeOK /\ HandlersOK /\ RowOK BY DEF IInv, TypeOK
<1>1. CASE CreateSucceeds \/ CreateFails
      BY <1>1 DEF CreateSucceeds, CreateFails
<1>2. ASSUME NEW h \in Handlers, Request(h) PROVE Started'
      BY <1>0, <1>2 DEF Request, BeginCancel, BeginReconcile, Deliver, Retry, Activate, HandlersOK
<1>3. ASSUME NEW h \in Handlers, Work(h) PROVE Started'
  <2> USE <1>0 DEF HandlersOK, RowOK
  <2>1. pc[h] \in AfterPaid => ~creating BY DEF IInv, StepsKnow, MoneyFirst
  <2>2. CASE QueryPaid(h) \/ QueryUnpaid(h) \/ CloseUpstream(h) \/ FinishCancel(h)
        BY <2>2 DEF QueryPaid, QueryUnpaid, CloseUpstream, FinishCancel
  <2>3. CASE ToPaid(h) \/ AlreadyProcessed(h) \/ Fulfil(h) \/ DeferRead(h) \/ Postpone(h)
        BY <2>1, <2>3 DEF ToPaid, AlreadyProcessed, Fulfil, DeferRead, Postpone
  <2>4. CASE AcquireLease(h) \/ ReloadLease(h) BY <2>1, <2>4 DEF AcquireLease, ReloadLease
  <2>5. CASE LookupCode(h) \/ CreateCode(h) \/ LockCode(h) \/ Redeem(h) \/ RedeemRefused(h)
        BY <2>5 DEF LookupCode, CreateCode, LockCode, Redeem, RedeemRefused
  <2>6. CASE BeginAssign(h) \/ Assign(h) \/ AssignDeferred(h) \/ ApplyRebate(h)
        BY <2>6 DEF BeginAssign, Assign, AssignDeferred, ApplyRebate
  <2>7. CASE ResetScheduled(h) \/ MarkCompleted(h) \/ MarkFailed(h)
        BY <2>1, <2>7 DEF ResetScheduled, MarkCompleted, MarkFailed
  <2> QED BY <1>3, <2>2, <2>3, <2>4, <2>5, <2>6, <2>7 DEF Work
<1>4. ASSUME NEW h \in Handlers, NotificationUnread(h) \/ WorkFails(h) \/ Crash(h)
      PROVE Started'
      BY <1>0, <1>4 DEF NotificationUnread, WorkFails, Crash, HandlersOK
<1>5. CASE UserPays \/ FiveMinutesPass \/ LegacyTermChanges \/ Refund \/ UNCHANGED vars
      BY <1>0, <1>5 DEF UserPays, FiveMinutesPass, LegacyTermChanges, Refund, vars
<1> QED BY <1>1, <1>2, <1>3, <1>4, <1>5 DEF Next

\* A step saves COMPLETED or REFUNDING back or leaves it, unless a refund begins: every
\* conditional update excludes them, and CreateOrder's unconditional failure comes
\* before any payment.
LEMMA CompletedStep ==
    IInv /\ Started /\ [Next]_vars =>
        (status \in {"COMPLETED", "REFUNDING"} => status' \in {status, "REFUNDING"})
<1> SUFFICES ASSUME IInv, Started, [Next]_vars, status \in {"COMPLETED", "REFUNDING"}
             PROVE status' \in {status, "REFUNDING"}
    OBVIOUS
<1>1. CASE CreateSucceeds \/ CreateFails
      BY <1>1 DEF CreateSucceeds, CreateFails, Started, Before
<1>2. ASSUME NEW h \in Handlers, Request(h) PROVE status' = status
      BY <1>2 DEF Request, BeginCancel, BeginReconcile, Deliver, Retry, Activate
<1>3. ASSUME NEW h \in Handlers, Work(h) PROVE status' = status
      BY <1>3 DEF Work, QueryPaid, QueryUnpaid, CloseUpstream, FinishCancel, ToPaid,
                  AlreadyProcessed, Fulfil, DeferRead, Postpone, AcquireLease, ReloadLease,
                  LookupCode, CreateCode, LockCode, Redeem, RedeemRefused, BeginAssign,
                  Assign, AssignDeferred, ResetScheduled, ApplyRebate, MarkCompleted, MarkFailed
<1>4. ASSUME NEW h \in Handlers, NotificationUnread(h) \/ WorkFails(h) \/ Crash(h)
      PROVE status' = status
      BY <1>4 DEF NotificationUnread, WorkFails, Crash
<1>5. CASE UserPays \/ FiveMinutesPass \/ LegacyTermChanges \/ Refund \/ UNCHANGED vars
      BY <1>5 DEF UserPays, FiveMinutesPass, LegacyTermChanges, Refund, vars
<1> QED BY <1>1, <1>2, <1>3, <1>4, <1>5 DEF Next

\* COMPLETED and REFUNDING are final for every handler, the stale ones included.
THEOREM CompletedStays == Spec => CompletedIsFinal
<1>1. IInv /\ Started /\ [Next]_vars =>
      [(status \in {"COMPLETED", "REFUNDING"}) => status' \in {status, "REFUNDING"}]_vars
      BY CompletedStep
<1> QED BY Invariance, InitStarted, NextStarted, <1>1, PTL DEF Spec, CompletedIsFinal

-----------------------------------------------------------------------------
(* PaymentOrder implements PaymentPromise.                                 *)

LEMMA PromiseInit == Init => Promise!Init
BY DEF Init, Promise!Init

\* Each step pays, delivers or rebates, or is a stutter of the promise.
LEMMA PromiseStep == IInv /\ [Next]_vars => [Promise!Next]_Promise!vars
<1> USE DEF Promise!vars
<1> SUFFICES ASSUME IInv, [Next]_vars PROVE [Promise!Next]_Promise!vars
    OBVIOUS
<1>1. ASSUME NEW h \in Handlers, Redeem(h) PROVE Promise!Grant
      BY <1>1 DEF Redeem, IInv, TypeOK, GoodsOK, HandlersOK, GoodsMatchRows, StepsKnow, Promise!Grant
<1>2. ASSUME NEW h \in Handlers, Assign(h) PROVE [Promise!Grant]_Promise!vars
      BY <1>2 DEF Assign, IInv, GoodsMatchRows, StepsKnow, Promise!Grant
<1>3. ASSUME NEW h \in Handlers, ApplyRebate(h) PROVE [Promise!Rebate]_Promise!vars
      BY <1>3 DEF ApplyRebate, IInv, StepsKnow, MoneyFirst, Promise!Rebate
<1>4. CASE UserPays
  <2>1. upstream # "paid" /\ upstream' = "paid" /\ grants' = grants /\ rebates' = rebates
        BY <1>4 DEF UserPays
  <2> QED BY <2>1, Zenon DEF Promise!Pay, Promise!Next
<1>5. CASE CreateSucceeds \/ CreateFails
      BY <1>5 DEF CreateSucceeds, CreateFails, IInv, MoneyFirst
<1>6. ASSUME NEW h \in Handlers, Request(h) PROVE UNCHANGED Promise!vars
      BY <1>6 DEF Request, BeginCancel, BeginReconcile, Deliver, Retry, Activate
<1>7. ASSUME NEW h \in Handlers, Work(h),
             ~Redeem(h), ~Assign(h), ~ApplyRebate(h)
      PROVE UNCHANGED Promise!vars
      BY <1>7 DEF Work, QueryPaid, QueryUnpaid, CloseUpstream, FinishCancel, ToPaid,
                  AlreadyProcessed, Fulfil, DeferRead, Postpone, AcquireLease, ReloadLease,
                  LookupCode, CreateCode, LockCode, RedeemRefused, BeginAssign,
                  AssignDeferred, ResetScheduled, MarkCompleted, MarkFailed
<1>8. ASSUME NEW h \in Handlers, NotificationUnread(h) \/ WorkFails(h) \/ Crash(h)
      PROVE UNCHANGED Promise!vars
      BY <1>8 DEF NotificationUnread, WorkFails, Crash
<1>9. CASE FiveMinutesPass \/ LegacyTermChanges \/ Refund \/ UNCHANGED vars
      BY <1>9 DEF FiveMinutesPass, LegacyTermChanges, Refund, vars
<1> QED BY <1>1, <1>2, <1>3, <1>4, <1>5, <1>6, <1>7, <1>8, <1>9 DEF Next, Promise!Next

\* Every behaviour of the order is one the promise allows.
THEOREM PromiseKept == Spec => KeepsPromise
BY Invariance, PromiseInit, PromiseStep, PTL DEF Spec, KeepsPromise, Promise!Spec

-----------------------------------------------------------------------------
(* PaymentOrder implements FulfilmentPath.                                 *)

LEMMA PathInit == Init => Path!Init
BY DEF Init, Path!Init

\* Each step moves the row or delivers as the path says, or is a stutter of it.
LEMMA PathStep == IInv /\ Started /\ [Next]_vars => [Path!Next]_Path!vars
<1> SUFFICES ASSUME IInv, Started, [Next]_vars PROVE [Path!Next]_Path!vars
    OBVIOUS
<1> USE DEF Path!vars, Path!Waiting, Started, Before, UnderLease
<1>0. TypeOK /\ RowOK BY DEF IInv, TypeOK
<1>1. CASE CreateSucceeds \/ CreateFails
      BY <1>1 DEF CreateSucceeds, CreateFails, Path!Next, Path!Enter
<1>2. ASSUME NEW h \in Handlers, Request(h) PROVE UNCHANGED Path!vars
      BY <1>2 DEF Request, BeginCancel, BeginReconcile, Deliver, Retry, Activate
<1>3. ASSUME NEW h \in Handlers, Redeem(h) \/ Assign(h) PROVE [Path!Deliver]_Path!vars
  <2>1. pc[h] \in UnderLease /\ UNCHANGED status BY <1>3 DEF Redeem, Assign
  <2>2. grants' \in {grants, 1} /\ grants \in {0, 1}
        BY <1>3 DEF Redeem, Assign, IInv, GoodsMatchRows, StepsKnow
  <2>3. status \in OrderStatuses \ (Before \cup {"PAID"}) BY <1>0, <2>1 DEF RowOK
  <2>4. CASE grants = 0 /\ grants' = 1
    <3> DEFINE s == IF status \in Before THEN "UNPAID" ELSE status
    <3>1. s \notin {"UNPAID", "PAID"} /\ s' = s BY <2>1, <2>3
    <3>2. ~(grants = 1) /\ (grants' = 1) = TRUE BY <2>4
    <3> QED BY <3>1, <3>2 DEF Path!Deliver
  <2>5. CASE grants' = grants BY <2>1, <2>5
  <2> QED BY <2>2, <2>4, <2>5
<1>4. ASSUME NEW h \in Handlers, FinishCancel(h) PROVE UNCHANGED Path!vars
      BY <1>0, <1>4 DEF FinishCancel, IInv, TypeOK, HandlersOK
<1>5. ASSUME NEW h \in Handlers, ToPaid(h) PROVE [Path!Enter]_Path!vars
      BY <1>5 DEF ToPaid, Path!Enter
<1>6. ASSUME NEW h \in Handlers, AcquireLease(h) PROVE [Path!Begin]_Path!vars
      BY <1>6 DEF AcquireLease, Path!Begin
<1>7. ASSUME NEW h \in Handlers, Postpone(h) \/ ResetScheduled(h)
      PROVE [Path!Postpone]_Path!vars
      BY <1>7 DEF Postpone, ResetScheduled, Path!Postpone
<1>8. ASSUME NEW h \in Handlers, MarkCompleted(h) PROVE [Path!Complete]_Path!vars
      BY <1>8 DEF MarkCompleted, IInv, StepsKnow, Path!Complete
<1>9. ASSUME NEW h \in Handlers, MarkFailed(h) PROVE [Path!Fail]_Path!vars
      BY <1>9 DEF MarkFailed, Path!Fail
<1>10. ASSUME NEW h \in Handlers,
              \/ QueryPaid(h) \/ QueryUnpaid(h) \/ CloseUpstream(h) \/ AlreadyProcessed(h)
              \/ Fulfil(h) \/ DeferRead(h) \/ ReloadLease(h) \/ LookupCode(h) \/ CreateCode(h)
              \/ LockCode(h) \/ RedeemRefused(h) \/ BeginAssign(h) \/ AssignDeferred(h)
              \/ ApplyRebate(h) \/ NotificationUnread(h) \/ WorkFails(h) \/ Crash(h)
       PROVE UNCHANGED Path!vars
       BY <1>10 DEF QueryPaid, QueryUnpaid, CloseUpstream, AlreadyProcessed, Fulfil, DeferRead,
                    ReloadLease, LookupCode, CreateCode, LockCode, RedeemRefused, BeginAssign,
                    AssignDeferred, ApplyRebate, NotificationUnread, WorkFails, Crash
<1>11. CASE UserPays \/ FiveMinutesPass \/ LegacyTermChanges \/ UNCHANGED vars
       BY <1>11 DEF UserPays, FiveMinutesPass, LegacyTermChanges, vars
<1>12. CASE Refund BY <1>12 DEF Refund, Path!Next, Path!Refund
<1> QED BY <1>1, <1>2, <1>3, <1>4, <1>5, <1>6, <1>7, <1>8, <1>9, <1>10, <1>11, <1>12
        DEF Next, Work, Path!Next

\* The order moves as refunds assume: what PaymentRefund has for its environment is
\* what the fulfilment of every order does, however its handlers interleave and crash.
THEOREM PathFollowed == Spec => FollowsPath
BY Invariance, InitStarted, NextStarted, PathInit, PathStep, PTL DEF Spec, FollowsPath, Path!Spec

=============================================================================
