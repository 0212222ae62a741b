--------------------------- MODULE BatchImageHold ---------------------------
(***************************************************************************)
(* A batch image job and the hold that pays for it: submission and         *)
(* cancellation (service/batch_image_public.go), recovery of stale         *)
(* submissions (batch_image_billing_recovery.go), the queue's workers      *)
(* (batch_image_worker.go, batch_image_processor.go) and settlement        *)
(* (batch_image_settlement.go), over the job's row and the billing         *)
(* transactions of repository/usage_billing_repo.go.                       *)
(*                                                                         *)
(* A billing transaction claims a request id and applies its effect at     *)
(* once; hold, capture and release have an id each, so no row says that a  *)
(* hold ends once.  The frozen balance is one pool of all the user's       *)
(* holds, those of other jobs included.                                    *)
(*                                                                         *)
(* A database or Redis call may fail, also after it was carried out:       *)
(* faults counts these failures.  mishaps remembers the ones the code has  *)
(* no answer to.  The age of an unsubmitted job is not modelled: recovery  *)
(* may take any, however live its submission.                              *)
(***************************************************************************)
EXTENDS Integers

CONSTANTS
    Workers,    \* queue workers of all instances
    Stalled,    \* workers whose heartbeats may fail to reach Redis
    NoWorker,   \* the lock's key is absent
    Amount,     \* holdAmount
    Cost,       \* actualCost
    Credit,     \* the user's balance before
    Others,     \* what the user's other jobs have frozen
    MaxRetries, \* batchImageSettlementMaxRetries
    MaxFaults   \* bound on failing calls and crashes

ASSUME WorkersAssumption == Stalled \subseteq Workers /\ NoWorker \notin Workers
ASSUME AmountsAssumption ==
    /\ Amount \in Nat \ {0} /\ Cost \in 0 .. Amount
    /\ Credit \in Nat /\ Others \in Nat
ASSUME BoundsAssumption == MaxRetries \in Nat \ {0} /\ MaxFaults \in Nat

VARIABLES
    status,     \* the job's row; "none" before it is created
    named,      \* "yes" once provider_job_name is set
    retries,    \* retry_count, as far as MaxRetries
    claims,     \* the billing request ids claimed
    refunded,   \* "yes" if the release's claim gave money back
    balance, frozen,
    provider,   \* the job at the provider
    pc,         \* where the submission, a cancellation and the recovery are
    at,         \* where each worker is
    lock,       \* the job lock
    queue,      \* the job's place: out, ready (or delayed), active
    faults, mishaps

job == <<status, named, retries>>
money == <<claims, refunded, balance, frozen>>
vars == <<job, money, provider, pc, at, lock, queue, faults, mishaps>>

Unsubmitted == {"created", "uploading"}
Terminal == {"completed", "failed", "cancelled"}
Statuses == Unsubmitted \cup {"none", "submitted", "running", "indexing", "settling"} \cup Terminal
Processes == {"submit", "cancel", "recover"}
Unanswered == {"reserve", "record", "cancel", "stale"}
Mishaps == Unanswered \cup {"early", "queue", "crash", "lock", "race", "orphan"}

TypeOK ==
    /\ status \in Statuses /\ named \in {"no", "yes"} /\ retries \in 0 .. MaxRetries
    /\ claims \subseteq {"hold", "capture", "release"} /\ refunded \in {"no", "yes"}
    /\ balance \in Int /\ frozen \in Nat
    /\ provider \in {"none", "live", "succeeded", "failed", "cancelled"}
    /\ pc \in [Processes -> {"idle", "reserve", "upload", "submitting", "record", "abort",
                             "release", "giveback", "markfailed", "unnamed", "enqueue", "done"}]
    /\ at \in [Workers -> {"idle", "read", "index", "capture", "mark", "giveup", "fail",
                           "release", "ack", "requeue"}]
    /\ lock \in Workers \cup {NoWorker}
    /\ queue \in {"out", "ready", "active"}
    /\ faults \in 0 .. MaxFaults /\ mishaps \subseteq Mishaps

Init ==
    /\ status = "none" /\ named = "no" /\ retries = 0
    /\ claims = {} /\ refunded = "no" /\ balance = Credit /\ frozen = Others
    /\ provider = "none" /\ pc = [p \in Processes |-> "idle"]
    /\ at = [w \in Workers |-> "idle"] /\ lock = NoWorker /\ queue = "out"
    /\ faults = 0 /\ mishaps = {}

Go(p, place) == pc' = [pc EXCEPT ![p] = place]
Turn(w, place) == at' = [at EXCEPT ![w] = place]

CallFails == faults < MaxFaults /\ faults' = faults + 1
\* A statement has no effect: the row or the pool is against it, or the call fails.
FailsUnless(possible) == (~possible /\ UNCHANGED faults) \/ CallFails
Mishap(m) == mishaps' = mishaps \cup {m}

-----------------------------------------------------------------------------
(* The job's row and the billing transactions.                             *)

Forward == {<<"created", "uploading">>, <<"created", "submitted">>, <<"created", "cancelled">>,
            <<"uploading", "submitted">>, <<"uploading", "cancelled">>,
            <<"submitted", "running">>, <<"submitted", "indexing">>, <<"submitted", "cancelled">>,
            <<"running", "running">>, <<"running", "indexing">>, <<"running", "cancelled">>,
            <<"indexing", "settling">>, <<"settling", "completed">>}

FailsAnytime(from, to) ==  \* mutant: a completed job may still fail
    from # "none" /\ (to = "failed" \/ <<from, to>> \in Forward)

\* CanTransitionBatchImageJob; the deletion of a completed job's output is left out.
CanTransition(from, to) ==
    /\ from \notin Terminal \cup {"none"}
    /\ to = "failed" \/ <<from, to>> \in Forward

ReserveTx ==
    /\ balance >= Amount
    /\ claims' = claims \cup {"hold"}
    /\ balance' = balance - Amount /\ frozen' = frozen + Amount
    /\ UNCHANGED refunded

CaptureTx ==
    IF "capture" \in claims THEN UNCHANGED money
    ELSE /\ frozen >= Amount
         /\ claims' = claims \cup {"capture"}
         /\ balance' = balance + Amount - Cost /\ frozen' = frozen - Amount
         /\ UNCHANGED refunded

PhantomRelease ==  \* mutant: gives back what was never held
    IF "release" \in claims THEN UNCHANGED money
    ELSE /\ frozen >= Amount
         /\ claims' = claims \cup {"release"} /\ refunded' = "yes"
         /\ balance' = balance + Amount /\ frozen' = frozen - Amount

\* The claim stays when there is nothing to give back.
ReleaseTx ==
    IF "release" \in claims THEN UNCHANGED money
    ELSE /\ claims' = claims \cup {"release"}
         /\ IF "hold" \in claims
            THEN /\ frozen >= Amount /\ refunded' = "yes"
                 /\ balance' = balance + Amount /\ frozen' = frozen - Amount
            ELSE UNCHANGED <<refunded, balance, frozen>>

\* A release that comes before its hold leaves that hold to nobody.
ReleaseOK ==
    /\ ReleaseTx
    /\ mishaps' = IF "hold" \in claims THEN mishaps ELSE mishaps \cup {"early"}
    /\ UNCHANGED faults

\* The pool is too small, or the call fails, its effect there or not.
ReleaseErr ==
    \/ /\ FailsUnless(frozen >= Amount \/ "release" \in claims \/ "hold" \notin claims)
       /\ UNCHANGED <<money, mishaps>>
    \/ /\ CallFails /\ ReleaseTx
       /\ mishaps' = IF "hold" \in claims THEN mishaps ELSE mishaps \cup {"early"}

-----------------------------------------------------------------------------
(* Submit.                                                                 *)

Create ==
    /\ pc["submit"] = "idle"
    /\ status' = "created" /\ Go("submit", "reserve")
    /\ UNCHANGED <<named, retries, money, provider, at, lock, queue, faults, mishaps>>

\* A hold whose answer is lost counts as not made.
Reserve ==
    /\ pc["submit"] = "reserve"
    /\ \/ ReserveTx /\ Go("submit", "upload") /\ UNCHANGED <<faults, mishaps>>
       \/ CallFails /\ ReserveTx /\ Go("submit", "markfailed") /\ Mishap("reserve")
       \/ /\ FailsUnless(balance >= Amount)
          /\ Go("submit", "markfailed") /\ UNCHANGED <<money, mishaps>>
    /\ UNCHANGED <<job, provider, at, lock, queue>>

\* The items are written and the job moves on to its upload; a job that was ended
\* meanwhile keeps its status.
BeginUpload ==
    /\ pc["submit"] = "upload"
    /\ \/ /\ CanTransition(status, "uploading")
          /\ status' = "uploading" /\ Go("submit", "submitting") /\ UNCHANGED faults
       \/ /\ ~CanTransition(status, "uploading")
          /\ Go("submit", "giveback") /\ UNCHANGED <<status, faults>>
       \/ CallFails /\ Go("submit", "release") /\ UNCHANGED status
    /\ UNCHANGED <<named, retries, money, provider, at, lock, queue, mishaps>>

ProviderSubmits ==
    /\ pc["submit"] = "submitting"
    /\ \/ provider' = "live" /\ Go("submit", "record") /\ UNCHANGED <<faults, mishaps>>
       \/ Go("submit", "release") /\ UNCHANGED <<provider, faults, mishaps>>
       \/ CallFails /\ provider' = "live" /\ Go("submit", "release") /\ Mishap("orphan")
    /\ UNCHANGED <<job, money, at, lock, queue>>

RecordSubmit ==
    /\ pc["submit"] = "record"
    /\ \/ /\ CanTransition(status, "submitted")
          /\ status' = "submitted" /\ named' = "yes"
          /\ \/ Go("submit", "enqueue") /\ UNCHANGED <<faults, mishaps>>
             \/ CallFails /\ Go("submit", "abort") /\ Mishap("record")
       \/ /\ FailsUnless(CanTransition(status, "submitted"))
          /\ Go("submit", "abort") /\ UNCHANGED <<status, named, mishaps>>
    /\ UNCHANGED <<retries, money, provider, at, lock, queue>>

OrphanLeft == provider  \* mutant: the provider's job is forgotten
OrphanCancelled == IF provider = "live" THEN "cancelled" ELSE provider

\* abortOrphanProviderJob is best effort.
Abort ==
    /\ pc["submit"] = "abort" /\ Go("submit", "done")
    /\ \/ provider' = OrphanCancelled /\ UNCHANGED <<faults, mishaps>>
       \/ CallFails /\ Mishap("orphan") /\ UNCHANGED provider
    /\ UNCHANGED <<job, money, at, lock, queue>>

\* RecordBatchImageJobSubmitFailure asks for no status; its own failure is ignored.
MarkFailed ==
    /\ pc["submit"] = "markfailed" /\ Go("submit", "done")
    /\ \/ status' = "failed" /\ UNCHANGED faults
       \/ CallFails /\ UNCHANGED status
    /\ UNCHANGED <<named, retries, money, provider, at, lock, queue, mishaps>>

\* releaseFailedSubmitHold; a failing release marks the job failed and enqueues it.
ReleaseSubmit ==
    /\ pc["submit"] \in {"release", "giveback"}
    /\ \/ /\ ReleaseOK /\ UNCHANGED status
          /\ Go("submit", IF pc["submit"] = "release" THEN "markfailed" ELSE "done")
       \/ /\ ReleaseErr /\ Go("submit", "enqueue")
          /\ status' \in {"failed", status}
    /\ UNCHANGED <<named, retries, provider, at, lock, queue>>

-----------------------------------------------------------------------------
(* Cancel, and the recovery of submissions that reached no provider.       *)

\* Cancel acts on the row it read.
CancelReads ==
    /\ pc["cancel"] = "idle"
    /\ \/ /\ status \in {"failed", "cancelled"} /\ Go("cancel", "release")
          /\ UNCHANGED provider
       \/ /\ status \in {"submitted", "running", "indexing"} /\ named = "yes"
          /\ provider' = IF provider = "live" THEN "cancelled" ELSE provider
          /\ Go("cancel", "enqueue")
       \/ /\ status \in Unsubmitted /\ named = "no" /\ Go("cancel", "unnamed")
          /\ UNCHANGED provider
    /\ UNCHANGED <<job, money, at, lock, queue, faults, mishaps>>

\* A job that was submitted meanwhile is cancelled here, and not at the provider.
CancelUnnamed ==
    /\ pc["cancel"] = "unnamed"
    /\ \/ /\ CanTransition(status, "cancelled") /\ status' = "cancelled"
          /\ LET race == IF named = "yes" THEN {"race"} ELSE {}
             IN \/ Go("cancel", "release") /\ mishaps' = mishaps \cup race /\ UNCHANGED faults
                \/ /\ CallFails /\ Go("cancel", "idle")
                   /\ mishaps' = mishaps \cup race \cup {"cancel"}
       \/ /\ FailsUnless(CanTransition(status, "cancelled"))
          /\ Go("cancel", "idle") /\ UNCHANGED <<status, mishaps>>
    /\ UNCHANGED <<named, retries, money, provider, at, lock, queue>>

\* FailStaleUnsubmittedBatchImageJob looks again as it writes.
FailStale ==
    /\ pc["recover"] = "idle" /\ status \in Unsubmitted /\ named = "no"
    /\ status' = "failed"
    /\ \/ Go("recover", "release") /\ UNCHANGED <<faults, mishaps>>
       \/ CallFails /\ Mishap("stale") /\ UNCHANGED pc
    /\ UNCHANGED <<named, retries, money, provider, at, lock, queue>>

GiveUpRelease(p) == Go(p, "idle")  \* mutant: a failed release is not tried again
RetryRelease(p) == Go(p, "enqueue")

ReleaseEnded(p) ==
    /\ p # "submit" /\ pc[p] = "release"
    /\ \/ ReleaseOK /\ Go(p, "idle")
       \/ ReleaseErr /\ RetryRelease(p)
    /\ UNCHANGED <<job, provider, at, lock, queue>>

\* A job on its way through the queue is not queued twice.
Enqueue(p) ==
    /\ pc[p] = "enqueue" /\ Go(p, IF p = "submit" THEN "done" ELSE "idle")
    /\ \/ queue' = (IF queue = "out" THEN "ready" ELSE queue) /\ UNCHANGED <<faults, mishaps>>
       \/ /\ CallFails /\ UNCHANGED queue
          /\ mishaps' = IF queue = "out" THEN mishaps \cup {"queue"} ELSE mishaps
    /\ UNCHANGED <<job, money, provider, at, lock>>

\* Submit again with the same idempotency key.
Resubmit ==
    /\ status = "submitted" /\ queue = "out" /\ queue' = "ready"
    /\ UNCHANGED <<job, money, provider, pc, at, lock, faults, mishaps>>

\* The process dies.
Crash(p) ==
    /\ pc[p] \notin {"idle", "done"} /\ CallFails
    /\ Go(p, IF p = "submit" THEN "done" ELSE "idle")
    /\ mishaps' = mishaps \cup
           (IF pc[p] = "enqueue" \/ (p # "submit" /\ pc[p] = "release") THEN {"crash"} ELSE {})
           \cup (IF pc[p] \in {"record", "abort"} THEN {"orphan"} ELSE {})
    /\ UNCHANGED <<job, money, provider, at, lock, queue>>

-----------------------------------------------------------------------------
(* A worker processes the job.                                             *)

AnyoneMayTake == TRUE  \* mutant: the job is processed without its lock
LockIsFree == lock = NoWorker

\* Reserve and TryAcquireJobLock; without the lock the job goes back to its queue.
Take(w) ==
    /\ at[w] = "idle" /\ queue = "ready" /\ LockIsFree
    /\ queue' = "active" /\ lock' = w /\ Turn(w, "read")
    /\ UNCHANGED <<job, money, provider, pc, faults, mishaps>>

\* The row, and the provider's word on a job it has, decide what follows.
Look(w) ==
    /\ at[w] = "read"
    /\ \/ /\ status = "settling"
          /\ Turn(w, IF retries >= MaxRetries THEN "giveup" ELSE "capture") /\ UNCHANGED status
       \/ status \in {"failed", "cancelled"} /\ Turn(w, "release") /\ UNCHANGED status
       \/ status = "completed" /\ Turn(w, "ack") /\ UNCHANGED status
       \/ status \in Unsubmitted /\ named = "no" /\ Turn(w, "requeue") /\ UNCHANGED status
       \/ status = "indexing" /\ Turn(w, "index") /\ UNCHANGED status
       \/ /\ status \in {"submitted", "running"}
          /\ \/ /\ provider = "live" /\ status' \in {"running", status} /\ Turn(w, "requeue")
             \/ provider = "succeeded" /\ status' = "indexing" /\ Turn(w, "index")
             \/ /\ provider \in {"failed", "cancelled"} /\ status' = provider
                /\ Turn(w, "release")
    /\ UNCHANGED <<named, retries, money, provider, pc, lock, queue, faults, mishaps>>

\* indexAndSettle: an output that cannot be read fails the job, one that is not
\* there is waited for.
Index(w) ==
    /\ at[w] = "index"
    /\ \/ /\ CanTransition(status, "settling") /\ status' = "settling" /\ Turn(w, "requeue")
          /\ UNCHANGED faults
       \/ /\ CanTransition(status, "failed") /\ status' = "failed" /\ Turn(w, "release")
          /\ UNCHANGED faults
       \/ /\ FailsUnless(CanTransition(status, "settling"))
          /\ Turn(w, "requeue") /\ UNCHANGED status
    /\ UNCHANGED <<named, retries, money, provider, pc, lock, queue, mishaps>>

RetriedOnAndOn(n) == n + 1  \* mutant: failures are counted past the limit
Retried(n) == IF n < MaxRetries THEN n + 1 ELSE n

\* recordSettlementFailure, whose own failure is ignored.
FailSettlement(w) ==
    \/ /\ retries' = Retried(retries)
       /\ Turn(w, IF retries' >= MaxRetries THEN "giveup" ELSE "requeue")
    \/ UNCHANGED retries /\ Turn(w, "requeue")

\* Settle as far as the capture; what is checked before it fails alike.
Capture(w) ==
    /\ at[w] = "capture"
    /\ \/ /\ CaptureTx /\ Turn(w, "mark") /\ UNCHANGED <<retries, faults>>
       \/ /\ FailSettlement(w)
          /\ FailsUnless(frozen >= Amount \/ "capture" \in claims)
          /\ UNCHANGED money
       \/ FailSettlement(w) /\ CallFails /\ CaptureTx
    /\ UNCHANGED <<status, named, provider, pc, lock, queue, mishaps>>

IsSettling == status = "settling"

\* MarkBatchImageJobSettled.
Mark(w) ==
    /\ at[w] = "mark"
    /\ \/ /\ IsSettling /\ status' = "completed"
          /\ \/ Turn(w, "ack") /\ UNCHANGED faults
             \/ Turn(w, "requeue") /\ CallFails
       \/ /\ FailsUnless(IsSettling)
          /\ Turn(w, "requeue") /\ UNCHANGED status
    /\ UNCHANGED <<named, retries, money, provider, pc, lock, queue, mishaps>>

\* failExhaustedSettlement: the hold is given back first...
GiveUp(w) ==
    /\ at[w] = "giveup"
    /\ \/ ReleaseOK /\ Turn(w, "fail")
       \/ ReleaseErr /\ Turn(w, "requeue")
    /\ UNCHANGED <<job, provider, pc, lock, queue>>

\* ...and then the job fails.
FailExhausted(w) ==
    /\ at[w] = "fail"
    /\ \/ /\ CanTransition(status, "failed") /\ status' = "failed" /\ Turn(w, "ack")
          /\ UNCHANGED faults
       \/ /\ FailsUnless(CanTransition(status, "failed"))
          /\ Turn(w, "requeue") /\ UNCHANGED status
    /\ UNCHANGED <<named, retries, money, provider, pc, lock, queue, mishaps>>

\* releaseTerminalHold.
Release(w) ==
    /\ at[w] = "release"
    /\ \/ ReleaseOK /\ Turn(w, "ack")
       \/ ReleaseErr /\ Turn(w, "requeue")
    /\ UNCHANGED <<job, provider, pc, lock, queue>>

\* Ack or RequeueAfter, and the lock's release, by its token.
Finish(w) ==
    /\ at[w] \in {"ack", "requeue"} /\ Turn(w, "idle")
    /\ queue' = IF at[w] = "ack" THEN "out" ELSE "ready"
    /\ lock' = IF lock = w THEN NoWorker ELSE lock
    /\ UNCHANGED <<job, money, provider, pc, faults, mishaps>>

\* The worker dies; or a call of its step fails, its effect there or not, and the job
\* comes back from the active ones as after a death.
WorkerDies(w) ==
    /\ at[w] # "idle" /\ CallFails /\ Turn(w, "idle")
    /\ UNCHANGED <<job, money, provider, pc, lock, queue, mishaps>>

-----------------------------------------------------------------------------
(* Redis keys and the provider.                                            *)

\* The lock of a dead worker expires; a live one's, if its heartbeats stay away.
LockExpires(w) ==
    /\ lock = w /\ lock' = NoWorker
    /\ \/ at[w] = "idle" /\ UNCHANGED mishaps
       \/ at[w] # "idle" /\ w \in Stalled /\ Mishap("lock")
    /\ UNCHANGED <<job, money, provider, pc, at, queue, faults>>

NeverStale == FALSE  \* mutant: what a dead worker held stays active
ActiveIsStale == \A w \in Workers : at[w] # "idle" => w \in Stalled

RecoverStaleActive ==
    /\ queue = "active" /\ ActiveIsStale
    /\ queue' = "ready"
    /\ UNCHANGED <<job, money, provider, pc, at, lock, faults, mishaps>>

ProviderEnds ==
    /\ provider = "live" /\ provider' \in {"succeeded", "failed"}
    /\ UNCHANGED <<job, money, pc, at, lock, queue, faults, mishaps>>

-----------------------------------------------------------------------------

Submission ==
    \/ Create \/ Reserve \/ BeginUpload \/ ProviderSubmits \/ RecordSubmit \/ Abort
    \/ MarkFailed \/ ReleaseSubmit

Work(w) ==
    \/ Look(w) \/ Index(w) \/ Capture(w) \/ Mark(w) \/ GiveUp(w) \/ FailExhausted(w)
    \/ Release(w) \/ Finish(w)

Next ==
    \/ Submission \/ CancelReads \/ CancelUnnamed \/ FailStale \/ Resubmit
    \/ \E p \in Processes : ReleaseEnded(p) \/ Enqueue(p) \/ Crash(p)
    \/ \E w \in Workers : Take(w) \/ Work(w) \/ WorkerDies(w) \/ LockExpires(w)
    \/ RecoverStaleActive \/ ProviderEnds

Spec == Init /\ [][Next]_vars

\* What was begun goes on, the loops run, keys expire and providers finish.
FairSpec ==
    /\ Spec
    /\ WF_vars(Submission) /\ WF_vars(FailStale) /\ WF_vars(CancelUnnamed)
    /\ \A p \in Processes : WF_vars(ReleaseEnded(p)) /\ WF_vars(Enqueue(p))
    /\ \A w \in Workers :
          /\ WF_vars(Work(w)) /\ SF_vars(Take(w))
          /\ WF_vars(lock = w /\ at[w] = "idle" /\ LockExpires(w))
    /\ WF_vars(RecoverStaleActive) /\ WF_vars(ProviderEnds)

-----------------------------------------------------------------------------
(* Properties.                                                             *)

OpenHold == "hold" \in claims /\ "capture" \notin claims /\ refunded = "no"
EndedTwice == "capture" \in claims /\ refunded = "yes"

\* The ways in which a hold may come to stay: a commit taken for a failure, a release
\* before the hold, and an enqueueing that never came.
Leaks == Unanswered \cup {"early", "queue", "crash"}

\* A hold is charged and given back only if its settlement ran out of retries after a
\* capture it does not know of, or two workers had the job.
HoldEndsOnce == EndedTwice => retries = MaxRetries \/ "lock" \in mishaps

\* The user's money is where the claims say: a second end takes its money from what
\* other jobs have frozen, and creates none.
If(condition, n) == IF condition THEN n ELSE 0
PoolIsExact ==
    LET made == If("hold" \in claims, Amount)
        charged == "capture" \in claims
        returned == If(refunded = "yes", Amount)
    IN /\ frozen = Others + made - If(charged, Amount) - returned
       /\ balance = Credit - made + If(charged, Amount - Cost) + returned

\* Nothing is charged or given back that was not held: the releases that come before the
\* hold move no money, and a settlement finds the hold made.
OnlyHeldEnds == refunded = "yes" \/ "capture" \in claims => "hold" \in claims

\* A hold ends once, nothing else does, and the money is where its end says.
MoneyIsExact == HoldEndsOnce /\ OnlyHeldEnds /\ PoolIsExact

\* A charge is for a job whose results the user gets.
ChargedIsCompleted ==
    "capture" \in claims /\ ~EndedTwice => status \in {"settling", "completed"} \/ "lock" \in mishaps

\* A hold that is neither charged nor given back is in someone's care.
OpenHoldIsWatched ==
    OpenHold /\ mishaps \cap Leaks = {} =>
        \/ status \in Unsubmitted /\ named = "no"
        \/ queue # "out"
        \/ \E p \in Processes : pc[p] = "enqueue"
        \/ \E p \in {"cancel", "recover"} : pc[p] = "release"

\* No provider goes on working on a job whose user has the money back, unless the
\* submission is about to stop it.
RefundedIsStopped ==
    refunded = "yes" /\ provider = "live" =>
        pc["submit"] \in {"record", "abort"} \/ mishaps \cap {"race", "orphan"} # {}

\* A job that ended stays as it ended; the status written without a look at the row
\* overwrites at most a cancellation.
EndIsFinal ==
    [][\A s \in Terminal :
          status = s => status' \in {s} \cup (IF s = "cancelled" THEN {"failed"} ELSE {})]_vars

\* The whole of submission, cancellation, recovery and settlement treats the user's
\* money and job as BatchImagePromise allows.
Phase ==
    IF status \in Unsubmitted THEN "accepted"
    ELSE IF status \in {"none", "completed"} THEN status
    ELSE IF status \in Terminal THEN "ended" ELSE "running"
HoldState ==
    IF "hold" \notin claims THEN "none"
    ELSE IF "capture" \in claims THEN (IF refunded = "yes" THEN "both" ELSE "charged")
    ELSE IF refunded = "yes" THEN "returned" ELSE "held"
Excuses == {x \in {"lock", "retries"} :
               (x = "lock" /\ "lock" \in mishaps) \/ (x = "retries" /\ retries = MaxRetries)}

Promise == INSTANCE BatchImagePromise WITH job <- Phase, hold <- HoldState, excuses <- Excuses
KeepsPromise == Promise!Spec

\* Every hold ends, once calls no longer fail.
HoldIsEnded == OpenHold ~> (~OpenHold \/ mishaps \cap Leaks # {})

=============================================================================
