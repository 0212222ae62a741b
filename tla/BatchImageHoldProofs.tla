------------------------ MODULE BatchImageHoldProofs ------------------------
(***************************************************************************)
(* The hold of a batch image job, for any amounts, any number of workers   *)
(* and any number of failing calls.                                        *)
(*                                                                         *)
(* Journey ties the claims to the job's status and to the steps under way: *)
(* what runs without a look at the row (the submission's failure paths)    *)
(* runs for unsubmitted jobs only, and what was given back is never        *)
(* submitted.  On it rest the balances, the provider's job (LiveIsPaid)    *)
(* and who takes care of an open hold (Watched).  That a hold ends once    *)
(* needs more: while no lock was lost, one worker has the job (Sole).      *)
(***************************************************************************)
EXTENDS BatchImageHold, TLAPS

BeforeHold == {"idle", "reserve"}
Underway == {"upload", "submitting", "record"}
Failing == {"release", "giveback", "markfailed"}
Ended == {"failed", "cancelled"}
Settled == {"settling", "completed", "failed"}

\* Which claims go with which status, and what each step may rely on.
SubmitJourney ==
    /\ pc["submit"] = "idle" <=> status = "none"
    /\ pc["submit"] = "idle" => claims = {}
    /\ pc["submit"] \in BeforeHold => "hold" \notin claims
    /\ pc["submit"] \in Underway => "hold" \in claims
    /\ pc["submit"] \in BeforeHold \cup Underway \cup Failing => named = "no"
    /\ pc["submit"] \in {"reserve"} \cup Underway /\ "release" \in claims => status \in Ended

HelperJourney ==
    \A p \in {"cancel", "recover"} :
        /\ pc[p] \in {"idle", "release", "unnamed", "enqueue"}
        /\ pc[p] \in {"release", "unnamed"} => status # "none"
        /\ pc[p] = "release" => status \in Ended

JobJourney ==
    /\ named = "yes" => "hold" \in claims /\ status \notin Unsubmitted \cup {"none"}
    /\ named = "no" => status \in Unsubmitted \cup Ended \cup {"none"}
    /\ "capture" \in claims => named = "yes" /\ status \in Settled
    /\ refunded = "yes" => {"hold", "release"} \subseteq claims
    /\ named = "yes" /\ "release" \in claims => refunded = "yes"
    /\ status = "completed" => "capture" \in claims

WorkJourney ==
    \A w \in Workers :
        /\ at[w] = "release" => status \in Ended
        /\ at[w] = "index" => named = "yes" /\ status \in {"indexing"} \cup Settled
        /\ at[w] \in {"capture", "mark", "giveup", "fail"} => named = "yes" /\ status \in Settled
        /\ at[w] = "mark" => "capture" \in claims
        /\ at[w] = "fail" => refunded = "yes"

Journey == SubmitJourney /\ HelperJourney /\ JobJourney /\ WorkJourney

\* A live provider job is about to be stopped, or belongs to a job still paid for.
LiveIsPaid ==
    /\ pc["submit"] \in BeforeHold \cup {"upload", "submitting"} => provider = "none"
    /\ provider = "live" /\ mishaps \cap {"race", "orphan"} = {} =>
           \/ pc["submit"] \in {"record", "abort"}
           \/ named = "yes" /\ status \in {"submitted", "running"} /\ refunded = "no"

\* Who takes care of a hold, from the moment it is about to be made.
Watchers ==
    \/ status \in Unsubmitted /\ named = "no"
    \/ queue # "out"
    \/ \E p \in Processes : pc[p] = "enqueue"
    \/ \E p \in {"cancel", "recover"} : pc[p] = "release"

Ending == "capture" \in claims \/ refunded = "yes" \/ "early" \in mishaps

Watched ==
    /\ "release" \in claims => refunded = "yes" \/ "early" \in mishaps
    /\ \A w \in Workers : at[w] = "ack" => Ending
    /\ pc["submit"] = "markfailed" => "hold" \notin claims \/ Ending \/ mishaps \cap Leaks # {}
    /\ (OpenHold \/ pc["submit"] = "reserve") /\ mishaps \cap Leaks = {} => Watchers

\* While no lock was lost the worker that has the job is alone with it.
Sole ==
    "lock" \notin mishaps =>
        /\ \A w \in Workers :
              /\ at[w] # "idle" => lock = w
              /\ at[w] = "index" => status = "indexing"
              /\ at[w] \in {"capture", "mark", "giveup", "fail"} => status = "settling"
              /\ at[w] \in {"capture", "mark"} => retries < MaxRetries
              /\ at[w] \in {"giveup", "fail"} => retries = MaxRetries
        /\ "capture" \in claims => status \in {"settling", "completed"} \/ (refunded = "yes" /\ retries = MaxRetries)
        /\ named = "yes" /\ refunded = "yes" =>
               status \in Ended \/ (status = "settling" /\ retries = MaxRetries)
        /\ EndedTwice => retries = MaxRetries

IInv == TypeOK /\ Journey /\ PoolIsExact /\ LiveIsPaid /\ Watched /\ Sole

USE WorkersAssumption, AmountsAssumption, BoundsAssumption
    DEF job, money, Unsubmitted, Terminal, Statuses, Processes, Unanswered, Mishaps, Leaks,
        Go, Turn, CallFails, FailsUnless, Mishap, BeforeHold, Underway, Failing, Ended, Settled,
        OpenHold, EndedTwice

\* The submission's first state has every part of the invariant.
LEMMA InitIInv == Init => IInv
<1> SUFFICES ASSUME Init PROVE IInv
    OBVIOUS
<1> USE DEF Init
<1>1. TypeOK BY DEF TypeOK
<1>2. Journey BY DEF Journey, SubmitJourney, HelperJourney, JobJourney, WorkJourney
<1>3. PoolIsExact BY DEF PoolIsExact, If
<1>4. LiveIsPaid BY DEF LiveIsPaid
<1>5. Watched BY DEF Watched, Watchers, Ending
<1>6. Sole BY DEF Sole
<1> QED BY <1>1, <1>2, <1>3, <1>4, <1>5, <1>6 DEF IInv

\* Types, action by action; the pool never goes below zero, its transactions ask for that.
LEMMA NextTypeOK == TypeOK /\ [Next]_vars => TypeOK'
<1> USE DEF TypeOK
<1> SUFFICES ASSUME TypeOK, [Next]_vars PROVE TypeOK'
    OBVIOUS
<1>1. CASE Create BY <1>1 DEF Create
<1>2. CASE Reserve
    <2>1. mishaps' \subseteq Mishaps BY <1>2 DEF Reserve, ReserveTx
    <2>2. claims' \subseteq {"hold", "capture", "release"} /\ refunded' \in {"no", "yes"} BY <1>2 DEF Reserve, ReserveTx
    <2>3. balance' \in Int /\ frozen' \in Nat BY <1>2 DEF Reserve, ReserveTx
    <2> QED BY <1>2, <2>1, <2>2, <2>3 DEF Reserve, ReserveTx
<1>3. CASE BeginUpload BY <1>3 DEF BeginUpload, CanTransition, Forward
<1>4. CASE ProviderSubmits
    <2>1. mishaps' \subseteq Mishaps BY <1>4 DEF ProviderSubmits
    <2>2. claims' \subseteq {"hold", "capture", "release"} /\ refunded' \in {"no", "yes"} BY <1>4 DEF ProviderSubmits
    <2>3. balance' \in Int /\ frozen' \in Nat BY <1>4 DEF ProviderSubmits
    <2> QED BY <1>4, <2>1, <2>2, <2>3 DEF ProviderSubmits
<1>5. CASE RecordSubmit
    <2>1. mishaps' \subseteq Mishaps BY <1>5 DEF RecordSubmit, CanTransition, Forward
    <2>2. claims' \subseteq {"hold", "capture", "release"} /\ refunded' \in {"no", "yes"} BY <1>5 DEF RecordSubmit, CanTransition, Forward
    <2>3. balance' \in Int /\ frozen' \in Nat BY <1>5 DEF RecordSubmit, CanTransition, Forward
    <2> QED BY <1>5, <2>1, <2>2, <2>3 DEF RecordSubmit, CanTransition, Forward
<1>6. CASE Abort
    <2>1. mishaps' \subseteq Mishaps BY <1>6 DEF Abort, OrphanCancelled
    <2>2. claims' \subseteq {"hold", "capture", "release"} /\ refunded' \in {"no", "yes"} BY <1>6 DEF Abort, OrphanCancelled
    <2>3. balance' \in Int /\ frozen' \in Nat BY <1>6 DEF Abort, OrphanCancelled
    <2> QED BY <1>6, <2>1, <2>2, <2>3 DEF Abort, OrphanCancelled
<1>7. CASE MarkFailed BY <1>7 DEF MarkFailed
<1>8. CASE ReleaseSubmit
    <2>1. mishaps' \subseteq Mishaps BY <1>8 DEF ReleaseSubmit, ReleaseOK, ReleaseErr, ReleaseTx
    <2>2. claims' \subseteq {"hold", "capture", "release"} /\ refunded' \in {"no", "yes"} BY <1>8 DEF ReleaseSubmit, ReleaseOK, ReleaseErr, ReleaseTx
    <2>3. balance' \in Int /\ frozen' \in Nat BY <1>8 DEF ReleaseSubmit, ReleaseOK, ReleaseErr, ReleaseTx
    <2> QED BY <1>8, <2>1, <2>2, <2>3 DEF ReleaseSubmit, ReleaseOK, ReleaseErr, ReleaseTx
<1>9. CASE CancelReads BY <1>9 DEF CancelReads
<1>10. CASE CancelUnnamed
    <2>1. mishaps' \subseteq Mishaps BY <1>10 DEF CancelUnnamed, CanTransition, Forward
    <2>2. claims' \subseteq {"hold", "capture", "release"} /\ refunded' \in {"no", "yes"} BY <1>10 DEF CancelUnnamed, CanTransition, Forward
    <2>3. balance' \in Int /\ frozen' \in Nat BY <1>10 DEF CancelUnnamed, CanTransition, Forward
    <2> QED BY <1>10, <2>1, <2>2, <2>3 DEF CancelUnnamed, CanTransition, Forward
<1>11. CASE FailStale
    <2>1. mishaps' \subseteq Mishaps BY <1>11 DEF FailStale
    <2>2. claims' \subseteq {"hold", "capture", "release"} /\ refunded' \in {"no", "yes"} BY <1>11 DEF FailStale
    <2>3. balance' \in Int /\ frozen' \in Nat BY <1>11 DEF FailStale
    <2> QED BY <1>11, <2>1, <2>2, <2>3 DEF FailStale
<1>12. CASE Resubmit BY <1>12 DEF Resubmit
<1>13. CASE RecoverStaleActive BY <1>13 DEF RecoverStaleActive, ActiveIsStale
<1>14. CASE ProviderEnds BY <1>14 DEF ProviderEnds
<1>15. ASSUME NEW p \in Processes, ReleaseEnded(p) PROVE TypeOK'
    <2>1. mishaps' \subseteq Mishaps BY <1>15 DEF ReleaseEnded, ReleaseOK, ReleaseErr, ReleaseTx, RetryRelease
    <2>2. claims' \subseteq {"hold", "capture", "release"} /\ refunded' \in {"no", "yes"} BY <1>15 DEF ReleaseEnded, ReleaseOK, ReleaseErr, ReleaseTx, RetryRelease
    <2>3. balance' \in Int /\ frozen' \in Nat BY <1>15 DEF ReleaseEnded, ReleaseOK, ReleaseErr, ReleaseTx, RetryRelease
    <2> QED BY <1>15, <2>1, <2>2, <2>3 DEF ReleaseEnded, ReleaseOK, ReleaseErr, ReleaseTx, RetryRelease
<1>16. ASSUME NEW p \in Processes, Enqueue(p) PROVE TypeOK'
    <2>1. mishaps' \subseteq Mishaps BY <1>16 DEF Enqueue
    <2>2. claims' \subseteq {"hold", "capture", "release"} /\ refunded' \in {"no", "yes"} BY <1>16 DEF Enqueue
    <2>3. balance' \in Int /\ frozen' \in Nat BY <1>16 DEF Enqueue
    <2> QED BY <1>16, <2>1, <2>2, <2>3 DEF Enqueue
<1>17. ASSUME NEW p \in Processes, Crash(p) PROVE TypeOK' BY <1>17 DEF Crash
<1>18. ASSUME NEW w \in Workers, Take(w) PROVE TypeOK' BY <1>18 DEF Take, LockIsFree
<1>19. ASSUME NEW w \in Workers, Look(w) PROVE TypeOK' BY <1>19 DEF Look
<1>20. ASSUME NEW w \in Workers, Index(w) PROVE TypeOK' BY <1>20 DEF Index, CanTransition, Forward
<1>21. ASSUME NEW w \in Workers, Capture(w) PROVE TypeOK'
    <2>1. mishaps' \subseteq Mishaps BY <1>21 DEF Capture, FailSettlement, Retried, CaptureTx
    <2>2. claims' \subseteq {"hold", "capture", "release"} /\ refunded' \in {"no", "yes"} BY <1>21 DEF Capture, FailSettlement, Retried, CaptureTx
    <2>3. balance' \in Int /\ frozen' \in Nat BY <1>21 DEF Capture, FailSettlement, Retried, CaptureTx
    <2> QED BY <1>21, <2>1, <2>2, <2>3 DEF Capture, FailSettlement, Retried, CaptureTx
<1>22. ASSUME NEW w \in Workers, Mark(w) PROVE TypeOK' BY <1>22 DEF Mark, IsSettling
<1>23. ASSUME NEW w \in Workers, GiveUp(w) PROVE TypeOK'
    <2>1. mishaps' \subseteq Mishaps BY <1>23 DEF GiveUp, ReleaseOK, ReleaseErr, ReleaseTx
    <2>2. claims' \subseteq {"hold", "capture", "release"} /\ refunded' \in {"no", "yes"} BY <1>23 DEF GiveUp, ReleaseOK, ReleaseErr, ReleaseTx
    <2>3. balance' \in Int /\ frozen' \in Nat BY <1>23 DEF GiveUp, ReleaseOK, ReleaseErr, ReleaseTx
    <2> QED BY <1>23, <2>1, <2>2, <2>3 DEF GiveUp, ReleaseOK, ReleaseErr, ReleaseTx
<1>24. ASSUME NEW w \in Workers, FailExhausted(w) PROVE TypeOK' BY <1>24 DEF FailExhausted, CanTransition, Forward
<1>25. ASSUME NEW w \in Workers, Release(w) PROVE TypeOK'
    <2>1. mishaps' \subseteq Mishaps BY <1>25 DEF Release, ReleaseOK, ReleaseErr, ReleaseTx
    <2>2. claims' \subseteq {"hold", "capture", "release"} /\ refunded' \in {"no", "yes"} BY <1>25 DEF Release, ReleaseOK, ReleaseErr, ReleaseTx
    <2>3. balance' \in Int /\ frozen' \in Nat BY <1>25 DEF Release, ReleaseOK, ReleaseErr, ReleaseTx
    <2> QED BY <1>25, <2>1, <2>2, <2>3 DEF Release, ReleaseOK, ReleaseErr, ReleaseTx
<1>26. ASSUME NEW w \in Workers, Finish(w) PROVE TypeOK' BY <1>26 DEF Finish
<1>27. ASSUME NEW w \in Workers, WorkerDies(w) PROVE TypeOK' BY <1>27 DEF WorkerDies
<1>28. ASSUME NEW w \in Workers, LockExpires(w) PROVE TypeOK'
    <2>1. mishaps' \subseteq Mishaps BY <1>28 DEF LockExpires
    <2>2. lock' = NoWorker /\ UNCHANGED <<job, money, provider, pc, at, queue, faults>> BY <1>28 DEF LockExpires
    <2> QED BY <2>1, <2>2
<1>29. CASE UNCHANGED vars BY <1>29 DEF vars
<1> QED BY <1>1, <1>2, <1>3, <1>4, <1>5, <1>6, <1>7, <1>8, <1>9, <1>10, <1>11, <1>12, <1>13, <1>14, <1>15, <1>16, <1>17, <1>18, <1>19, <1>20, <1>21, <1>22, <1>23, <1>24, <1>25, <1>26, <1>27, <1>28, <1>29 DEF Next, Submission, Work

\* The claims keep to the status and the steps: each write of the status asks for what it
\* comes from, save the submission's, which runs for jobs that were never named.
LEMMA NextJourney == TypeOK /\ Journey /\ [Next]_vars => Journey'
<1> USE DEF TypeOK, Journey, SubmitJourney, HelperJourney, JobJourney, WorkJourney
<1> SUFFICES ASSUME TypeOK, Journey, [Next]_vars PROVE Journey'
    OBVIOUS
<1>1. CASE Create
    <2>1. SubmitJourney' BY <1>1 DEF Create
    <2>2. HelperJourney' BY <1>1 DEF Create
    <2>3. JobJourney' BY <1>1 DEF Create
    <2>4. WorkJourney' BY <1>1 DEF Create
    <2> QED BY <1>1, <2>1, <2>2, <2>3, <2>4
<1>2. CASE Reserve BY <1>2 DEF Reserve, ReserveTx
<1>3. CASE BeginUpload BY <1>3 DEF BeginUpload, CanTransition, Forward
<1>4. CASE ProviderSubmits BY <1>4 DEF ProviderSubmits
<1>5. CASE RecordSubmit BY <1>5 DEF RecordSubmit, CanTransition, Forward
<1>6. CASE Abort BY <1>6 DEF Abort, OrphanCancelled
<1>7. CASE MarkFailed BY <1>7 DEF MarkFailed
<1>8. CASE ReleaseSubmit BY <1>8 DEF ReleaseSubmit, ReleaseOK, ReleaseErr, ReleaseTx
<1>9. CASE CancelReads BY <1>9 DEF CancelReads
<1>10. CASE CancelUnnamed BY <1>10 DEF CancelUnnamed, CanTransition, Forward
<1>11. CASE FailStale BY <1>11 DEF FailStale
<1>12. CASE Resubmit BY <1>12 DEF Resubmit
<1>13. CASE RecoverStaleActive BY <1>13 DEF RecoverStaleActive, ActiveIsStale
<1>14. CASE ProviderEnds BY <1>14 DEF ProviderEnds
<1>15. ASSUME NEW p \in Processes, ReleaseEnded(p) PROVE Journey' BY <1>15 DEF ReleaseEnded, ReleaseOK, ReleaseErr, ReleaseTx, RetryRelease
<1>16. ASSUME NEW p \in Processes, Enqueue(p) PROVE Journey' BY <1>16 DEF Enqueue
<1>17. ASSUME NEW p \in Processes, Crash(p) PROVE Journey' BY <1>17 DEF Crash
<1>18. ASSUME NEW w \in Workers, Take(w) PROVE Journey' BY <1>18 DEF Take, LockIsFree
<1>19. ASSUME NEW w \in Workers, Look(w) PROVE Journey' BY <1>19 DEF Look
<1>20. ASSUME NEW w \in Workers, Index(w) PROVE Journey' BY <1>20 DEF Index, CanTransition, Forward
<1>21. ASSUME NEW w \in Workers, Capture(w) PROVE Journey' BY <1>21 DEF Capture, FailSettlement, Retried, CaptureTx
<1>22. ASSUME NEW w \in Workers, Mark(w) PROVE Journey' BY <1>22 DEF Mark, IsSettling
<1>23. ASSUME NEW w \in Workers, GiveUp(w) PROVE Journey' BY <1>23 DEF GiveUp, ReleaseOK, ReleaseErr, ReleaseTx
<1>24. ASSUME NEW w \in Workers, FailExhausted(w) PROVE Journey' BY <1>24 DEF FailExhausted, CanTransition, Forward
<1>25. ASSUME NEW w \in Workers, Release(w) PROVE Journey' BY <1>25 DEF Release, ReleaseOK, ReleaseErr, ReleaseTx
<1>26. ASSUME NEW w \in Workers, Finish(w) PROVE Journey' BY <1>26 DEF Finish
<1>27. ASSUME NEW w \in Workers, WorkerDies(w) PROVE Journey' BY <1>27 DEF WorkerDies
<1>28. ASSUME NEW w \in Workers, LockExpires(w) PROVE Journey' BY <1>28 DEF LockExpires
<1>29. CASE UNCHANGED vars BY <1>29 DEF vars
<1> QED BY <1>1, <1>2, <1>3, <1>4, <1>5, <1>6, <1>7, <1>8, <1>9, <1>10, <1>11, <1>12, <1>13, <1>14, <1>15, <1>16, <1>17, <1>18, <1>19, <1>20, <1>21, <1>22, <1>23, <1>24, <1>25, <1>26, <1>27, <1>28, <1>29 DEF Next, Submission, Work

\* Each transaction moves what its claim says, unless the other end came before.
LEMMA NextPool == TypeOK /\ Journey /\ PoolIsExact /\ [Next]_vars => PoolIsExact'
<1> USE DEF TypeOK, PoolIsExact, If, Journey, SubmitJourney, HelperJourney, JobJourney, WorkJourney
<1> SUFFICES ASSUME TypeOK, Journey, PoolIsExact, [Next]_vars PROVE PoolIsExact'
    OBVIOUS
<1>1. CASE Create BY <1>1 DEF Create
<1>2. CASE Reserve BY <1>2 DEF Reserve, ReserveTx
<1>3. CASE BeginUpload BY <1>3 DEF BeginUpload, CanTransition, Forward
<1>4. CASE ProviderSubmits BY <1>4 DEF ProviderSubmits
<1>5. CASE RecordSubmit BY <1>5 DEF RecordSubmit, CanTransition, Forward
<1>6. CASE Abort BY <1>6 DEF Abort, OrphanCancelled
<1>7. CASE MarkFailed BY <1>7 DEF MarkFailed
<1>8. CASE ReleaseSubmit BY <1>8 DEF ReleaseSubmit, ReleaseOK, ReleaseErr, ReleaseTx
<1>9. CASE CancelReads BY <1>9 DEF CancelReads
<1>10. CASE CancelUnnamed BY <1>10 DEF CancelUnnamed, CanTransition, Forward
<1>11. CASE FailStale BY <1>11 DEF FailStale
<1>12. CASE Resubmit BY <1>12 DEF Resubmit
<1>13. CASE RecoverStaleActive BY <1>13 DEF RecoverStaleActive, ActiveIsStale
<1>14. CASE ProviderEnds BY <1>14 DEF ProviderEnds
<1>15. ASSUME NEW p \in Processes, ReleaseEnded(p) PROVE PoolIsExact' BY <1>15 DEF ReleaseEnded, ReleaseOK, ReleaseErr, ReleaseTx, RetryRelease
<1>16. ASSUME NEW p \in Processes, Enqueue(p) PROVE PoolIsExact' BY <1>16 DEF Enqueue
<1>17. ASSUME NEW p \in Processes, Crash(p) PROVE PoolIsExact' BY <1>17 DEF Crash
<1>18. ASSUME NEW w \in Workers, Take(w) PROVE PoolIsExact' BY <1>18 DEF Take, LockIsFree
<1>19. ASSUME NEW w \in Workers, Look(w) PROVE PoolIsExact' BY <1>19 DEF Look
<1>20. ASSUME NEW w \in Workers, Index(w) PROVE PoolIsExact' BY <1>20 DEF Index, CanTransition, Forward
<1>21. ASSUME NEW w \in Workers, Capture(w) PROVE PoolIsExact' BY <1>21 DEF Capture, FailSettlement, Retried, CaptureTx
<1>22. ASSUME NEW w \in Workers, Mark(w) PROVE PoolIsExact' BY <1>22 DEF Mark, IsSettling
<1>23. ASSUME NEW w \in Workers, GiveUp(w) PROVE PoolIsExact' BY <1>23 DEF GiveUp, ReleaseOK, ReleaseErr, ReleaseTx
<1>24. ASSUME NEW w \in Workers, FailExhausted(w) PROVE PoolIsExact' BY <1>24 DEF FailExhausted, CanTransition, Forward
<1>25. ASSUME NEW w \in Workers, Release(w) PROVE PoolIsExact' BY <1>25 DEF Release, ReleaseOK, ReleaseErr, ReleaseTx
<1>26. ASSUME NEW w \in Workers, Finish(w) PROVE PoolIsExact' BY <1>26 DEF Finish
<1>27. ASSUME NEW w \in Workers, WorkerDies(w) PROVE PoolIsExact' BY <1>27 DEF WorkerDies
<1>28. ASSUME NEW w \in Workers, LockExpires(w) PROVE PoolIsExact' BY <1>28 DEF LockExpires
<1>29. CASE UNCHANGED vars BY <1>29 DEF vars
<1> QED BY <1>1, <1>2, <1>3, <1>4, <1>5, <1>6, <1>7, <1>8, <1>9, <1>10, <1>11, <1>12, <1>13, <1>14, <1>15, <1>16, <1>17, <1>18, <1>19, <1>20, <1>21, <1>22, <1>23, <1>24, <1>25, <1>26, <1>27, <1>28, <1>29 DEF Next, Submission, Work

\* A provider job is live only between its creation and its end, and what gives the
\* money back meanwhile is a race or an orphan.
LEMMA NextLive == TypeOK /\ Journey /\ LiveIsPaid /\ [Next]_vars => LiveIsPaid'
<1> USE DEF TypeOK, LiveIsPaid, Journey, SubmitJourney, HelperJourney, JobJourney, WorkJourney
<1> SUFFICES ASSUME TypeOK, Journey, LiveIsPaid, [Next]_vars PROVE LiveIsPaid'
    OBVIOUS
<1>1. CASE Create BY <1>1 DEF Create
<1>2. CASE Reserve BY <1>2 DEF Reserve, ReserveTx
<1>3. CASE BeginUpload BY <1>3 DEF BeginUpload, CanTransition, Forward
<1>4. CASE ProviderSubmits BY <1>4 DEF ProviderSubmits
<1>5. CASE RecordSubmit BY <1>5 DEF RecordSubmit, CanTransition, Forward
<1>6. CASE Abort BY <1>6 DEF Abort, OrphanCancelled
<1>7. CASE MarkFailed BY <1>7 DEF MarkFailed
<1>8. CASE ReleaseSubmit BY <1>8 DEF ReleaseSubmit, ReleaseOK, ReleaseErr, ReleaseTx
<1>9. CASE CancelReads BY <1>9 DEF CancelReads
<1>10. CASE CancelUnnamed BY <1>10 DEF CancelUnnamed, CanTransition, Forward
<1>11. CASE FailStale BY <1>11 DEF FailStale
<1>12. CASE Resubmit BY <1>12 DEF Resubmit
<1>13. CASE RecoverStaleActive BY <1>13 DEF RecoverStaleActive, ActiveIsStale
<1>14. CASE ProviderEnds BY <1>14 DEF ProviderEnds
<1>15. ASSUME NEW p \in Processes, ReleaseEnded(p) PROVE LiveIsPaid' BY <1>15 DEF ReleaseEnded, ReleaseOK, ReleaseErr, ReleaseTx, RetryRelease
<1>16. ASSUME NEW p \in Processes, Enqueue(p) PROVE LiveIsPaid' BY <1>16 DEF Enqueue
<1>17. ASSUME NEW p \in Processes, Crash(p) PROVE LiveIsPaid' BY <1>17 DEF Crash
<1>18. ASSUME NEW w \in Workers, Take(w) PROVE LiveIsPaid' BY <1>18 DEF Take, LockIsFree
<1>19. ASSUME NEW w \in Workers, Look(w) PROVE LiveIsPaid' BY <1>19 DEF Look
<1>20. ASSUME NEW w \in Workers, Index(w) PROVE LiveIsPaid' BY <1>20 DEF Index, CanTransition, Forward
<1>21. ASSUME NEW w \in Workers, Capture(w) PROVE LiveIsPaid' BY <1>21 DEF Capture, FailSettlement, Retried, CaptureTx
<1>22. ASSUME NEW w \in Workers, Mark(w) PROVE LiveIsPaid' BY <1>22 DEF Mark, IsSettling
<1>23. ASSUME NEW w \in Workers, GiveUp(w) PROVE LiveIsPaid' BY <1>23 DEF GiveUp, ReleaseOK, ReleaseErr, ReleaseTx
<1>24. ASSUME NEW w \in Workers, FailExhausted(w) PROVE LiveIsPaid' BY <1>24 DEF FailExhausted, CanTransition, Forward
<1>25. ASSUME NEW w \in Workers, Release(w) PROVE LiveIsPaid' BY <1>25 DEF Release, ReleaseOK, ReleaseErr, ReleaseTx
<1>26. ASSUME NEW w \in Workers, Finish(w) PROVE LiveIsPaid' BY <1>26 DEF Finish
<1>27. ASSUME NEW w \in Workers, WorkerDies(w) PROVE LiveIsPaid' BY <1>27 DEF WorkerDies
<1>28. ASSUME NEW w \in Workers, LockExpires(w) PROVE LiveIsPaid' BY <1>28 DEF LockExpires
<1>29. CASE UNCHANGED vars BY <1>29 DEF vars
<1> QED BY <1>1, <1>2, <1>3, <1>4, <1>5, <1>6, <1>7, <1>8, <1>9, <1>10, <1>11, <1>12, <1>13, <1>14, <1>15, <1>16, <1>17, <1>18, <1>19, <1>20, <1>21, <1>22, <1>23, <1>24, <1>25, <1>26, <1>27, <1>28, <1>29 DEF Next, Submission, Work

\* Whoever leaves an open hold hands it to the queue, or a mishap is on record.
LEMMA NextWatched == TypeOK /\ Journey /\ Watched /\ [Next]_vars => Watched'
<1> USE DEF TypeOK, Watched, Watchers, Ending, Journey, SubmitJourney, HelperJourney, JobJourney, WorkJourney
<1> SUFFICES ASSUME TypeOK, Journey, Watched, [Next]_vars PROVE Watched'
    OBVIOUS
<1>1. CASE Create BY <1>1 DEF Create
<1>2. CASE Reserve BY <1>2 DEF Reserve, ReserveTx
<1>3. CASE BeginUpload BY <1>3 DEF BeginUpload, CanTransition, Forward
<1>4. CASE ProviderSubmits BY <1>4 DEF ProviderSubmits
<1>5. CASE RecordSubmit BY <1>5 DEF RecordSubmit, CanTransition, Forward
<1>6. CASE Abort BY <1>6 DEF Abort, OrphanCancelled
<1>7. CASE MarkFailed BY <1>7 DEF MarkFailed
<1>8. CASE ReleaseSubmit BY <1>8 DEF ReleaseSubmit, ReleaseOK, ReleaseErr, ReleaseTx
<1>9. CASE CancelReads BY <1>9 DEF CancelReads
<1>10. CASE CancelUnnamed BY <1>10 DEF CancelUnnamed, CanTransition, Forward
<1>11. CASE FailStale BY <1>11 DEF FailStale
<1>12. CASE Resubmit BY <1>12 DEF Resubmit
<1>13. CASE RecoverStaleActive BY <1>13 DEF RecoverStaleActive, ActiveIsStale
<1>14. CASE ProviderEnds BY <1>14 DEF ProviderEnds
<1>15. ASSUME NEW p \in Processes, ReleaseEnded(p) PROVE Watched' BY <1>15 DEF ReleaseEnded, ReleaseOK, ReleaseErr, ReleaseTx, RetryRelease
<1>16. ASSUME NEW p \in Processes, Enqueue(p) PROVE Watched' BY <1>16 DEF Enqueue
<1>17. ASSUME NEW p \in Processes, Crash(p) PROVE Watched' BY <1>17 DEF Crash
<1>18. ASSUME NEW w \in Workers, Take(w) PROVE Watched' BY <1>18 DEF Take, LockIsFree
<1>19. ASSUME NEW w \in Workers, Look(w) PROVE Watched' BY <1>19 DEF Look
<1>20. ASSUME NEW w \in Workers, Index(w) PROVE Watched' BY <1>20 DEF Index, CanTransition, Forward
<1>21. ASSUME NEW w \in Workers, Capture(w) PROVE Watched' BY <1>21 DEF Capture, FailSettlement, Retried, CaptureTx
<1>22. ASSUME NEW w \in Workers, Mark(w) PROVE Watched' BY <1>22 DEF Mark, IsSettling
<1>23. ASSUME NEW w \in Workers, GiveUp(w) PROVE Watched' BY <1>23 DEF GiveUp, ReleaseOK, ReleaseErr, ReleaseTx
<1>24. ASSUME NEW w \in Workers, FailExhausted(w) PROVE Watched' BY <1>24 DEF FailExhausted, CanTransition, Forward
<1>25. ASSUME NEW w \in Workers, Release(w) PROVE Watched' BY <1>25 DEF Release, ReleaseOK, ReleaseErr, ReleaseTx
<1>26. ASSUME NEW w \in Workers, Finish(w) PROVE Watched' BY <1>26 DEF Finish
<1>27. ASSUME NEW w \in Workers, WorkerDies(w) PROVE Watched' BY <1>27 DEF WorkerDies
<1>28. ASSUME NEW w \in Workers, LockExpires(w) PROVE Watched' BY <1>28 DEF LockExpires
<1>29. CASE UNCHANGED vars BY <1>29 DEF vars
<1> QED BY <1>1, <1>2, <1>3, <1>4, <1>5, <1>6, <1>7, <1>8, <1>9, <1>10, <1>11, <1>12, <1>13, <1>14, <1>15, <1>16, <1>17, <1>18, <1>19, <1>20, <1>21, <1>22, <1>23, <1>24, <1>25, <1>26, <1>27, <1>28, <1>29 DEF Next, Submission, Work

\* The lock keeps the second worker out, and a capture's job can only settle or give up.
LEMMA NextSole == TypeOK /\ Journey /\ Sole /\ [Next]_vars => Sole'
<1> USE DEF TypeOK, Sole, Journey, SubmitJourney, HelperJourney, JobJourney, WorkJourney
<1> SUFFICES ASSUME TypeOK, Journey, Sole, [Next]_vars PROVE Sole'
    OBVIOUS
<1>1. CASE Create BY <1>1 DEF Create
<1>2. CASE Reserve BY <1>2 DEF Reserve, ReserveTx
<1>3. CASE BeginUpload BY <1>3 DEF BeginUpload, CanTransition, Forward
<1>4. CASE ProviderSubmits BY <1>4 DEF ProviderSubmits
<1>5. CASE RecordSubmit BY <1>5 DEF RecordSubmit, CanTransition, Forward
<1>6. CASE Abort BY <1>6 DEF Abort, OrphanCancelled
<1>7. CASE MarkFailed BY <1>7 DEF MarkFailed
<1>8. CASE ReleaseSubmit BY <1>8 DEF ReleaseSubmit, ReleaseOK, ReleaseErr, ReleaseTx
<1>9. CASE CancelReads BY <1>9 DEF CancelReads
<1>10. CASE CancelUnnamed BY <1>10 DEF CancelUnnamed, CanTransition, Forward
<1>11. CASE FailStale BY <1>11 DEF FailStale
<1>12. CASE Resubmit BY <1>12 DEF Resubmit
<1>13. CASE RecoverStaleActive BY <1>13 DEF RecoverStaleActive, ActiveIsStale
<1>14. CASE ProviderEnds BY <1>14 DEF ProviderEnds
<1>15. ASSUME NEW p \in Processes, ReleaseEnded(p) PROVE Sole' BY <1>15 DEF ReleaseEnded, ReleaseOK, ReleaseErr, ReleaseTx, RetryRelease
<1>16. ASSUME NEW p \in Processes, Enqueue(p) PROVE Sole' BY <1>16 DEF Enqueue
<1>17. ASSUME NEW p \in Processes, Crash(p) PROVE Sole' BY <1>17 DEF Crash
<1>18. ASSUME NEW w \in Workers, Take(w) PROVE Sole' BY <1>18 DEF Take, LockIsFree
<1>19. ASSUME NEW w \in Workers, Look(w) PROVE Sole' BY <1>19 DEF Look
<1>20. ASSUME NEW w \in Workers, Index(w) PROVE Sole' BY <1>20 DEF Index, CanTransition, Forward
<1>21. ASSUME NEW w \in Workers, Capture(w) PROVE Sole' BY <1>21 DEF Capture, FailSettlement, Retried, CaptureTx
<1>22. ASSUME NEW w \in Workers, Mark(w) PROVE Sole' BY <1>22 DEF Mark, IsSettling
<1>23. ASSUME NEW w \in Workers, GiveUp(w) PROVE Sole' BY <1>23 DEF GiveUp, ReleaseOK, ReleaseErr, ReleaseTx
<1>24. ASSUME NEW w \in Workers, FailExhausted(w) PROVE Sole' BY <1>24 DEF FailExhausted, CanTransition, Forward
<1>25. ASSUME NEW w \in Workers, Release(w) PROVE Sole' BY <1>25 DEF Release, ReleaseOK, ReleaseErr, ReleaseTx
<1>26. ASSUME NEW w \in Workers, Finish(w) PROVE Sole' BY <1>26 DEF Finish
<1>27. ASSUME NEW w \in Workers, WorkerDies(w) PROVE Sole' BY <1>27 DEF WorkerDies
<1>28. ASSUME NEW w \in Workers, LockExpires(w) PROVE Sole' BY <1>28 DEF LockExpires
<1>29. CASE UNCHANGED vars BY <1>29 DEF vars
<1> QED BY <1>1, <1>2, <1>3, <1>4, <1>5, <1>6, <1>7, <1>8, <1>9, <1>10, <1>11, <1>12, <1>13, <1>14, <1>15, <1>16, <1>17, <1>18, <1>19, <1>20, <1>21, <1>22, <1>23, <1>24, <1>25, <1>26, <1>27, <1>28, <1>29 DEF Next, Submission, Work

-----------------------------------------------------------------------------

\* The invariant of every run of the system (service/batch_image_*.go).
THEOREM Invariance == Spec => []IInv
<1>1. IInv /\ [Next]_vars => IInv'
    BY NextTypeOK, NextJourney, NextPool, NextLive, NextWatched, NextSole DEF IInv
<1> QED BY InitIInv, <1>1, PTL DEF Spec

\* The row, the balances and the steps stay what the code can read and write; the
\* pool of frozen money is never negative.
THEOREM TypeCorrect == Spec => []TypeOK
<1> IInv => TypeOK BY DEF IInv
<1> QED BY Invariance, PTL

\* A hold is charged and given back only when its retries ran out or its lock was lost.
THEOREM HoldsEndOnce == Spec => []HoldEndsOnce
<1> IInv => HoldEndsOnce BY DEF IInv, Sole, HoldEndsOnce
<1> QED BY Invariance, PTL

\* Balance and frozen pool agree with the claims of reserve, capture and release.
THEOREM MoneyStaysExact == Spec => []MoneyIsExact
<1>1. IInv => HoldEndsOnce BY DEF IInv, Sole, HoldEndsOnce
<1>2. IInv => OnlyHeldEnds BY DEF IInv, Journey, JobJourney, OnlyHeldEnds
<1>3. IInv => MoneyIsExact BY <1>1, <1>2 DEF IInv, MoneyIsExact
<1> QED BY <1>3, Invariance, PTL

\* A captured hold belongs to a job that is settling or completed.
THEOREM ChargesAreEarned == Spec => []ChargedIsCompleted
<1> IInv => ChargedIsCompleted BY DEF IInv, Sole, ChargedIsCompleted
<1> QED BY Invariance, PTL

\* An open hold has an unsubmitted job, a place in the queue or a release under way.
THEOREM HoldsAreWatched == Spec => []OpenHoldIsWatched
<1> IInv => OpenHoldIsWatched BY DEF IInv, Watched, Watchers, OpenHoldIsWatched
<1> QED BY Invariance, PTL

\* The provider works on no job whose hold was given back.
THEOREM RefundsStopWork == Spec => []RefundedIsStopped
<1> IInv => RefundedIsStopped BY DEF IInv, LiveIsPaid, RefundedIsStopped
<1> QED BY Invariance, PTL

\* No step revives an ended job.
THEOREM EndsAreFinal == Spec => EndIsFinal
<1> DEFINE Final == \A s \in Terminal :
        status = s => status' \in {s} \cup (IF s = "cancelled" THEN {"failed"} ELSE {})
<1>1. IInv /\ [Next]_vars => Final
    <2> SUFFICES ASSUME IInv, [Next]_vars PROVE Final
        OBVIOUS
    <2> USE DEF IInv, TypeOK, Journey, SubmitJourney, HelperJourney, JobJourney, WorkJourney
    <2>1. CASE UNCHANGED status BY <2>1
    <2>2. CASE BeginUpload BY <2>2 DEF BeginUpload, CanTransition, Forward
    <2>3. CASE RecordSubmit BY <2>3 DEF RecordSubmit, CanTransition, Forward
    <2>4. CASE Create BY <2>4 DEF Create
    <2>5. CASE MarkFailed BY <2>5 DEF MarkFailed
    <2>6. CASE ReleaseSubmit BY <2>6 DEF ReleaseSubmit
    <2>7. CASE CancelUnnamed BY <2>7 DEF CancelUnnamed, CanTransition, Forward
    <2>8. CASE FailStale BY <2>8 DEF FailStale
    <2>9. ASSUME NEW w \in Workers, Look(w) PROVE Final BY <2>9 DEF Look
    <2>10. ASSUME NEW w \in Workers, Index(w) PROVE Final BY <2>10 DEF Index, CanTransition, Forward
    <2>11. ASSUME NEW w \in Workers, Mark(w) PROVE Final BY <2>11 DEF Mark, IsSettling
    <2>12. ASSUME NEW w \in Workers, FailExhausted(w) PROVE Final BY <2>12 DEF FailExhausted, CanTransition, Forward
    <2> QED BY <2>1, <2>2, <2>3, <2>4, <2>5, <2>6, <2>7, <2>8, <2>9, <2>10, <2>11, <2>12, Zenon
        DEF Next, Submission, Work, vars, Reserve, ProviderSubmits, Abort, CancelReads, Resubmit, ReleaseEnded, Enqueue, Crash, Take, Capture, GiveUp, Release, Finish, WorkerDies, LockExpires, RecoverStaleActive, ProviderEnds
<1> QED BY <1>1, Invariance, PTL DEF Spec, EndIsFinal

-----------------------------------------------------------------------------
(* BatchImageHold implements BatchImagePromise.                            *)

\* What the two excuses stand for.
LEMMA ExcuseMeaning ==
    /\ "lock" \in Excuses <=> "lock" \in mishaps
    /\ Excuses # {} <=> "lock" \in mishaps \/ retries = MaxRetries
<1>1. "lock" \in Excuses <=> "lock" \in mishaps BY DEF Excuses
<1>2. "retries" \in Excuses <=> retries = MaxRetries BY DEF Excuses
<1>3. Excuses \subseteq {"lock", "retries"} BY DEF Excuses
<1> QED BY <1>1, <1>2, <1>3

\* A mishap is not forgotten and retries are not given back (recordSettlementFailure
\* only counts up).
LEMMA ExcusesStay == TypeOK /\ [Next]_vars => Excuses \subseteq Excuses'
<1> SUFFICES ASSUME TypeOK, [Next]_vars
             PROVE mishaps \subseteq mishaps' /\ (retries = MaxRetries => retries' = MaxRetries)
    BY DEF Excuses
<1> USE DEF TypeOK
<1>1. CASE Submission
  <2>1. UNCHANGED retries
        BY <1>1 DEF Submission, Create, Reserve, BeginUpload, ProviderSubmits, RecordSubmit, Abort,
                    MarkFailed, ReleaseSubmit
  <2>2. mishaps \subseteq mishaps'
        BY <1>1 DEF Submission, Create, Reserve, BeginUpload, ProviderSubmits, RecordSubmit, Abort,
                    MarkFailed, ReleaseSubmit, ReleaseOK, ReleaseErr
  <2> QED BY <2>1, <2>2
<1>2. ASSUME NEW w \in Workers, Work(w)
      PROVE mishaps \subseteq mishaps' /\ (retries = MaxRetries => retries' = MaxRetries)
  <2>1. mishaps \subseteq mishaps'
        BY <1>2 DEF Work, Look, Index, Capture, Mark, GiveUp, FailExhausted, Release, Finish, ReleaseOK, ReleaseErr
  <2>2. CASE Capture(w) BY <2>1, <2>2 DEF Capture, FailSettlement, Retried
  <2>3. CASE ~Capture(w)
        BY <1>2, <2>1, <2>3 DEF Work, Look, Index, Mark, GiveUp, FailExhausted, Release, Finish
  <2> QED BY <2>2, <2>3
<1>3. ASSUME NEW p \in Processes, ReleaseEnded(p) \/ Enqueue(p) \/ Crash(p)
      PROVE mishaps \subseteq mishaps' /\ UNCHANGED retries
      BY <1>3 DEF ReleaseEnded, ReleaseOK, ReleaseErr, Enqueue, Crash
<1>4. ASSUME NEW w \in Workers, Take(w) \/ WorkerDies(w) \/ LockExpires(w)
      PROVE mishaps \subseteq mishaps' /\ UNCHANGED retries
      BY <1>4 DEF Take, WorkerDies, LockExpires
<1>5. ASSUME CancelReads \/ CancelUnnamed \/ FailStale \/ Resubmit \/ RecoverStaleActive \/ ProviderEnds
      PROVE mishaps \subseteq mishaps' /\ UNCHANGED retries
      BY <1>5 DEF CancelReads, CancelUnnamed, FailStale, Resubmit, RecoverStaleActive, ProviderEnds
<1>6. CASE UNCHANGED vars BY <1>6 DEF vars
<1> QED BY <1>1, <1>2, <1>3, <1>4, <1>5, <1>6 DEF Next

\* A release returns the money of a job that does not run, once; it takes back a charge
\* only after a settlement that ran out of retries or without its lock.
LEMMA ReleaseMoves ==
    ASSUME IInv, ReleaseTx,
           status' = status \/ (status \in Unsubmitted \cup Ended /\ status' = "failed"),
           status \in Unsubmitted \cup Ended \/ Excuses # {}
    PROVE  Promise!Return \/ Promise!ReturnCharged \/ UNCHANGED <<HoldState, balance, frozen>>
<1> USE DEF IInv, TypeOK, ReleaseTx, Journey, JobJourney
<1>1. CASE "release" \in claims \/ "hold" \notin claims
      BY <1>1 DEF HoldState
<1>2. CASE "release" \notin claims /\ "hold" \in claims
  <2>1. refunded = "no" /\ refunded' = "yes" /\ claims' = claims \cup {"release"} BY <1>2
  <2>2. balance' = balance + Amount - 0 /\ frozen' = frozen - Amount BY <1>2
  <2>3. CASE "capture" \in claims
    <3>1. HoldState = "charged" /\ HoldState' = "both" BY <1>2, <2>1, <2>3 DEF HoldState
    <3>2. Excuses # {} BY <2>1, <2>3, ExcuseMeaning DEF Sole
    <3>3. status' = status BY <2>1, <2>3, <3>2
    <3> QED BY <2>2, <3>1, <3>2, <3>3 DEF Promise!ReturnCharged, Promise!Becomes, Phase
  <2>4. CASE "capture" \notin claims
    <3>1. HoldState = "held" /\ HoldState' = "returned" BY <1>2, <2>1, <2>4 DEF HoldState
    <3>2. Phase \in {"accepted", "ended"} \/ Excuses # {} BY DEF Phase
    <3>3. Phase' = Phase \/ (Phase = "accepted" /\ Phase' = "ended") BY DEF Phase
    <3> QED BY <2>2, <3>1, <3>2, <3>3 DEF Promise!Return, Promise!Becomes
  <2> QED BY <2>3, <2>4
<1> QED BY <1>1, <1>2

\* A capture charges a job that is settling, once; without its lock it may also charge
\* one that has its money back.
LEMMA CaptureMoves ==
    ASSUME IInv, NEW w \in Workers, at[w] = "capture", CaptureTx, UNCHANGED status
    PROVE  Promise!Charge \/ Promise!ChargeReturned \/ UNCHANGED <<Phase, HoldState, balance, frozen>>
<1> USE DEF IInv, TypeOK, CaptureTx
<1>1. "hold" \in claims /\ UNCHANGED Phase BY DEF Journey, WorkJourney, JobJourney, Phase
<1>2. CASE "capture" \in claims BY <1>1, <1>2 DEF HoldState
<1>3. CASE "capture" \notin claims
  <2>1. claims' = claims \cup {"capture"} /\ refunded' = refunded BY <1>3
  <2>2. balance' = balance + Amount - Cost /\ frozen' = frozen - Amount BY <1>3
  <2>3. CASE refunded = "no"
    <3>1. HoldState = "held" /\ HoldState' = "charged" BY <1>1, <1>3, <2>1, <2>3 DEF HoldState
    <3>2. Phase = "running" \/ "lock" \in Excuses BY ExcuseMeaning DEF Sole, Phase
    <3> QED BY <1>1, <2>2, <3>1, <3>2 DEF Promise!Charge, Promise!Becomes
  <2>4. CASE refunded = "yes"
    <3>1. HoldState = "returned" /\ HoldState' = "both" BY <1>1, <1>3, <2>1, <2>4 DEF HoldState
    <3>2. "lock" \in Excuses
          BY <2>4, ExcuseMeaning DEF Sole, Journey, WorkJourney
    <3> QED BY <1>1, <2>2, <3>1, <3>2 DEF Promise!ChargeReturned, Promise!Becomes
  <2> QED BY <2>3, <2>4
<1> QED BY <1>2, <1>3

\* Action by action: what changes the row and what changes the money.
LEMMA PromiseMove == IInv /\ [Next]_vars => Promise!Move
<1> SUFFICES ASSUME IInv, [Next]_vars PROVE Promise!Move
    OBVIOUS
<1> USE DEF IInv, TypeOK, Promise!Move, Promise!Turns
<1> DEFINE cash == <<HoldState, balance, frozen>>
           Quiet == UNCHANGED <<Phase, HoldState, balance, frozen>>
<1>0. UNCHANGED money => UNCHANGED cash BY DEF HoldState
<1>1. ASSUME Create PROVE Promise!Accept
  <2>1. status = "none" BY <1>1 DEF Create, Journey, SubmitJourney
  <2> QED BY <1>1, <1>0, <2>1 DEF Create, Phase, Promise!Accept
<1>2. ASSUME Reserve PROVE Promise!Hold \/ Quiet
  <2>1. CASE UNCHANGED money BY <1>2, <2>1, <1>0 DEF Reserve, Phase
  <2>2. CASE ReserveTx
    <3>1. pc["submit"] = "reserve" /\ UNCHANGED status BY <1>2 DEF Reserve
    <3>2. "hold" \notin claims /\ status # "none" BY <3>1 DEF Journey, SubmitJourney
    <3>3. HoldState = "none" /\ HoldState' = "held"
          BY <2>2, <3>2 DEF HoldState, ReserveTx, Journey, JobJourney
    <3>4. Phase # "none" /\ UNCHANGED Phase BY <3>1, <3>2 DEF Phase
    <3> QED BY <2>2, <3>3, <3>4 DEF ReserveTx, Promise!Hold
  <2> QED BY <1>2, <2>1, <2>2 DEF Reserve
<1>3. ASSUME BeginUpload PROVE Quiet
      BY <1>3, <1>0 DEF BeginUpload, CanTransition, Forward, Phase
<1>4. ASSUME RecordSubmit PROVE Promise!Run \/ Quiet
  <2>1. CASE UNCHANGED status BY <1>4, <2>1, <1>0 DEF RecordSubmit, Phase
  <2>2. CASE status' # status
    <3>1. pc["submit"] = "record" /\ status' = "submitted" /\ CanTransition(status, "submitted")
          BY <1>4, <2>2 DEF RecordSubmit
    <3>2. status \in Unsubmitted BY <3>1 DEF CanTransition, Forward
    <3>3. "hold" \in claims /\ "capture" \notin claims /\ refunded = "no"
          BY <3>1, <3>2 DEF Journey, SubmitJourney, JobJourney
    <3>4. HoldState = "held" /\ Phase = "accepted" /\ Phase' = "running"
          BY <3>1, <3>2, <3>3 DEF HoldState, Phase
    <3> QED BY <1>4, <1>0, <3>4 DEF RecordSubmit, Promise!Run
  <2> QED BY <2>1, <2>2
<1>5. ASSUME UNCHANGED money, status' \in {"failed", "cancelled"},
             status \in {"failed", "cancelled"} \/ (status \notin Terminal \cup {"none"} /\ (HoldState # "charged" \/ "lock" \in Excuses))
      PROVE  Promise!End \/ Quiet
      BY <1>5, <1>0 DEF Phase, Promise!End
<1>6. ASSUME MarkFailed PROVE Promise!End \/ Quiet
  <2>1. named = "no" /\ status # "none" BY <1>6 DEF MarkFailed, Journey, SubmitJourney
  <2>2. status \in Unsubmitted \cup Ended /\ HoldState # "charged"
        BY <2>1 DEF Journey, JobJourney, HoldState
  <2> QED BY <1>6, <1>5, <1>0, <2>2 DEF MarkFailed, Phase
<1>7. ASSUME CancelUnnamed PROVE Promise!End \/ Quiet
  <2>1. CASE UNCHANGED status BY <1>7, <1>0, <2>1 DEF CancelUnnamed, Phase
  <2>2. CASE status' # status
    <3>1. status' = "cancelled" /\ CanTransition(status, "cancelled") /\ UNCHANGED money
          BY <1>7, <2>2 DEF CancelUnnamed
    <3>2. status \notin Terminal \cup {"none", "settling"} BY <3>1 DEF CanTransition, Forward
    <3>3. HoldState # "charged" BY <3>2 DEF HoldState, Journey, JobJourney
    <3> QED BY <1>5, <3>1, <3>2, <3>3
  <2> QED BY <2>1, <2>2
<1>8. ASSUME FailStale PROVE Promise!End \/ Quiet
  <2>1. named = "no" /\ status \in Unsubmitted /\ status' = "failed" /\ UNCHANGED money
        BY <1>8 DEF FailStale
  <2>2. HoldState # "charged" BY <2>1 DEF HoldState, Journey, JobJourney
  <2> QED BY <1>5, <2>1, <2>2
<1>9. ASSUME NEW w \in Workers, Look(w) PROVE Promise!End \/ Quiet
  <2>1. UNCHANGED money BY <1>9 DEF Look
  <2>2. CASE status' \in {"failed", "cancelled"} /\ status' # status
    <3>1. status \in {"submitted", "running"} BY <1>9, <2>2 DEF Look
    <3>2. HoldState # "charged" BY <3>1 DEF HoldState, Journey, JobJourney
    <3> QED BY <1>5, <2>1, <2>2, <3>1, <3>2
  <2>3. CASE ~(status' \in {"failed", "cancelled"} /\ status' # status)
        BY <1>9, <1>0, <2>1, <2>3 DEF Look, Phase
  <2> QED BY <2>2, <2>3
<1>10. ASSUME NEW w \in Workers, Index(w) PROVE Promise!End \/ Quiet
  <2>1. UNCHANGED money /\ at[w] = "index" BY <1>10 DEF Index
  <2>2. CASE status' = "failed"
    <3>1. status = "failed" \/ status \notin Terminal \cup {"none"}
          BY <1>10, <2>2 DEF Index, CanTransition
    <3>2. HoldState # "charged" \/ "lock" \in Excuses
          BY <2>1, ExcuseMeaning DEF HoldState, Sole, Journey, JobJourney
    <3> QED BY <1>5, <2>1, <2>2, <3>1, <3>2
  <2>3. CASE status' # "failed"
    <3>1. status' = status \/ (status = "indexing" /\ status' = "settling")
          BY <1>10, <2>3 DEF Index, CanTransition, Forward
    <3> QED BY <1>0, <2>1, <3>1 DEF Phase
  <2> QED BY <2>2, <2>3
<1>11. ASSUME NEW w \in Workers, Mark(w) PROVE Promise!Complete \/ Quiet
  <2>1. UNCHANGED money /\ at[w] = "mark" BY <1>11 DEF Mark
  <2>2. CASE UNCHANGED status BY <1>0, <2>1, <2>2 DEF Phase
  <2>3. CASE status' # status
    <3>1. status = "settling" /\ status' = "completed" BY <1>11, <2>3 DEF Mark, IsSettling
    <3>2. "capture" \in claims /\ "hold" \in claims BY <2>1 DEF Journey, WorkJourney, JobJourney
    <3>3. HoldState = "charged" \/ (HoldState = "both" /\ "lock" \in Excuses)
          BY <2>1, <3>1, <3>2, ExcuseMeaning DEF HoldState, Sole, Journey, WorkJourney
    <3> QED BY <1>0, <2>1, <3>1, <3>3 DEF Phase, Promise!Complete
  <2> QED BY <2>2, <2>3
<1>12. ASSUME NEW w \in Workers, FailExhausted(w) PROVE Promise!End \/ Quiet
  <2>1. UNCHANGED money /\ at[w] = "fail" BY <1>12 DEF FailExhausted
  <2>2. CASE UNCHANGED status BY <1>0, <2>1, <2>2 DEF Phase
  <2>3. CASE status' # status
    <3>1. status' = "failed" /\ status \notin Terminal \cup {"none"}
          BY <1>12, <2>3 DEF FailExhausted, CanTransition
    <3>2. HoldState # "charged" BY <2>1 DEF HoldState, Journey, WorkJourney
    <3> QED BY <1>5, <2>1, <3>1, <3>2
  <2> QED BY <2>2, <2>3
<1>13. ASSUME NEW w \in Workers, Capture(w) PROVE Promise!Charge \/ Promise!ChargeReturned \/ Quiet
  <2>1. at[w] = "capture" /\ UNCHANGED status /\ (CaptureTx \/ UNCHANGED money) BY <1>13 DEF Capture
  <2>2. CASE CaptureTx BY <2>1, <2>2, CaptureMoves
  <2>3. CASE UNCHANGED money BY <1>0, <2>1, <2>3 DEF Phase
  <2> QED BY <2>1, <2>2, <2>3
<1>14. ASSUME ReleaseSubmit
       PROVE Promise!Return \/ Promise!ReturnCharged \/ Promise!End \/ Quiet
  <2>1. pc["submit"] \in {"release", "giveback"} /\ status' \in {"failed", status}
        BY <1>14 DEF ReleaseSubmit
  <2>2. named = "no" /\ status # "none" BY <2>1 DEF Journey, SubmitJourney
  <2>3. status \in Unsubmitted \cup Ended /\ HoldState # "charged"
        BY <2>2 DEF Journey, JobJourney, HoldState
  <2>4. CASE UNCHANGED <<HoldState, balance, frozen>>
    <3>1. status' = status \/ Phase' = "ended" BY <2>1 DEF Phase
    <3>2. Phase \in {"accepted", "ended"} BY <2>3 DEF Phase
    <3>3. status' = status => Phase' = Phase BY DEF Phase
    <3> QED BY <2>3, <2>4, <3>1, <3>2, <3>3 DEF Promise!End
  <2>5. CASE ReleaseTx BY <2>1, <2>3, <2>4, <2>5, ReleaseMoves
  <2> QED BY <1>14, <1>0, <2>4, <2>5 DEF ReleaseSubmit, ReleaseOK, ReleaseErr
<1>15. ASSUME ReleaseOK \/ ReleaseErr, UNCHANGED status, status \in Ended \/ Excuses # {}
       PROVE Promise!Return \/ Promise!ReturnCharged \/ Quiet
  <2>1. UNCHANGED Phase BY <1>15 DEF Phase
  <2>2. CASE ReleaseTx BY <1>15, <2>1, <2>2, ReleaseMoves
  <2>3. CASE UNCHANGED money BY <1>0, <2>1, <2>3
  <2> QED BY <1>15, <2>2, <2>3 DEF ReleaseOK, ReleaseErr
<1>16. ASSUME NEW p \in Processes, ReleaseEnded(p)
       PROVE Promise!Return \/ Promise!ReturnCharged \/ Quiet
  <2>1. status \in Ended BY <1>16 DEF ReleaseEnded, Journey, HelperJourney
  <2> QED BY <1>15, <1>16, <2>1 DEF ReleaseEnded
<1>17. ASSUME NEW w \in Workers, Release(w) \/ GiveUp(w)
       PROVE Promise!Return \/ Promise!ReturnCharged \/ Quiet
  <2>1. Release(w) => status \in Ended BY DEF Release, Journey, WorkJourney
  <2>2. GiveUp(w) => Excuses # {} BY ExcuseMeaning DEF GiveUp, Sole
  <2> QED BY <1>15, <1>17, <2>1, <2>2 DEF Release, GiveUp
<1>18. ASSUME NEW w \in Workers, Take(w) \/ Finish(w) \/ WorkerDies(w) \/ LockExpires(w) PROVE Quiet
       BY <1>18, <1>0 DEF Take, Finish, WorkerDies, LockExpires, Phase
<1>19. ASSUME NEW p \in Processes, Enqueue(p) \/ Crash(p) PROVE Quiet
       BY <1>19, <1>0 DEF Enqueue, Crash, Phase
<1>20. ASSUME \/ ProviderSubmits \/ Abort \/ CancelReads
              \/ Resubmit \/ RecoverStaleActive \/ ProviderEnds \/ UNCHANGED vars
       PROVE Quiet
       BY <1>20, <1>0 DEF ProviderSubmits, Abort, CancelReads, Resubmit, RecoverStaleActive, ProviderEnds, vars, Phase
<1> HIDE DEF cash
<1> QED BY <1>1, <1>2, <1>3, <1>4, <1>6, <1>7, <1>8, <1>9, <1>10, <1>11, <1>12, <1>13, <1>14, <1>16,
           <1>17, <1>18, <1>19, <1>20 DEF Next, Submission, Work

\* Whatever fails, crashes or runs twice: a job is charged for what it delivers, its
\* money returned for what it does not, and an ended hold touched again only when
\* settlement ran out of retries or a lock was lost.
THEOREM PromiseKept == Spec => KeepsPromise
<1>1. Init => Promise!Init
      BY ExcuseMeaning DEF Init, Promise!Init, Phase, HoldState
<1>2. IInv /\ [Next]_vars => [Promise!Next]_Promise!vars
      BY PromiseMove, ExcusesStay DEF IInv, Promise!Next
<1> QED BY Invariance, <1>1, <1>2, PTL DEF Spec, KeepsPromise, Promise!Spec

=============================================================================
