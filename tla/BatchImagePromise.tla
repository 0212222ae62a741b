------------------------- MODULE BatchImagePromise -------------------------
(***************************************************************************)
(* What a batch image job promises the user who pays for it: money is held *)
(* before the provider works, charged while the job runs and returned when *)
(* it does not, and no job is completed unpaid or failed at the user's     *)
(* cost.  A hold that ended is touched again only with an excuse:          *)
(* settlement ran out of retries, or a worker lost its lock.               *)
(***************************************************************************)
EXTENDS Integers

CONSTANTS Amount, Cost, Credit, Others

VARIABLES
    job,      \* none, accepted, running, completed, ended
    hold,     \* none, held, charged, returned, both
    balance, frozen,
    excuses   \* among retries and lock

vars == <<job, hold, balance, frozen, excuses>>

Init ==
    /\ job = "none" /\ hold = "none" /\ excuses = {}
    /\ balance = Credit /\ frozen = Others

-----------------------------------------------------------------------------
(* The money, of which frozen and balance hold a part each.                *)

Becomes(to, spent) ==
    /\ hold' = to
    /\ balance' = balance + Amount - spent /\ frozen' = frozen - Amount

Hold ==
    /\ hold = "none" /\ job # "none" /\ balance >= Amount
    /\ hold' = "held" /\ balance' = balance - Amount /\ frozen' = frozen + Amount
    /\ UNCHANGED job

Charge ==
    /\ hold = "held" /\ (job = "running" \/ "lock" \in excuses)
    /\ Becomes("charged", Cost) /\ UNCHANGED job

\* A submission that fails returns the money and may end the job in one go.
Return ==
    /\ hold = "held" /\ (job \in {"accepted", "ended"} \/ excuses # {})
    /\ Becomes("returned", 0) /\ (UNCHANGED job \/ (job = "accepted" /\ job' = "ended"))

ChargeReturned ==
    hold = "returned" /\ "lock" \in excuses /\ Becomes("both", Cost) /\ UNCHANGED job
ReturnCharged ==
    hold = "charged" /\ excuses # {} /\ Becomes("both", 0) /\ UNCHANGED job

-----------------------------------------------------------------------------
(* The job.                                                                *)

Turns(from, to) == job \in from /\ job' = to /\ UNCHANGED <<hold, balance, frozen>>

Accept == Turns({"none"}, "accepted")
Run == hold = "held" /\ Turns({"accepted"}, "running")
Complete ==
    /\ hold = "charged" \/ (hold = "both" /\ "lock" \in excuses)
    /\ Turns({"running"}, "completed")
End == (hold # "charged" \/ "lock" \in excuses) /\ Turns({"accepted", "running"}, "ended")

-----------------------------------------------------------------------------

Move ==
    \/ Hold \/ Charge \/ Return \/ ChargeReturned \/ ReturnCharged
    \/ Accept \/ Run \/ Complete \/ End
    \/ UNCHANGED <<job, hold, balance, frozen>>

\* An excuse, once there, stays.
Next == Move /\ excuses \subseteq excuses'

Spec == Init /\ [][Next]_vars

=============================================================================
