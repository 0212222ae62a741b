-------------------------- MODULE ConcurrencySlots --------------------------
(***************************************************************************)
(* The concurrency slots and the wait counter of one account or user       *)
(* (service/concurrency_service.go, repository/concurrency_cache.go), as   *)
(* the gateway's handlers use them (handler/gateway_helper.go) and as      *)
(* CreateLiveCall replaces a slot by a Live lease (openai_live.go).        *)
(*                                                                         *)
(* A request's slot has an id of its own, here the request.  Slots are not *)
(* renewed; the index that tells the startup cleanup which accounts to     *)
(* visit is best effort, so that a cleanup may pass one by.                *)
(*                                                                         *)
(* Calls may fail, also after they were carried out; faults counts these.  *)
(* mishaps remembers what the code has no answer to, and lost the requests *)
(* that went on without the place they had.                                *)
(***************************************************************************)
EXTENDS Naturals, FiniteSets

CONSTANTS
    Requests,
    LiveRequests,  \* those that create a Live call
    Processes,
    Home,          \* the process of each request
    Max,           \* maxConcurrency
    QueueLimit,    \* how many may wait
    MaxFaults      \* bound on failures and restarts

ASSUME RequestsAssumption == IsFiniteSet(Requests) /\ LiveRequests \subseteq Requests
ASSUME BoundsAssumption == Max \in Nat \ {0} /\ QueueLimit \in Nat /\ MaxFaults \in Nat

VARIABLES
    regular, live,  \* the slots and the Live leases in Redis
    wait,           \* the wait counter in Redis; 0 if absent
    at,             \* where each request is
    upstream,       \* requests and calls that the provider is serving
    process,        \* of each process: up, down, or what its cleanup does next
    lost,           \* (history) requests that lost their place while they went on
    faults, mishaps

vars == <<regular, live, wait, at, upstream, process, lost, faults, mishaps>>

Queued == {"waiting", "leave", "quit"}
Places == Queued \cup {"idle", "enter", "running", "release", "lease", "create", "swap", "unswap",
                       "session", "unlease"}
Mishaps == {"cleaned", "crash", "uncounted", "lapsed", "leaked"}

TypeOK ==
    /\ regular \subseteq Requests /\ live \subseteq LiveRequests /\ wait \in 0 .. QueueLimit
    /\ at \in [Requests -> Places] /\ upstream \subseteq Requests
    /\ process \in [Processes -> {"up", "down", "wait"}]
    /\ lost \subseteq Requests /\ faults \in 0 .. MaxFaults /\ mishaps \subseteq Mishaps

Init ==
    /\ regular = {} /\ live = {} /\ wait = 0
    /\ at = [r \in Requests |-> "idle"] /\ upstream = {}
    /\ process = [p \in Processes |-> "up"]
    /\ lost = {} /\ faults = 0 /\ mishaps = {}

In(r, where) == at[r] = where
Go(r, where) == at' = [at EXCEPT ![r] = where]
Fails == faults < MaxFaults /\ faults' = faults + 1
Note(causes) == mishaps' = mishaps \cup causes
IfSo(condition, what) == IF condition THEN {what} ELSE {}
Loses(requests) == lost' = lost \cup requests
Works == UNCHANGED <<faults, mishaps>>

InUse == Cardinality(regular) + Cardinality(live)
OneMoreFits == InUse <= Max  \* mutant: the limit itself is let in
HasRoom == InUse < Max

-----------------------------------------------------------------------------
(* AcquireUserSlotWithWait and AcquireAccountSlotWithWait.                 *)

\* A request comes, or tries again after a pause.
Try(r) ==
    /\ process[Home[r]] = "up"
    /\ \/ In(r, "idle") /\ r \notin regular \cup live \cup upstream
       \/ In(r, "waiting")
    /\ \/ /\ HasRoom /\ regular' = regular \cup {r} /\ Works
          /\ IF In(r, "waiting") THEN Go(r, "leave") /\ UNCHANGED upstream
             ELSE IF r \in LiveRequests THEN Go(r, "lease") /\ UNCHANGED upstream
             ELSE Go(r, "running") /\ upstream' = upstream \cup {r}
       \/ /\ ~HasRoom /\ In(r, "idle") /\ r \notin LiveRequests /\ Go(r, "enter")
          /\ Works /\ UNCHANGED <<regular, upstream>>
       \/ /\ Fails /\ Go(r, IF In(r, "waiting") THEN "quit" ELSE "idle")
          /\ (UNCHANGED regular \/ (HasRoom /\ regular' = regular \cup {r}))
          /\ UNCHANGED <<upstream, mishaps>>
    /\ lost' = IF In(r, "idle") THEN lost \ {r} ELSE lost
    /\ UNCHANGED <<live, wait, process>>

OneMoreWaits == wait <= QueueLimit  \* mutant: compared before the increment
MayWait == wait < QueueLimit

\* IncrementWaitCount fails open: a request that is not counted waits, too.
Enter(r) ==
    /\ In(r, "enter")
    /\ \/ MayWait /\ wait' = wait + 1 /\ Go(r, "waiting") /\ Works
       \/ ~MayWait /\ Go(r, "idle") /\ Works /\ UNCHANGED wait
       \/ /\ Fails /\ Go(r, "waiting")
          /\ \/ MayWait /\ wait' = wait + 1 /\ UNCHANGED mishaps
             \/ UNCHANGED wait /\ Note({"uncounted"})
    /\ UNCHANGED <<regular, live, upstream, process, lost>>

\* Its time is up, or the client is gone.
GiveUp(r) ==
    /\ In(r, "waiting") /\ Go(r, "quit")
    /\ Works /\ UNCHANGED <<regular, live, wait, upstream, process, lost>>

OnlyOnSuccess(r) == In(r, "leave")  \* mutant: a request that gave up is not subtracted
Subtracts(r) == TRUE

\* DecrementWaitCount, deferred: with the slot, or without.
Leave(r) ==
    /\ at[r] \in {"leave", "quit"}
    /\ LET decremented == IF Subtracts(r) /\ wait > 0 THEN wait' = wait - 1 ELSE UNCHANGED wait
       IN \/ decremented /\ Works
          \/ Fails /\ ((decremented /\ UNCHANGED mishaps) \/ (UNCHANGED wait /\ Note({"leaked"})))
    /\ IF In(r, "leave") THEN Go(r, "running") /\ upstream' = upstream \cup {r}
       ELSE Go(r, "idle") /\ UNCHANGED upstream
    /\ UNCHANGED <<regular, live, process, lost>>

\* The request is served; or its client is gone, when the slot is released at once while
\* the handler reads the provider's answer to its end, for billing.
Finish(r) ==
    /\ In(r, "running") /\ Go(r, "release")
    /\ \/ upstream' = upstream \ {r} /\ UNCHANGED lost
       \/ UNCHANGED upstream /\ Loses({r})
    /\ Works /\ UNCHANGED <<regular, live, wait, process>>

Drain(r) ==
    /\ r \in upstream /\ at[r] \in {"release", "idle"} /\ upstream' = upstream \ {r}
    /\ Works /\ UNCHANGED <<regular, live, wait, at, process, lost>>

\* ReleaseAccountSlot, ReleaseUserSlot.
GoneEntirely(r) == regular' = regular \ {r} /\ live' = live \ {r}  \* mutant: the lease goes, too
Gone(r) == regular' = regular \ {r} /\ UNCHANGED live
NotGone(r) == UNCHANGED <<regular, live>>

Release(r) ==
    /\ In(r, "release") /\ Go(r, "idle")
    /\ (Gone(r) /\ Works) \/ ((Gone(r) \/ NotGone(r)) /\ Fails /\ UNCHANGED mishaps)
    /\ UNCHANGED <<wait, upstream, process, lost>>

-----------------------------------------------------------------------------
(* CreateLiveCall, with a slot that the lease replaces.                    *)

MayLease == InUse < Max + 1

Lease(r) ==
    /\ In(r, "lease")
    /\ \/ MayLease /\ live' = live \cup {r} /\ Go(r, "create") /\ Works
       \/ ~MayLease /\ Go(r, "release") /\ Works /\ UNCHANGED live
       \/ /\ Fails /\ Go(r, "release") /\ UNCHANGED mishaps
          /\ UNCHANGED live \/ (MayLease /\ live' = live \cup {r})
    /\ UNCHANGED <<regular, wait, upstream, process, lost>>

Create(r) ==
    /\ In(r, "create")
    /\ \/ upstream' = upstream \cup {r} /\ Go(r, "swap")
       \/ UNCHANGED upstream /\ Go(r, "unswap")
    /\ Works /\ UNCHANGED <<regular, live, wait, process, lost>>

\* The slot is released after the call was created, or was not.
Swap(r) ==
    /\ at[r] \in {"swap", "unswap"}
    /\ Go(r, IF In(r, "swap") THEN "session" ELSE "unlease")
    /\ (Gone(r) /\ Works) \/ ((Gone(r) \/ NotGone(r)) /\ Fails /\ UNCHANGED mishaps)
    /\ UNCHANGED <<wait, upstream, process, lost>>

EndSession(r) ==
    /\ In(r, "session") /\ Go(r, "unlease") /\ upstream' = upstream \ {r}
    /\ Works /\ UNCHANGED <<regular, live, wait, process, lost>>

Unlease(r) ==
    /\ In(r, "unlease") /\ Go(r, "idle")
    /\ \/ live' = live \ {r} /\ Works
       \/ live' \in {live, live \ {r}} /\ Fails /\ UNCHANGED mishaps
    /\ UNCHANGED <<regular, wait, upstream, process, lost>>

-----------------------------------------------------------------------------
(* Time, crashes and restarts.                                             *)

\* A slot is reaped slotTTL after it was taken, whatever its request does; the steps of a
\* handover are too short for that.
SlotExpires(r) ==
    /\ r \in regular /\ at[r] \notin {"leave", "lease", "create", "swap", "unswap"}
    /\ regular' = regular \ {r}
    /\ Loses(IfSo(r \in upstream, r))
    /\ Works /\ UNCHANGED <<live, wait, at, upstream, process>>

\* A lease is reaped a minute after its last renewal.
LeaseExpires(r) ==
    /\ r \in live /\ live' = live \ {r}
    /\ Loses(IfSo(~In(r, "idle"), r))
    /\ Works /\ UNCHANGED <<regular, wait, at, upstream, process>>

\* The counter expires when nobody has come to wait for the longest time an account
\* lets a request wait: that is no longer than the last one may wait, and has nothing
\* to do with how long a user's requests do, so that it may expire under them.
WaitExpires ==
    /\ wait > 0 /\ wait' = 0
    /\ Note(IfSo(\E r \in Requests : at[r] \in Queued, "lapsed"))
    /\ UNCHANGED <<regular, live, at, upstream, process, lost, faults>>

Crash(p) ==
    /\ process[p] = "up" /\ process' = [process EXCEPT ![p] = "down"]
    /\ Fails /\ Note(IfSo(\E r \in Requests : Home[r] = p /\ at[r] \in Queued, "crash"))
    /\ at' = [r \in Requests |-> IF Home[r] = p THEN "idle" ELSE at[r]]
    /\ upstream' = {r \in upstream : Home[r] # p}
    /\ UNCHANGED <<regular, live, wait, lost>>

\* CleanupStaleProcessSlots: first the slots whose id lacks this process's prefix, which
\* is new, so that no slot has it; then the counter.  It may fail between the two.
CleanSlots(p) ==
    /\ process[p] = "down"
    /\ LET living == {r \in regular : r \in upstream \/ at[r] # "idle"}
       IN \/ /\ process' = [process EXCEPT ![p] = "wait"] /\ regular' = {}
             /\ Loses(living) /\ Note(IfSo(living # {}, "cleaned"))
          \/ process' = [process EXCEPT ![p] = "up"] /\ UNCHANGED <<regular, lost, mishaps>>
    /\ UNCHANGED <<live, wait, at, upstream, faults>>

CleanWait(p) ==
    /\ process[p] = "wait" /\ process' = [process EXCEPT ![p] = "up"]
    /\ \/ wait' = 0 /\ Note(IfSo(\E r \in Requests : at[r] \in Queued, "uncounted"))
       \/ UNCHANGED <<wait, mishaps>>
    /\ UNCHANGED <<regular, live, at, upstream, lost, faults>>

-----------------------------------------------------------------------------

Step(r) ==
    \/ Try(r) \/ Enter(r) \/ GiveUp(r) \/ Leave(r) \/ Finish(r) \/ Drain(r) \/ Release(r)
    \/ Lease(r) \/ Create(r) \/ Swap(r) \/ EndSession(r) \/ Unlease(r)
    \/ SlotExpires(r) \/ LeaseExpires(r)

Next ==
    \/ \E r \in Requests : Step(r)
    \/ \E p \in Processes : Crash(p) \/ CleanSlots(p) \/ CleanWait(p)
    \/ WaitExpires

Spec == Init /\ [][Next]_vars

-----------------------------------------------------------------------------
(* Properties.                                                             *)

\* Redis grants no more than the limit: a request that has both a slot and the lease that
\* replaces it counts once.  After a cleanup that took living slots, one more.
Limit == IF "cleaned" \in mishaps THEN Max + 1 ELSE Max
HeldWithinLimit == Cardinality(regular \cup live) <= Limit

\* What the provider serves has a place in Redis, each but those that lost their own: to
\* expiry, a cleanup, or the disconnect of the client.
ServedIsCounted == upstream \subseteq regular \cup live \cup lost

\* The counter falls short of those who wait only when some could not be counted or it
\* expired under them, and exceeds them only by the lost decrements of others.
WaitIsExact ==
    LET waiting == Cardinality({r \in Requests : at[r] \in Queued})
    IN /\ wait >= waiting \/ mishaps \cap {"uncounted", "lapsed"} # {}
       /\ wait <= waiting \/ mishaps \cap {"leaked", "crash"} # {}

\* As the comments say: the cleanup takes what dead processes left behind.
CleanupSparesTheLiving == "cleaned" \notin mishaps
=============================================================================
