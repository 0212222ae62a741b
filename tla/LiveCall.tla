------------------------------ MODULE LiveCall ------------------------------
(***************************************************************************)
(* One OpenAI Live call (service/openai_live.go) and its record in Redis   *)
(* (repository/gateway_cache.go).  The media go past the server; what it   *)
(* keeps is a control connection, held by an observer of its own or by a   *)
(* client's sideband that took over, a lease of the account's, user's and  *)
(* key's concurrency, and one usage log, written when the call is closed.  *)
(*                                                                         *)
(* A thread is the request that creates the call or a sideband request;    *)
(* each goes on as an observer.  The lease's age and the connections'      *)
(* refresh timers count refresh intervals, three of which are its TTL.     *)
(*                                                                         *)
(* Calls may fail, also after they were carried out; faults counts these,  *)
(* and mishaps remembers those that made a difference: the call was left   *)
(* without the one who was to close it, or its place was.                  *)
(***************************************************************************)
EXTENDS Naturals, FiniteSets

CONSTANTS
    Threads,
    Creator,     \* the one that creates the call
    Processes,
    Home,        \* the process of each thread
    NoThread,
    FaultKinds,  \* what may fail
    MaxFaults    \* bound on failures

ASSUME ThreadsAssumption == Creator \in Threads /\ NoThread \notin Threads
ASSUME BoundsAssumption == MaxFaults \in Nat

LeaseLifetime == 3

VARIABLES
    controller, owner,  \* of the record
    lease, age,         \* the lease, and how long it was not refreshed
    call,               \* the call itself, at the provider
    expired,            \* ExpiresAt is over
    logs,               \* usage logs written
    at,                 \* where each thread is
    since,              \* intervals since its connection was opened or last refreshed the lease
    faults, mishaps

record == <<controller, owner>>
place == <<lease, age>>
threads == <<at, since>>
vars == <<record, place, call, expired, logs, threads, faults, mishaps>>

ObserverPlaces == {"claim", "look", "dial", "on", "retry"}
ProxyPlaces == {"p_claim", "p_dial", "p_on", "p_undial", "p_unclaim", "p_end"}
Closing == {"fallback", "finalize", "release", "log"}
Places == ObserverPlaces \cup ProxyPlaces \cup Closing \cup {"idle", "gone", "save", "abandon"}
Mishaps == {"save", "takeover", "refresh", "unclaim", "close", "release", "log", "crash", "lapsed"}

TypeOK ==
    /\ controller \in {"none", "pending", "observer", "proxy", "closed"}
    /\ owner \in Threads \cup {NoThread}
    /\ lease \in BOOLEAN /\ age \in 0 .. LeaseLifetime - 1
    /\ call \in {"on", "over"} /\ expired \in BOOLEAN /\ logs \in Nat
    /\ at \in [Threads -> Places] /\ since \in [Threads -> 0 .. 1]
    /\ faults \in 0 .. MaxFaults /\ mishaps \subseteq Mishaps

\* The provider has answered, and the lease is held.
Init ==
    /\ controller = "none" /\ owner = NoThread
    /\ lease = TRUE /\ age = 0
    /\ call = "on" /\ expired = FALSE /\ logs = 0
    /\ at = [t \in Threads |-> IF t = Creator THEN "save" ELSE "idle"]
    /\ since = [t \in Threads |-> 0]
    /\ faults = 0 /\ mishaps = {}

In(t, where) == at[t] = where
\* A connection's timer ends with it.
Go(t, where) ==
    at' = [at EXCEPT ![t] = where] /\ since' = [since EXCEPT ![t] = 0]

\* What fails leaves something undone, or only does not say that it was done.
Fails(kind, causes) ==
    /\ kind \in FaultKinds /\ faults < MaxFaults
    /\ faults' = faults + 1 /\ mishaps' = mishaps \cup causes
IfSo(condition, cause) == IF condition THEN {cause} ELSE {}
Works == UNCHANGED <<faults, mishaps>>

Open == controller \in {"pending", "observer", "proxy"}
Connected(t) == at[t] \in {"on", "p_on"}

-----------------------------------------------------------------------------
(* CreateLiveCall.                                                         *)

\* A record that may not be stored is given up with its lease.
Save(t) ==
    /\ In(t, "save")
    /\ \/ controller' = "pending" /\ Go(t, "claim") /\ Works
       \/ controller' \in {"none", "pending"} /\ Go(t, "abandon") /\ Fails("save", {"save"})
    /\ UNCHANGED <<owner, place, call, expired, logs>>

Abandon(t) ==
    /\ In(t, "abandon") /\ Go(t, "gone")
    /\ \/ lease' = FALSE /\ Works
       \/ lease' \in {lease, FALSE} /\ Fails("release", IfSo(lease', "release"))
    /\ UNCHANGED <<record, age, call, expired, logs>>

-----------------------------------------------------------------------------
(* observeLiveCall.                                                        *)

MayObserve == controller = "pending"

Claimed(t) ==
    IF MayObserve THEN controller' = "observer" /\ owner' = t ELSE UNCHANGED record

\* When the claim's answer is lost, the call is closed once it is over for certain.
Claim(t) ==
    /\ In(t, "claim")
    /\ \/ Claimed(t) /\ Go(t, IF MayObserve THEN "look" ELSE "gone") /\ Works
       \/ (Claimed(t) \/ UNCHANGED record) /\ Go(t, "fallback") /\ Fails("claim", {})
    /\ UNCHANGED <<place, call, expired, logs>>

\* A record that cannot be read is read again; after five failures in a row, which one
\* fault stands for here, the thread waits for the end.
Look(t) ==
    /\ In(t, "look")
    /\ \/ /\ Go(t, IF controller # "observer" THEN "gone" ELSE IF expired THEN "finalize" ELSE "dial")
          /\ Works
       \/ \E where \in {"look", "fallback"} : Go(t, where) /\ Fails("get", {})
    /\ UNCHANGED <<record, place, call, expired, logs>>

Dial(t) ==
    /\ In(t, "dial")
    /\ \/ call = "on" /\ Go(t, "on")
       \/ Go(t, "retry")
    /\ Works /\ UNCHANGED <<record, place, call, expired, logs>>

\* The poll of the controller, which gives way to a sideband.
AfterHandover == "gone"
Poll(t) ==
    /\ In(t, "on")
    /\ \/ controller = "none" /\ Go(t, "finalize") /\ Works
       \/ controller \notin {"none", "observer"} /\ Go(t, AfterHandover) /\ Works
       \/ Go(t, "retry") /\ Fails("get", {})
    /\ UNCHANGED <<record, place, call, expired, logs>>

\* The connection breaks, and the client's, too, on a sideband.
Drop(t) ==
    /\ Connected(t) /\ Go(t, IF In(t, "on") THEN "retry" ELSE "p_unclaim")
    /\ Works /\ UNCHANGED <<record, place, call, expired, logs>>

Over(t) == IF at[t] = "on" THEN "finalize" ELSE "p_end"

\* The provider reports the end, or the longest duration is over.
HearEnd(t) ==
    /\ Connected(t) /\ Go(t, Over(t))
    /\ \/ call = "over" /\ UNCHANGED call
       \/ expired /\ call' \in {call, "over"}
    /\ Works /\ UNCHANGED <<record, place, expired, logs>>

RefreshRecreates == TRUE  \* mutant: ZADD without looking for the member
Refreshed == lease

\* A lease that is gone is not taken again: the session ends.
Refresh(t) ==
    /\ Connected(t) /\ since[t] = 1
    /\ \/ /\ Refreshed /\ lease' = TRUE /\ age' = 0
          /\ since' = [since EXCEPT ![t] = 0] /\ UNCHANGED at /\ Works
       \/ ~Refreshed /\ Go(t, Over(t)) /\ UNCHANGED place /\ Works
       \/ /\ Go(t, Over(t)) /\ (UNCHANGED place \/ (lease /\ age' = 0 /\ UNCHANGED lease))
          /\ Fails("refresh", {"refresh"})
    /\ UNCHANGED <<record, call, expired, logs>>

\* waitForLiveObserverRetry.
Retry(t) ==
    /\ In(t, "retry")
    /\ \/ Go(t, IF controller = "observer" THEN "look" ELSE "gone") /\ Works
       \/ Go(t, "look") /\ Fails("get", {})
    /\ UNCHANGED <<record, place, call, expired, logs>>

-----------------------------------------------------------------------------
(* ProxyLiveSideband.                                                      *)

\* GetLiveCallForIdentity finds an open call, whose id the client was told.
Sideband(t) ==
    /\ In(t, "idle") /\ Open /\ "save" \notin mishaps
    /\ Go(t, "p_claim")
    /\ Works /\ UNCHANGED <<record, place, call, expired, logs>>

MayTakeOver == controller \in {"pending", "observer"}
TakenOver(t) ==
    IF MayTakeOver THEN controller' = "proxy" /\ owner' = t ELSE UNCHANGED record

TakeOver(t) ==
    /\ In(t, "p_claim")
    /\ \/ TakenOver(t) /\ Go(t, IF MayTakeOver THEN "p_dial" ELSE "gone") /\ Works
       \/ TakenOver(t) /\ Go(t, "gone") /\ Fails("claim", IfSo(MayTakeOver, "takeover"))
       \/ UNCHANGED record /\ Go(t, "gone") /\ Fails("claim", {})
    /\ UNCHANGED <<place, call, expired, logs>>

ProxyDial(t) ==
    /\ In(t, "p_dial")
    /\ \/ call = "on" /\ Go(t, "p_on")
       \/ Go(t, "p_undial")
    /\ Works /\ UNCHANGED <<record, place, call, expired, logs>>

NeverObserves(t) == "gone"  \* mutant: no observer is started for the sideband
Observes(t) == "claim"

Ends(t) == In(t, "p_end") \/ (In(t, "p_unclaim") /\ expired)

\* ReleaseLiveController, and what follows: the end, or an observer.
Unclaim(t) ==
    /\ at[t] \in {"p_undial", "p_unclaim", "p_end"}
    /\ LET mine == controller = "proxy" /\ owner = t
           released == IF mine THEN controller' = "pending" /\ owner' = NoThread ELSE UNCHANGED record
       IN \/ released /\ (Works \/ Fails("unclaim", {}))
          \/ UNCHANGED record /\ Fails("unclaim", IfSo(mine /\ ~Ends(t), "unclaim"))
    /\ Go(t, IF Ends(t) THEN "finalize" ELSE Observes(t))
    /\ UNCHANGED <<place, call, expired, logs>>

-----------------------------------------------------------------------------
(* finalizeLiveCall, and finalizeLiveCallAfterExpiry.                      *)

Fallback(t) ==
    /\ In(t, "fallback") /\ expired /\ Go(t, "finalize")
    /\ Works /\ UNCHANGED <<record, place, call, expired, logs>>

ClosesAgain == TRUE  \* mutant: a closed record is closed again
ClosesFirst == Open

Finalize(t) ==
    /\ In(t, "finalize")
    /\ LET closed == IF ClosesFirst THEN controller' = "closed" /\ owner' = NoThread
                     ELSE UNCHANGED record
       IN \/ closed /\ Go(t, IF ClosesFirst THEN "release" ELSE "gone") /\ Works
          \/ (closed \/ UNCHANGED record) /\ Go(t, "gone") /\ Fails("close", IfSo(ClosesFirst, "close"))
    /\ UNCHANGED <<place, call, expired, logs>>

Release(t) ==
    /\ In(t, "release") /\ Go(t, "log")
    /\ \/ lease' = FALSE /\ Works
       \/ lease' \in {lease, FALSE} /\ Fails("release", IfSo(lease', "release"))
    /\ UNCHANGED <<record, age, call, expired, logs>>

Log(t) ==
    /\ In(t, "log") /\ Go(t, "gone")
    /\ \/ logs' = logs + 1 /\ Works
       \/ UNCHANGED logs /\ Fails("log", {"log"})
    /\ UNCHANGED <<record, place, call, expired>>

-----------------------------------------------------------------------------
(* The rest of the world.                                                  *)

\* Whoever will close the call: it holds the record as the one it is for, is about to
\* claim it, or waits for its end.
Watches(t) ==
    \/ at[t] \in {"fallback", "finalize"}
    \/ controller = "pending" /\ In(t, "claim")
    \/ controller = "observer" /\ at[t] \in {"look", "dial", "on", "retry"}
    \/ controller = "proxy" /\ owner = t /\ at[t] \in {"p_dial", "p_on", "p_undial", "p_unclaim", "p_end"}

\* A process dies with the last one that watched the call, or with its closer.
Orphans(p) ==
    \/ \E t \in Threads : Home[t] = p /\ at[t] \in {"release", "log"}
    \/ (\E t \in Threads : Watches(t)) /\ (\A t \in Threads : Watches(t) => Home[t] = p)

Crash(p) ==
    /\ \E t \in Threads : Home[t] = p /\ at[t] \notin {"idle", "gone"}
    /\ Fails("crash", IfSo(Orphans(p), "crash"))
    /\ at' = [t \in Threads |-> IF Home[t] = p /\ at[t] # "idle" THEN "gone" ELSE at[t]]
    /\ since' = [t \in Threads |-> IF Home[t] = p THEN 0 ELSE since[t]]
    /\ UNCHANGED <<record, place, call, expired, logs>>

CallEnds ==
    /\ call = "on" /\ call' = "over"
    /\ UNCHANGED <<record, place, expired, logs, threads, faults, mishaps>>

Expire ==
    /\ ~expired /\ expired' = TRUE
    /\ UNCHANGED <<record, place, call, logs, threads, faults, mishaps>>

NoTTL == FALSE  \* mutant: members are not reaped
Reaped == lease /\ age + 1 = LeaseLifetime

\* A refresh interval passes; whoever is connected refreshes in time.
Tick ==
    /\ \A t \in Threads : Connected(t) => since[t] = 0
    /\ lease \/ \E t \in Threads : Connected(t)
    /\ since' = [t \in Threads |-> IF Connected(t) THEN 1 ELSE since[t]]
    /\ age' = IF lease /\ ~Reaped THEN age + 1 ELSE age
    /\ lease' = (lease /\ ~Reaped)
    /\ mishaps' = IF Reaped /\ call = "on" THEN mishaps \cup {"lapsed"} ELSE mishaps
    /\ UNCHANGED <<record, call, expired, logs, at, faults>>

\* The closed record's short life ends.
Forget ==
    /\ controller = "closed" /\ controller' = "none"
    /\ UNCHANGED <<owner, place, call, expired, logs, threads, faults, mishaps>>

-----------------------------------------------------------------------------

Observe(t) == Claim(t) \/ Look(t) \/ Dial(t) \/ Poll(t) \/ Retry(t)
Proxy(t) == TakeOver(t) \/ ProxyDial(t) \/ Unclaim(t)
Close(t) == Fallback(t) \/ Finalize(t) \/ Release(t) \/ Log(t)
Progress(t) ==
    Save(t) \/ Abandon(t) \/ Observe(t) \/ Proxy(t) \/ Close(t) \/ HearEnd(t) \/ Refresh(t)

Next ==
    \/ \E t \in Threads : Progress(t) \/ Sideband(t) \/ Drop(t)
    \/ \E p \in Processes : Crash(p)
    \/ CallEnds \/ Expire \/ Tick \/ Forget

Spec == Init /\ [][Next]_vars

\* Threads go on, timers fire, and the longest duration is over at some time.
Fairness ==
    /\ \A t \in Threads : WF_vars(Progress(t)) /\ WF_vars(HearEnd(t))
    /\ WF_vars(Expire)

FairSpec == Spec /\ Fairness

-----------------------------------------------------------------------------
(* Properties.                                                             *)

\* The call is logged at most once, whoever comes to close it.
LoggedOnce == logs <= 1

\* What leaves a record behind that nobody closes.
Abandoned == mishaps \cap {"save", "takeover", "unclaim", "close", "crash"} # {}

\* An open call is watched by someone who will close it.
CallIsWatched == Open => (\E t \in Threads : Watches(t)) \/ Abandoned

\* A closed call has given back its place.
ClosedIsReleased ==
    controller = "closed" /\ lease =>
        (\E t \in Threads : In(t, "release")) \/ mishaps \cap {"close", "release", "crash"} # {}

\* A call is closed when it is over, and before only without its lease, or when the answer
\* of a refresh was lost.
ClosedIsOver ==
    controller = "closed" => call = "over" \/ expired \/ mishaps \cap {"lapsed", "refresh"} # {}

\* The call keeps what LivePromise says: opened once, closed when due, by one closer,
\* logged once after its place was given back.  A call whose creation failed was never
\* handed out, though its record may be stored.
Reason == call = "over" \/ expired \/ mishaps \cap {"lapsed", "refresh"} # {}

HandedOut == Open /\ "save" \notin mishaps
Creating == \E t \in Threads : In(t, "save")
BeingClosed == \E t \in Threads : In(t, "release") \/ In(t, "log")
Leaked == "release" \in mishaps

Promise == INSTANCE LivePromise
    WITH creating <- Creating, open <- HandedOut, due <- Reason, leased <- lease,
         leaked <- Leaked, closing <- BeingClosed

KeepsPromise == Promise!Spec

\* A call that was stored is logged in the end.
CallIsLogged == Open ~> logs = 1 \/ Abandoned \/ "log" \in mishaps

=============================================================================
