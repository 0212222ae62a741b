---------------------------- MODULE IngressLease ----------------------------
(***************************************************************************)
(* The lease that bounds one API key's open client WebSockets over all     *)
(* instances: service/concurrency_service.go (OpenAIWSIngressLease) over   *)
(* the Redis scripts of repository/concurrency_cache.go.                   *)
(*                                                                         *)
(* Redis keeps a sorted set of lease ids by the time of their last         *)
(* refresh; each script first reaps the members whose score is a full TTL  *)
(* old, so such a member counts for nothing and is not kept here.  Time    *)
(* is counted in units, as ages and delays only; a process acts on its     *)
(* ticker and its timeouts without delay.                                  *)
(***************************************************************************)
EXTENDS Integers, FiniteSets

CONSTANTS
    Leases,         \* lease ids, one per WebSocket request
    Unreachable,    \* leases whose process may fail to reach Redis
    MaxConnections, \* the cap per API key
    TTL,            \* openAIWSIngressLeaseTTL
    Interval,       \* openAIWSIngressLeaseRefreshInterval
    OpTimeout       \* openAIWSIngressLeaseOperationTO

ASSUME LeasesAssumption == IsFiniteSet(Leases) /\ Unreachable \subseteq Leases
ASSUME CapAssumption == MaxConnections \in Nat \ {0}
ASSUME TimesAssumption ==
    /\ TTL \in Nat /\ Interval \in Nat /\ OpTimeout \in Nat
    /\ 0 < OpTimeout /\ OpTimeout < Interval /\ Interval + 2 * OpTimeout < TTL

VARIABLES
    age,    \* time since the member's score; TTL when it is no member
    conn,   \* what the handler of each lease is at
    call,   \* its Redis call: not there, sent, or run with an answer on its way
    spent,  \* time since that call was sent
    stray,  \* a command its client gave up on and Redis may still run
    since,  \* time since lastConfirmedAt
    wait    \* time until refreshLoop's ticker fires

vars == <<age, conn, call, spent, stray, since, wait>>

Commands == {"acquire", "refresh", "release"}
LongestUnconfirmed == TTL + Interval + OpTimeout

TypeOK ==
    /\ age \in [Leases -> 0 .. TTL]
    /\ conn \in [Leases -> {"idle", "acquiring", "open", "closing", "releasing", "closed"}]
    /\ call \in [Leases -> {"none", "sent", "ok", "refused"}]
    /\ spent \in [Leases -> 0 .. OpTimeout]
    /\ stray \in [Leases -> Commands \cup {"none"}]
    /\ since \in [Leases -> 0 .. LongestUnconfirmed]
    /\ wait \in [Leases -> 0 .. Interval]

Init ==
    /\ age = [l \in Leases |-> TTL]
    /\ conn = [l \in Leases |-> "idle"]
    /\ call = [l \in Leases |-> "none"]
    /\ spent = [l \in Leases |-> 0]
    /\ stray = [l \in Leases |-> "none"]
    /\ since = [l \in Leases |-> 0]
    /\ wait = [l \in Leases |-> Interval]

-----------------------------------------------------------------------------
(* The Redis scripts.                                                      *)

\* The members, once reaped.
Held == {l \in Leases : age[l] < TTL}

\* A script's answer: an acquisition renews its own member or takes a free place, a
\* refresh only renews.
RefreshRecreates(l, command) ==  \* mutant: a refresh puts a missing member back
    command # "acquire" \/ l \in Held \/ Cardinality(Held) < MaxConnections

Granted(l, command) ==
    \/ command = "release"
    \/ l \in Held
    \/ command = "acquire" /\ Cardinality(Held) < MaxConnections

\* What it leaves of the member.
ScoreKept(l, command) ==  \* mutant: a refresh confirms the member, its score is not renewed
    IF command = "release" THEN TTL
    ELSE IF command = "acquire" /\ Granted(l, command) THEN 0 ELSE age[l]

Score(l, command) ==
    IF command = "release" THEN TTL ELSE IF Granted(l, command) THEN 0 ELSE age[l]

CommandOf(l) ==
    IF conn[l] = "acquiring" THEN "acquire"
    ELSE IF conn[l] = "releasing" THEN "release" ELSE "refresh"

RedisRuns(l) ==
    /\ call[l] = "sent"
    /\ age' = [age EXCEPT ![l] = Score(l, CommandOf(l))]
    /\ call' = [call EXCEPT ![l] = IF Granted(l, CommandOf(l)) THEN "ok" ELSE "refused"]
    /\ UNCHANGED <<conn, spent, stray, since, wait>>

RedisRunsStray(l) ==
    /\ stray[l] # "none"
    /\ age' = [age EXCEPT ![l] = Score(l, stray[l])]
    /\ stray' = [stray EXCEPT ![l] = "none"]
    /\ UNCHANGED <<conn, call, spent, since, wait>>

-----------------------------------------------------------------------------
(* The handler and its refresh loop.                                       *)

Send(l) ==
    /\ call' = [call EXCEPT ![l] = "sent"]
    /\ spent' = [spent EXCEPT ![l] = 0]

\* The call is over; what was sent and not yet run may still reach Redis.
Finish(l) ==
    /\ call' = [call EXCEPT ![l] = "none"]
    /\ spent' = [spent EXCEPT ![l] = 0]

Abandon(l) ==
    /\ Finish(l)
    /\ stray' = IF call[l] = "sent"
                THEN [stray EXCEPT ![l] = CommandOf(l)] ELSE stray

Confirm(l) == since' = [since EXCEPT ![l] = 0]

\* The refresh loop has ended; its clocks are forgotten.
StopLoop(l) ==
    /\ since' = [since EXCEPT ![l] = 0]
    /\ wait' = [wait EXCEPT ![l] = Interval]

Acquire(l) ==
    /\ conn[l] = "idle"
    /\ conn' = [conn EXCEPT ![l] = "acquiring"]
    /\ Send(l)
    /\ UNCHANGED <<age, stray, since, wait>>

AcquireAnswered(l) ==
    /\ conn[l] = "acquiring" /\ call[l] \in {"ok", "refused"}
    /\ conn' = [conn EXCEPT ![l] = IF call[l] = "ok" THEN "open" ELSE "closed"]
    /\ Finish(l) /\ Confirm(l)
    /\ wait' = [wait EXCEPT ![l] = Interval]
    /\ UNCHANGED <<age, stray>>

\* An error: the handler answers 503 and releases nothing.
AcquireFails(l) ==
    /\ conn[l] = "acquiring" /\ l \in Unreachable
    /\ conn' = [conn EXCEPT ![l] = "closed"]
    /\ Abandon(l)
    /\ UNCHANGED <<age, since, wait>>

\* The ticker of refreshLoop fires.
Refresh(l) ==
    /\ conn[l] = "open" /\ call[l] = "none" /\ wait[l] = 0
    /\ Send(l)
    /\ wait' = [wait EXCEPT ![l] = Interval]
    /\ UNCHANGED <<age, conn, stray, since>>

\* A confirmed lease counts from the answer; a missing member ends the socket.
RefreshAnswered(l) ==
    /\ conn[l] = "open" /\ call[l] \in {"ok", "refused"}
    /\ Finish(l)
    /\ IF call[l] = "ok" THEN Confirm(l) /\ UNCHANGED <<conn, wait>>
       ELSE conn' = [conn EXCEPT ![l] = "closing"] /\ StopLoop(l)
    /\ UNCHANGED <<age, stray>>

NeverLost(l) == FALSE  \* mutant: errors are tolerated for ever
Lost(l) == since[l] >= TTL

\* An error is tolerated until the lease has gone unconfirmed for a TTL.
RefreshFails(l) ==
    /\ conn[l] = "open" /\ call[l] # "none" /\ l \in Unreachable
    /\ Abandon(l)
    /\ IF Lost(l) THEN conn' = [conn EXCEPT ![l] = "closing"] /\ StopLoop(l)
       ELSE UNCHANGED <<conn, since, wait>>
    /\ UNCHANGED age

\* The handler ends for a reason of its own.
HandlerExits(l) ==
    /\ conn[l] = "open"
    /\ conn' = [conn EXCEPT ![l] = "closing"]
    /\ StopLoop(l)
    /\ UNCHANGED <<age, call, spent, stray>>

\* Release waits for a refresh under way, whatever comes of it...
RefreshDone(l) ==
    /\ conn[l] = "closing" /\ call[l] # "none"
    /\ call[l] = "sent" => l \in Unreachable
    /\ Abandon(l)
    /\ UNCHANGED <<age, conn, since, wait>>

\* ...and then removes the member.
Release(l) ==
    /\ conn[l] = "closing" /\ call[l] = "none"
    /\ conn' = [conn EXCEPT ![l] = "releasing"]
    /\ Send(l)
    /\ UNCHANGED <<age, stray, since, wait>>

Released(l) ==
    /\ conn[l] = "releasing"
    /\ call[l] = "sent" => l \in Unreachable
    /\ conn' = [conn EXCEPT ![l] = "closed"]
    /\ Abandon(l)
    /\ UNCHANGED <<age, since, wait>>

\* The process dies with all its sockets' state.
Crash(l) ==
    /\ conn[l] \in {"acquiring", "open", "closing", "releasing"}
    /\ conn' = [conn EXCEPT ![l] = "closed"]
    /\ Abandon(l) /\ StopLoop(l)
    /\ UNCHANGED age

-----------------------------------------------------------------------------

\* One unit of time, if no ticker and no timeout is due before.
TimePasses ==
    /\ \A l \in Leases :
          /\ conn[l] = "open" /\ call[l] = "none" => wait[l] > 0
          /\ call[l] # "none" => spent[l] < OpTimeout
    /\ age' = [l \in Leases |-> IF age[l] < TTL THEN age[l] + 1 ELSE TTL]
    /\ spent' = [l \in Leases |-> IF call[l] = "none" THEN spent[l] ELSE spent[l] + 1]
    /\ since' = [l \in Leases |-> IF conn[l] = "open" THEN since[l] + 1 ELSE since[l]]
    /\ wait' = [l \in Leases |-> IF conn[l] = "open" THEN wait[l] - 1 ELSE wait[l]]
    /\ UNCHANGED <<conn, call, stray>>

Handler(l) ==
    \/ Acquire(l) \/ AcquireAnswered(l) \/ AcquireFails(l)
    \/ Refresh(l) \/ RefreshAnswered(l) \/ RefreshFails(l)
    \/ HandlerExits(l) \/ RefreshDone(l) \/ Release(l) \/ Released(l) \/ Crash(l)

Next ==
    \/ TimePasses
    \/ \E l \in Leases : RedisRuns(l) \/ RedisRunsStray(l) \/ Handler(l)

Spec == Init /\ [][Next]_vars

-----------------------------------------------------------------------------
(* Properties.                                                             *)

Open == {l \in Leases : conn[l] = "open"}

\* Late, repeated and abandoned commands included, Redis never lets more leases
\* live than the cap (the refresh script "does not recreate a missing member").
HeldWithinCap == Cardinality(Held) <= MaxConnections

\* A socket outlives its place only when its process could not reach Redis, and not
\* before nearly a whole lifetime without confirmation: otherwise open sockets are
\* within the cap.
OpenIsHeld ==
    \A l \in Open \ Held : l \in Unreachable /\ since[l] >= TTL - OpTimeout

\* A socket Redis no longer confirms is closed after all, at the latest one refresh
\* after a lifetime (the check of refresh runs on the ticker only).
UnconfirmedIsClosed == \A l \in Open : since[l] < LongestUnconfirmed

=============================================================================
