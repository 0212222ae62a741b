-------------------------- MODULE IngressLeaseProofs --------------------------
(***************************************************************************)
(* The ingress cap, for any number of leases, any cap and any lifetimes    *)
(* that leave room for one refresh.                                        *)
(*                                                                         *)
(* The cap itself needs only that every script counts before it adds.      *)
(* That an open socket has its place needs the clocks: a member is never   *)
(* older than its lease's last confirmation plus one call (ScoreFollows),  *)
(* and the ticker and the call under way bound how long ago that was       *)
(* (Confirmed for any process, Punctual for one that reaches Redis).       *)
(***************************************************************************)
EXTENDS IngressLease, FiniteSetTheorems, TLAPS

\* A release that was given up on belongs to a lease that is gone.
StrayRelease == \A l \in Leases : stray[l] = "release" => conn[l] = "closed"

\* The call under way started when the ticker did.
TickerRuns == \A l \in Open : call[l] # "none" => wait[l] + spent[l] = Interval

\* Redis answered no longer ago than the call has lasted.
AnswerIsFresh ==
    \A l \in Leases : conn[l] \in {"acquiring", "open"} /\ call[l] = "ok" => age[l] <= spent[l]

ScoreFollows == \A l \in Open : age[l] <= since[l] + OpTimeout

Confirmed ==
    \A l \in Open :
        /\ call[l] = "none" => since[l] + wait[l] < TTL + Interval
        /\ call[l] # "none" => since[l] < TTL + Interval + spent[l]

Punctual ==
    \A l \in Open \ Unreachable :
        /\ call[l] = "none" => since[l] + wait[l] <= Interval
        /\ call[l] # "none" => since[l] <= Interval + spent[l]

Clocks == TickerRuns /\ AnswerIsFresh /\ ScoreFollows /\ Confirmed /\ Punctual

LInv == TypeOK /\ StrayRelease /\ Clocks

USE LeasesAssumption, CapAssumption, TimesAssumption
    DEF Commands, LongestUnconfirmed, Open

LEMMA InitLInv == Init => LInv
BY DEF Init, LInv, TypeOK, StrayRelease, Clocks, TickerRuns, AnswerIsFresh, ScoreFollows, Confirmed, Punctual

\* What a script leaves of a member is no older than it was, or gone by release.
LEMMA ScoreType ==
    ASSUME TypeOK, NEW l \in Leases, NEW command \in Commands
    PROVE  /\ Score(l, command) \in 0 .. TTL
           /\ command # "release" => Score(l, command) <= age[l]
           /\ command # "release" /\ Granted(l, command) => Score(l, command) = 0
BY DEF TypeOK, Score

LEMMA NextLInv == LInv /\ [Next]_vars => LInv'
<1> SUFFICES ASSUME LInv, [Next]_vars PROVE LInv'
    OBVIOUS
<1> USE DEF LInv, TypeOK, StrayRelease, Clocks, TickerRuns, AnswerIsFresh, ScoreFollows, Confirmed, Punctual
<1>1. CASE TimePasses
  <2>1. TypeOK' BY <1>1 DEF TimePasses
  <2>2. StrayRelease' BY <1>1 DEF TimePasses
  <2>3. Clocks' BY <1>1 DEF TimePasses
  <2> QED BY <2>1, <2>2, <2>3
<1>2. ASSUME NEW l \in Leases, RedisRuns(l) PROVE LInv'
  <2>1. CommandOf(l) \in Commands /\ (conn[l] # "releasing" => CommandOf(l) # "release")
        BY DEF CommandOf
  <2>2. TypeOK' BY <1>2, <2>1, ScoreType DEF RedisRuns
  <2>3. StrayRelease' BY <1>2, <2>1, ScoreType DEF RedisRuns
  <2>4. Clocks' BY <1>2, <2>1, ScoreType DEF RedisRuns
  <2> QED BY <2>2, <2>3, <2>4
<1>3. ASSUME NEW l \in Leases, RedisRunsStray(l) PROVE LInv'
  <2>1. TypeOK' BY <1>3, ScoreType DEF RedisRunsStray
  <2>2. StrayRelease' BY <1>3, ScoreType DEF RedisRunsStray
  <2>3. Clocks' BY <1>3, ScoreType DEF RedisRunsStray
  <2> QED BY <2>1, <2>2, <2>3
<1>4. ASSUME NEW l \in Leases, Acquire(l) PROVE LInv'
  <2>1. TypeOK' BY <1>4 DEF Acquire, Send
  <2>2. StrayRelease' BY <1>4 DEF Acquire, Send
  <2>3. Clocks' BY <1>4 DEF Acquire, Send
  <2> QED BY <2>1, <2>2, <2>3
<1>5. ASSUME NEW l \in Leases, AcquireAnswered(l) PROVE LInv'
  <2>1. TypeOK' BY <1>5 DEF AcquireAnswered, Finish, Confirm
  <2>2. StrayRelease' BY <1>5 DEF AcquireAnswered, Finish, Confirm
  <2>3. Clocks' BY <1>5 DEF AcquireAnswered, Finish, Confirm
  <2> QED BY <2>1, <2>2, <2>3
<1>6. ASSUME NEW l \in Leases, AcquireFails(l) PROVE LInv'
  <2>1. TypeOK' BY <1>6 DEF AcquireFails, Abandon, Finish, CommandOf
  <2>2. StrayRelease' BY <1>6 DEF AcquireFails, Abandon, Finish, CommandOf
  <2>3. Clocks' BY <1>6 DEF AcquireFails, Abandon, Finish, CommandOf
  <2> QED BY <2>1, <2>2, <2>3
<1>7. ASSUME NEW l \in Leases, Refresh(l) PROVE LInv'
  <2>1. TypeOK' BY <1>7 DEF Refresh, Send
  <2>2. StrayRelease' BY <1>7 DEF Refresh, Send
  <2>3. Clocks' BY <1>7 DEF Refresh, Send
  <2> QED BY <2>1, <2>2, <2>3
<1>8. ASSUME NEW l \in Leases, RefreshAnswered(l) PROVE LInv'
  <2>1. TypeOK' BY <1>8 DEF RefreshAnswered, Finish, Confirm, StopLoop
  <2>2. StrayRelease' BY <1>8 DEF RefreshAnswered, Finish, Confirm, StopLoop
  <2>3. Clocks' BY <1>8 DEF RefreshAnswered, Finish, Confirm, StopLoop
  <2> QED BY <2>1, <2>2, <2>3
<1>9. ASSUME NEW l \in Leases, RefreshFails(l) PROVE LInv'
  <2>1. TypeOK' BY <1>9 DEF RefreshFails, Abandon, Finish, CommandOf, Lost, StopLoop
  <2>2. StrayRelease' BY <1>9 DEF RefreshFails, Abandon, Finish, CommandOf, Lost, StopLoop
  <2>3. Clocks' BY <1>9 DEF RefreshFails, Abandon, Finish, CommandOf, Lost, StopLoop
  <2> QED BY <2>1, <2>2, <2>3
<1>10. ASSUME NEW l \in Leases, HandlerExits(l) PROVE LInv'
  <2>1. TypeOK' BY <1>10 DEF HandlerExits, StopLoop
  <2>2. StrayRelease' BY <1>10 DEF HandlerExits, StopLoop
  <2>3. Clocks' BY <1>10 DEF HandlerExits, StopLoop
  <2> QED BY <2>1, <2>2, <2>3
<1>11. ASSUME NEW l \in Leases, RefreshDone(l) PROVE LInv'
  <2>1. TypeOK' BY <1>11 DEF RefreshDone, Abandon, Finish, CommandOf
  <2>2. StrayRelease' BY <1>11 DEF RefreshDone, Abandon, Finish, CommandOf
  <2>3. Clocks' BY <1>11 DEF RefreshDone, Abandon, Finish, CommandOf
  <2> QED BY <2>1, <2>2, <2>3
<1>12. ASSUME NEW l \in Leases, Release(l) PROVE LInv'
  <2>1. TypeOK' BY <1>12 DEF Release, Send
  <2>2. StrayRelease' BY <1>12 DEF Release, Send
  <2>3. Clocks' BY <1>12 DEF Release, Send
  <2> QED BY <2>1, <2>2, <2>3
<1>13. ASSUME NEW l \in Leases, Released(l) PROVE LInv'
  <2>1. TypeOK' BY <1>13 DEF Released, Abandon, Finish, CommandOf
  <2>2. StrayRelease' BY <1>13 DEF Released, Abandon, Finish, CommandOf
  <2>3. Clocks' BY <1>13 DEF Released, Abandon, Finish, CommandOf
  <2> QED BY <2>1, <2>2, <2>3
<1>14. ASSUME NEW l \in Leases, Crash(l) PROVE LInv'
  <2>1. TypeOK' BY <1>14 DEF Crash, Abandon, Finish, CommandOf, StopLoop
  <2>2. StrayRelease' BY <1>14 DEF Crash, Abandon, Finish, CommandOf, StopLoop
  <2>3. Clocks' BY <1>14 DEF Crash, Abandon, Finish, CommandOf, StopLoop
  <2> QED BY <2>1, <2>2, <2>3
<1>15. CASE UNCHANGED vars BY <1>15 DEF vars
<1> QED BY <1>1, <1>2, <1>3, <1>4, <1>5, <1>6, <1>7, <1>8, <1>9, <1>10, <1>11, <1>12, <1>13, <1>14, <1>15 DEF Next, Handler

\* The cap: a script adds its member only where the reaped set has room.
LEMMA CapStep == TypeOK /\ HeldWithinCap /\ [Next]_vars => HeldWithinCap'
<1> SUFFICES ASSUME TypeOK, HeldWithinCap, [Next]_vars PROVE HeldWithinCap'
    OBVIOUS
<1> USE DEF TypeOK, HeldWithinCap, Held
<1>1. IsFiniteSet(Held) /\ Cardinality(Held) \in Nat
      BY FS_Subset, FS_CardinalityType
<1>2. ASSUME Held' \subseteq Held PROVE HeldWithinCap'
  <2>1. Cardinality(Held') <= Cardinality(Held) /\ Cardinality(Held') \in Nat
        BY <1>1, <1>2, FS_Subset, FS_CardinalityType
  <2> QED BY <1>1, <2>1
<1>3. ASSUME NEW l \in Leases, NEW command \in Commands,
             age' = [age EXCEPT ![l] = Score(l, command)]
      PROVE  HeldWithinCap'
  <2>1. CASE l \in Held \/ command # "acquire" \/ ~(Cardinality(Held) < MaxConnections)
    <3>1. l \in Held \/ ~Granted(l, command) \/ command = "release" BY <2>1 DEF Granted
    <3>2. l \in Held \/ Score(l, command) = TTL BY <3>1 DEF Score
    <3>3. Held' \subseteq Held BY <1>3, <3>2
    <3> QED BY <1>2, <3>3
  <2>2. CASE l \notin Held /\ Cardinality(Held) < MaxConnections
    <3>1. Held' \subseteq Held \cup {l} BY <1>3
    <3>2. IsFiniteSet(Held \cup {l}) /\ Cardinality(Held \cup {l}) = Cardinality(Held) + 1
          BY <1>1, <2>2, FS_AddElement
    <3>3. Cardinality(Held') <= Cardinality(Held \cup {l}) /\ Cardinality(Held') \in Nat
          BY <3>1, <3>2, FS_Subset, FS_CardinalityType
    <3> QED BY <1>1, <2>2, <3>2, <3>3
  <2> QED BY <2>1, <2>2
<1>4. CASE TimePasses
  <2>1. Held' \subseteq Held BY <1>4 DEF TimePasses
  <2> QED BY <1>2, <2>1
<1>5. ASSUME NEW l \in Leases, RedisRuns(l) PROVE HeldWithinCap'
      BY <1>3, <1>5 DEF RedisRuns, CommandOf
<1>6. ASSUME NEW l \in Leases, RedisRunsStray(l) PROVE HeldWithinCap'
      BY <1>3, <1>6 DEF RedisRunsStray
<1>7. ASSUME NEW l \in Leases, Handler(l) PROVE HeldWithinCap'
  <2>1. age' = age
        BY <1>7 DEF Handler, Acquire, AcquireAnswered, AcquireFails, Refresh, RefreshAnswered,
                    RefreshFails, HandlerExits, RefreshDone, Release, Released, Crash
  <2>2. Held' \subseteq Held BY <2>1
  <2> QED BY <1>2, <2>2
<1>8. CASE UNCHANGED vars
  <2>1. Held' \subseteq Held BY <1>8 DEF vars
  <2> QED BY <1>2, <2>1
<1> QED BY <1>4, <1>5, <1>6, <1>7, <1>8 DEF Next

-----------------------------------------------------------------------------
(* Theorems.                                                               *)

\* LInv holds in every reachable state: the basis of the theorems below.
THEOREM LeaseInvariance == Spec => []LInv
BY InitLInv, NextLInv, PTL DEF Spec

\* Every variable keeps its type; in particular no clock passes its bound.
THEOREM LeaseTypes == Spec => []TypeOK
<1>1. LInv => TypeOK BY DEF LInv
<1> QED BY LeaseInvariance, <1>1, PTL

\* However calls are delayed, lost or run late, Redis grants no more than the cap.
THEOREM CapHolds == Spec => []HeldWithinCap
<1>1. Init => HeldWithinCap
  <2>1. ASSUME Init PROVE Held = {} BY <2>1 DEF Init, Held
  <2> QED BY <2>1, FS_EmptySet DEF HeldWithinCap
<1>2. LInv => TypeOK BY DEF LInv
<1> QED BY LeaseInvariance, <1>1, <1>2, CapStep, PTL DEF Spec

\* An open socket whose process reaches Redis has its place; any other loses it only
\* near the end of an unconfirmed lifetime.
THEOREM OpenHasPlace == Spec => []OpenIsHeld
<1>1. LInv => OpenIsHeld
      BY DEF LInv, TypeOK, Clocks, ScoreFollows, Punctual, OpenIsHeld, Held
<1> QED BY LeaseInvariance, <1>1, PTL

\* The clients served at a time, but for those whose process went nearly a lifetime
\* without Redis, are within the cap: what acquiring a lease before the upgrade is for.
SocketsWithinCap ==
    Cardinality({l \in Open : l \in Unreachable => since[l] < TTL - OpTimeout})
        <= MaxConnections

\* Late commands, crashes and timeouts let no more sockets stay open than the cap.
THEOREM SocketsAreLimited == Spec => []SocketsWithinCap
<1>1. ASSUME LInv, OpenIsHeld, HeldWithinCap PROVE SocketsWithinCap
  <2> DEFINE Served == {l \in Open : l \in Unreachable => since[l] < TTL - OpTimeout}
  <2>1. Served \subseteq Held
    <3> SUFFICES ASSUME NEW l \in Served, l \notin Held PROVE FALSE
        OBVIOUS
    <3>1. l \in Unreachable /\ since[l] >= TTL - OpTimeout BY <1>1 DEF OpenIsHeld
    <3>2. since[l] \in Nat BY <1>1 DEF LInv, TypeOK
    <3> QED BY <3>1, <3>2
  <2>2. IsFiniteSet(Held) BY FS_Subset DEF Held
  <2>3. /\ Cardinality(Served) \in Nat /\ Cardinality(Held) \in Nat
        /\ Cardinality(Served) <= Cardinality(Held)
      BY <2>1, <2>2, FS_Subset, FS_CardinalityType
  <2> QED BY <1>1, <2>3 DEF HeldWithinCap, SocketsWithinCap
<1> QED BY LeaseInvariance, OpenHasPlace, CapHolds, <1>1, PTL

\* A socket that Redis does not confirm is closed within a lifetime and one refresh.
THEOREM UnconfirmedCloses == Spec => []UnconfirmedIsClosed
<1>1. LInv => UnconfirmedIsClosed
      BY DEF LInv, TypeOK, Clocks, Confirmed, UnconfirmedIsClosed
<1> QED BY LeaseInvariance, <1>1, PTL

=============================================================================
