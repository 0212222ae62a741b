--------------------------- MODULE LiveCallProofs ---------------------------
(***************************************************************************)
(* A Live call, for any number of sidebands, processes and failing calls.  *)
(*                                                                         *)
(* Claims ties the steps of creation and closing to the record; what a     *)
(* thread closes is closed for a reason (Reasoned), by one thread (Claims), *)
(* and an open record has a thread that goes on with it (CallIsWatched,    *)
(* inductive as it stands).                                                *)
(***************************************************************************)
EXTENDS LiveCall, TLAPS

Beginning == {"idle", "save", "abandon", "gone"}
Ending == {"finalize", "p_end", "release", "log"}

\* Until the record is stored, and when that failed, there is no other thread; the
\* thread that closed the record is alone with the lease and the log.
Claims ==
    /\ logs <= 1
    /\ \/ controller = "none" /\ logs = 0 /\ (\A t \in Threads : at[t] \in Beginning)
       \/ "save" \in mishaps
       \/ \A t \in Threads : at[t] \notin {"save", "abandon"}
    /\ "save" \in mishaps => logs = 0 /\ \A t \in Threads : at[t] \in Beginning
    /\ \A t \in Threads : at[t] = "abandon" => "save" \in mishaps
    /\ \A t \in Threads : at[t] = "log" => ~lease \/ "release" \in mishaps
    /\ \A t \in Threads : at[t] \in {"save", "abandon"} => t = Creator
    /\ \A t \in Threads : at[t] = "save" => controller = "none" /\ "save" \notin mishaps
    /\ Open => logs = 0
    /\ Open => \A t \in Threads : at[t] \notin {"release", "log"}
    /\ \A s, t \in Threads :
           at[s] \in {"release", "log"} /\ at[t] \in {"release", "log"} => s = t
    /\ \A t \in Threads : at[t] \in {"release", "log"} => logs = 0

\* While there is no reason, nobody closes the call, and it has its lease.
Reasoned ==
    ~Reason =>
        /\ controller # "closed"
        /\ \A t \in Threads : at[t] \notin Ending
        /\ lease \/ "save" \in mishaps
        /\ controller = "none" \/ "save" \in mishaps =>
               \A t \in Threads : at[t] \in Beginning

IInv == TypeOK /\ Claims /\ Reasoned /\ CallIsWatched /\ ClosedIsReleased

-----------------------------------------------------------------------------

USE ThreadsAssumption, BoundsAssumption
    DEF record, place, threads, ObserverPlaces, ProxyPlaces, Closing, Places, Mishaps,
        LeaseLifetime, In, Go, Fails, IfSo, Works, Open, Connected

\* The provider has answered and only the creator is at work.
LEMMA InitIInv == Init => IInv
<1> SUFFICES ASSUME Init PROVE IInv
    OBVIOUS
<1> USE DEF Init
<1>1. TypeOK
    <2>1. at \in [Threads -> Places] OBVIOUS
    <2>2. since \in [Threads -> 0 .. 1] OBVIOUS
    <2>3. mishaps \subseteq Mishaps OBVIOUS
    <2>4. faults \in 0 .. MaxFaults OBVIOUS
    <2>5. age \in 0 .. LeaseLifetime - 1 OBVIOUS
    <2> QED BY <2>1, <2>2, <2>3, <2>4, <2>5 DEF TypeOK
<1>2. Claims BY DEF Claims, Beginning
<1>3. Reasoned BY DEF Reasoned, Reason, Beginning, Ending
<1>4. CallIsWatched BY DEF CallIsWatched
<1>5. ClosedIsReleased BY DEF ClosedIsReleased
<1> QED BY <1>1, <1>2, <1>3, <1>4, <1>5 DEF IInv

\* Types, action by action.
LEMMA NextTypeOK == TypeOK /\ [Next]_vars => TypeOK'
<1> USE DEF TypeOK
<1> SUFFICES ASSUME TypeOK, [Next]_vars PROVE TypeOK'
    OBVIOUS
<1>1. ASSUME NEW t \in Threads, Save(t) PROVE TypeOK'
    <2>1. mishaps' \subseteq Mishaps BY <1>1 DEF Save
    <2>5. faults' \in 0 .. MaxFaults BY <1>1 DEF Save
    <2>2. at' \in [Threads -> Places] /\ since' \in [Threads -> 0 .. 1] BY <1>1 DEF Save
    <2>3. owner' \in Threads \cup {NoThread} /\ lease' \in BOOLEAN /\ age' \in 0 .. LeaseLifetime - 1
        BY <1>1 DEF Save
    <2>4. logs' \in Nat /\ controller' \in {"none", "pending", "observer", "proxy", "closed"}
        BY <1>1 DEF Save
    <2> QED BY <1>1, <2>1, <2>2, <2>3, <2>4, <2>5 DEF Save
<1>2. ASSUME NEW t \in Threads, Abandon(t) PROVE TypeOK'
    <2>1. mishaps' \subseteq Mishaps BY <1>2 DEF Abandon
    <2>5. faults' \in 0 .. MaxFaults
        <3>1. faults' = faults \/ (faults < MaxFaults /\ faults' = faults + 1)
            BY <1>2, Zenon DEF Abandon
        <3> QED BY <3>1
    <2>2. at' \in [Threads -> Places] /\ since' \in [Threads -> 0 .. 1] BY <1>2 DEF Abandon
    <2>3. owner' \in Threads \cup {NoThread} /\ lease' \in BOOLEAN /\ age' \in 0 .. LeaseLifetime - 1
        BY <1>2 DEF Abandon
    <2>4. logs' \in Nat /\ controller' \in {"none", "pending", "observer", "proxy", "closed"}
        BY <1>2 DEF Abandon
    <2> QED BY <1>2, <2>1, <2>2, <2>3, <2>4, <2>5 DEF Abandon
<1>3. ASSUME NEW t \in Threads, Claim(t) PROVE TypeOK'
    <2>1. mishaps' \subseteq Mishaps BY <1>3 DEF Claim
    <2>5. faults' \in 0 .. MaxFaults BY <1>3 DEF Claim
    <2>2. at' \in [Threads -> Places] /\ since' \in [Threads -> 0 .. 1] BY <1>3 DEF Claim, Claimed, MayObserve
    <2>3. owner' \in Threads \cup {NoThread} /\ lease' \in BOOLEAN /\ age' \in 0 .. LeaseLifetime - 1
        BY <1>3 DEF Claim, Claimed, MayObserve
    <2>4. logs' \in Nat /\ controller' \in {"none", "pending", "observer", "proxy", "closed"}
        BY <1>3 DEF Claim, Claimed, MayObserve
    <2> QED BY <1>3, <2>1, <2>2, <2>3, <2>4, <2>5 DEF Claim
<1>4. ASSUME NEW t \in Threads, Look(t) PROVE TypeOK'
    <2>1. mishaps' \subseteq Mishaps BY <1>4 DEF Look
    <2>5. faults' \in 0 .. MaxFaults BY <1>4 DEF Look
    <2>2. at' \in [Threads -> Places] /\ since' \in [Threads -> 0 .. 1] BY <1>4 DEF Look
    <2>3. owner' \in Threads \cup {NoThread} /\ lease' \in BOOLEAN /\ age' \in 0 .. LeaseLifetime - 1
        BY <1>4 DEF Look
    <2>4. logs' \in Nat /\ controller' \in {"none", "pending", "observer", "proxy", "closed"}
        BY <1>4 DEF Look
    <2> QED BY <1>4, <2>1, <2>2, <2>3, <2>4, <2>5 DEF Look
<1>5. ASSUME NEW t \in Threads, Dial(t) PROVE TypeOK' BY <1>5 DEF Dial
<1>6. ASSUME NEW t \in Threads, Poll(t) PROVE TypeOK'
    <2>1. mishaps' \subseteq Mishaps BY <1>6 DEF Poll
    <2>5. faults' \in 0 .. MaxFaults BY <1>6 DEF Poll
    <2>2. at' \in [Threads -> Places] /\ since' \in [Threads -> 0 .. 1] BY <1>6 DEF Poll, AfterHandover
    <2>3. owner' \in Threads \cup {NoThread} /\ lease' \in BOOLEAN /\ age' \in 0 .. LeaseLifetime - 1
        BY <1>6 DEF Poll, AfterHandover
    <2>4. logs' \in Nat /\ controller' \in {"none", "pending", "observer", "proxy", "closed"}
        BY <1>6 DEF Poll, AfterHandover
    <2> QED BY <1>6, <2>1, <2>2, <2>3, <2>4, <2>5 DEF Poll
<1>7. ASSUME NEW t \in Threads, Retry(t) PROVE TypeOK'
    <2>1. mishaps' \subseteq Mishaps BY <1>7 DEF Retry
    <2>5. faults' \in 0 .. MaxFaults BY <1>7 DEF Retry
    <2>2. at' \in [Threads -> Places] /\ since' \in [Threads -> 0 .. 1] BY <1>7 DEF Retry
    <2>3. owner' \in Threads \cup {NoThread} /\ lease' \in BOOLEAN /\ age' \in 0 .. LeaseLifetime - 1
        BY <1>7 DEF Retry
    <2>4. logs' \in Nat /\ controller' \in {"none", "pending", "observer", "proxy", "closed"}
        BY <1>7 DEF Retry
    <2> QED BY <1>7, <2>1, <2>2, <2>3, <2>4, <2>5 DEF Retry
<1>8. ASSUME NEW t \in Threads, TakeOver(t) PROVE TypeOK'
    <2>1. mishaps' \subseteq Mishaps BY <1>8 DEF TakeOver
    <2>5. faults' \in 0 .. MaxFaults BY <1>8 DEF TakeOver
    <2>2. at' \in [Threads -> Places] /\ since' \in [Threads -> 0 .. 1] BY <1>8 DEF TakeOver, TakenOver, MayTakeOver
    <2>3. owner' \in Threads \cup {NoThread} /\ lease' \in BOOLEAN /\ age' \in 0 .. LeaseLifetime - 1
        BY <1>8 DEF TakeOver, TakenOver, MayTakeOver
    <2>4. logs' \in Nat /\ controller' \in {"none", "pending", "observer", "proxy", "closed"}
        BY <1>8 DEF TakeOver, TakenOver, MayTakeOver
    <2> QED BY <1>8, <2>1, <2>2, <2>3, <2>4, <2>5 DEF TakeOver
<1>9. ASSUME NEW t \in Threads, ProxyDial(t) PROVE TypeOK' BY <1>9 DEF ProxyDial
<1>10. ASSUME NEW t \in Threads, Unclaim(t) PROVE TypeOK'
    <2>1. mishaps' \subseteq Mishaps BY <1>10 DEF Unclaim
    <2>5. faults' \in 0 .. MaxFaults BY <1>10 DEF Unclaim
    <2>2. at' \in [Threads -> Places] /\ since' \in [Threads -> 0 .. 1] BY <1>10 DEF Unclaim, Ends, Observes
    <2>3. owner' \in Threads \cup {NoThread} /\ lease' \in BOOLEAN /\ age' \in 0 .. LeaseLifetime - 1
        BY <1>10 DEF Unclaim, Ends, Observes
    <2>4. logs' \in Nat /\ controller' \in {"none", "pending", "observer", "proxy", "closed"}
        BY <1>10 DEF Unclaim, Ends, Observes
    <2> QED BY <1>10, <2>1, <2>2, <2>3, <2>4, <2>5 DEF Unclaim
<1>11. ASSUME NEW t \in Threads, Fallback(t) PROVE TypeOK' BY <1>11 DEF Fallback
<1>12. ASSUME NEW t \in Threads, Finalize(t) PROVE TypeOK'
    <2>1. mishaps' \subseteq Mishaps BY <1>12 DEF Finalize
    <2>5. faults' \in 0 .. MaxFaults BY <1>12 DEF Finalize
    <2>2. at' \in [Threads -> Places] /\ since' \in [Threads -> 0 .. 1] BY <1>12 DEF Finalize, ClosesFirst
    <2>3. owner' \in Threads \cup {NoThread} /\ lease' \in BOOLEAN /\ age' \in 0 .. LeaseLifetime - 1
        BY <1>12 DEF Finalize, ClosesFirst
    <2>4. logs' \in Nat /\ controller' \in {"none", "pending", "observer", "proxy", "closed"}
        BY <1>12 DEF Finalize, ClosesFirst
    <2> QED BY <1>12, <2>1, <2>2, <2>3, <2>4, <2>5 DEF Finalize
<1>13. ASSUME NEW t \in Threads, Release(t) PROVE TypeOK'
    <2>1. mishaps' \subseteq Mishaps BY <1>13 DEF Release
    <2>5. faults' \in 0 .. MaxFaults
        <3>1. faults' = faults \/ (faults < MaxFaults /\ faults' = faults + 1)
            BY <1>13, Zenon DEF Release
        <3> QED BY <3>1
    <2>2. at' \in [Threads -> Places] /\ since' \in [Threads -> 0 .. 1] BY <1>13 DEF Release
    <2>3. owner' \in Threads \cup {NoThread} /\ lease' \in BOOLEAN /\ age' \in 0 .. LeaseLifetime - 1
        BY <1>13 DEF Release
    <2>4. logs' \in Nat /\ controller' \in {"none", "pending", "observer", "proxy", "closed"}
        BY <1>13 DEF Release
    <2> QED BY <1>13, <2>1, <2>2, <2>3, <2>4, <2>5 DEF Release
<1>14. ASSUME NEW t \in Threads, Log(t) PROVE TypeOK'
    <2>1. mishaps' \subseteq Mishaps BY <1>14 DEF Log
    <2>5. faults' \in 0 .. MaxFaults BY <1>14 DEF Log
    <2>2. at' \in [Threads -> Places] /\ since' \in [Threads -> 0 .. 1] BY <1>14 DEF Log
    <2>3. owner' \in Threads \cup {NoThread} /\ lease' \in BOOLEAN /\ age' \in 0 .. LeaseLifetime - 1
        BY <1>14 DEF Log
    <2>4. logs' \in Nat /\ controller' \in {"none", "pending", "observer", "proxy", "closed"}
        BY <1>14 DEF Log
    <2> QED BY <1>14, <2>1, <2>2, <2>3, <2>4, <2>5 DEF Log
<1>15. ASSUME NEW t \in Threads, HearEnd(t) PROVE TypeOK' BY <1>15 DEF HearEnd, Over
<1>16. ASSUME NEW t \in Threads, Refresh(t) PROVE TypeOK'
    <2>1. mishaps' \subseteq Mishaps BY <1>16 DEF Refresh
    <2>5. faults' \in 0 .. MaxFaults BY <1>16 DEF Refresh
    <2>2. at' \in [Threads -> Places] /\ since' \in [Threads -> 0 .. 1] BY <1>16 DEF Refresh, Refreshed, Over
    <2>3. owner' \in Threads \cup {NoThread} /\ lease' \in BOOLEAN /\ age' \in 0 .. LeaseLifetime - 1
        <3>1. owner' = owner /\ lease' \in BOOLEAN /\ (age' = 0 \/ age' = age)
            BY <1>16, Zenon DEF Refresh, Refreshed
        <3> QED BY <3>1
    <2>4. logs' \in Nat /\ controller' \in {"none", "pending", "observer", "proxy", "closed"}
        BY <1>16 DEF Refresh, Refreshed, Over
    <2> QED BY <1>16, <2>1, <2>2, <2>3, <2>4, <2>5 DEF Refresh
<1>17. ASSUME NEW t \in Threads, Sideband(t) PROVE TypeOK' BY <1>17 DEF Sideband
<1>18. ASSUME NEW t \in Threads, Drop(t) PROVE TypeOK' BY <1>18 DEF Drop
<1>19. ASSUME NEW p \in Processes, Crash(p) PROVE TypeOK' BY <1>19 DEF Crash
<1>20. CASE CallEnds BY <1>20 DEF CallEnds
<1>21. CASE Expire BY <1>21 DEF Expire
<1>22. CASE Tick BY <1>22 DEF Tick, Reaped
<1>23. CASE Forget BY <1>23 DEF Forget
<1>24. CASE UNCHANGED vars BY <1>24 DEF vars
<1> QED BY <1>1, <1>2, <1>3, <1>4, <1>5, <1>6, <1>7, <1>8, <1>9, <1>10, <1>11, <1>12, <1>13, <1>14, <1>15, <1>16, <1>17, <1>18, <1>19, <1>20, <1>21, <1>22, <1>23, <1>24 DEF Next, Progress, Observe, Proxy, Close

\* The close of a record hands lease and log to the thread that closed it.
LEMMA NextClaims == TypeOK /\ Claims /\ [Next]_vars => Claims'
<1> USE DEF TypeOK, Claims, Beginning
<1> SUFFICES ASSUME TypeOK, Claims, [Next]_vars PROVE Claims'
    OBVIOUS
<1>1. ASSUME NEW t \in Threads, Save(t) PROVE Claims' BY <1>1 DEF Save
<1>2. ASSUME NEW t \in Threads, Abandon(t) PROVE Claims' BY <1>2 DEF Abandon
<1>3. ASSUME NEW t \in Threads, Claim(t) PROVE Claims' BY <1>3 DEF Claim, Claimed, MayObserve
<1>4. ASSUME NEW t \in Threads, Look(t) PROVE Claims' BY <1>4 DEF Look
<1>5. ASSUME NEW t \in Threads, Dial(t) PROVE Claims' BY <1>5 DEF Dial
<1>6. ASSUME NEW t \in Threads, Poll(t) PROVE Claims' BY <1>6 DEF Poll, AfterHandover
<1>7. ASSUME NEW t \in Threads, Retry(t) PROVE Claims' BY <1>7 DEF Retry
<1>8. ASSUME NEW t \in Threads, TakeOver(t) PROVE Claims' BY <1>8 DEF TakeOver, TakenOver, MayTakeOver
<1>9. ASSUME NEW t \in Threads, ProxyDial(t) PROVE Claims' BY <1>9 DEF ProxyDial
<1>10. ASSUME NEW t \in Threads, Unclaim(t) PROVE Claims' BY <1>10 DEF Unclaim, Ends, Observes
<1>11. ASSUME NEW t \in Threads, Fallback(t) PROVE Claims' BY <1>11 DEF Fallback
<1>12. ASSUME NEW t \in Threads, Finalize(t) PROVE Claims' BY <1>12 DEF Finalize, ClosesFirst
<1>13. ASSUME NEW t \in Threads, Release(t) PROVE Claims'
    <2>1. /\ at[t] = "release" /\ at' = [at EXCEPT ![t] = "log"]
          /\ UNCHANGED <<controller, logs>>
        BY <1>13 DEF Release
    <2>2. ~lease' \/ "release" \in mishaps' BY <1>13 DEF Release
    <2>3. "save" \in mishaps' <=> "save" \in mishaps BY <1>13 DEF Release
    <2>4. \A s \in Threads \ {t} : at'[s] = at[s] /\ at[s] # "log" BY <2>1
    <2> QED BY <2>1, <2>2, <2>3, <2>4
<1>14. ASSUME NEW t \in Threads, Log(t) PROVE Claims' BY <1>14 DEF Log
<1>15. ASSUME NEW t \in Threads, HearEnd(t) PROVE Claims' BY <1>15 DEF HearEnd, Over
<1>16. ASSUME NEW t \in Threads, Refresh(t) PROVE Claims' BY <1>16 DEF Refresh, Refreshed, Over
<1>17. ASSUME NEW t \in Threads, Sideband(t) PROVE Claims' BY <1>17 DEF Sideband
<1>18. ASSUME NEW t \in Threads, Drop(t) PROVE Claims' BY <1>18 DEF Drop
<1>19. ASSUME NEW p \in Processes, Crash(p) PROVE Claims' BY <1>19 DEF Crash
<1>20. CASE CallEnds BY <1>20 DEF CallEnds
<1>21. CASE Expire BY <1>21 DEF Expire
<1>22. CASE Tick BY <1>22 DEF Tick, Reaped
<1>23. CASE Forget BY <1>23 DEF Forget
<1>24. CASE UNCHANGED vars BY <1>24 DEF vars
<1> QED BY <1>1, <1>2, <1>3, <1>4, <1>5, <1>6, <1>7, <1>8, <1>9, <1>10, <1>11, <1>12, <1>13, <1>14, <1>15, <1>16, <1>17, <1>18, <1>19, <1>20, <1>21, <1>22, <1>23, <1>24 DEF Next, Progress, Observe, Proxy, Close

\* Every way to the end starts at the end of the call, its expiry or the loss of its lease.
LEMMA NextReasoned == TypeOK /\ Claims /\ Reasoned /\ [Next]_vars => Reasoned'
<1> USE DEF TypeOK, Claims, Reasoned, Reason, Beginning, Ending
<1> SUFFICES ASSUME TypeOK, Claims, Reasoned, [Next]_vars PROVE Reasoned'
    OBVIOUS
<1>1. ASSUME NEW t \in Threads, Save(t) PROVE Reasoned' BY <1>1 DEF Save
<1>2. ASSUME NEW t \in Threads, Abandon(t) PROVE Reasoned' BY <1>2 DEF Abandon
<1>3. ASSUME NEW t \in Threads, Claim(t) PROVE Reasoned' BY <1>3 DEF Claim, Claimed, MayObserve
<1>4. ASSUME NEW t \in Threads, Look(t) PROVE Reasoned' BY <1>4 DEF Look
<1>5. ASSUME NEW t \in Threads, Dial(t) PROVE Reasoned' BY <1>5 DEF Dial
<1>6. ASSUME NEW t \in Threads, Poll(t) PROVE Reasoned' BY <1>6 DEF Poll, AfterHandover
<1>7. ASSUME NEW t \in Threads, Retry(t) PROVE Reasoned' BY <1>7 DEF Retry
<1>8. ASSUME NEW t \in Threads, TakeOver(t) PROVE Reasoned' BY <1>8 DEF TakeOver, TakenOver, MayTakeOver
<1>9. ASSUME NEW t \in Threads, ProxyDial(t) PROVE Reasoned' BY <1>9 DEF ProxyDial
<1>10. ASSUME NEW t \in Threads, Unclaim(t) PROVE Reasoned' BY <1>10 DEF Unclaim, Ends, Observes
<1>11. ASSUME NEW t \in Threads, Fallback(t) PROVE Reasoned' BY <1>11 DEF Fallback
<1>12. ASSUME NEW t \in Threads, Finalize(t) PROVE Reasoned' BY <1>12 DEF Finalize, ClosesFirst
<1>13. ASSUME NEW t \in Threads, Release(t) PROVE Reasoned' BY <1>13 DEF Release
<1>14. ASSUME NEW t \in Threads, Log(t) PROVE Reasoned' BY <1>14 DEF Log
<1>15. ASSUME NEW t \in Threads, HearEnd(t) PROVE Reasoned' BY <1>15 DEF HearEnd, Over
<1>16. ASSUME NEW t \in Threads, Refresh(t) PROVE Reasoned' BY <1>16 DEF Refresh, Refreshed, Over
<1>17. ASSUME NEW t \in Threads, Sideband(t) PROVE Reasoned' BY <1>17 DEF Sideband
<1>18. ASSUME NEW t \in Threads, Drop(t) PROVE Reasoned' BY <1>18 DEF Drop
<1>19. ASSUME NEW p \in Processes, Crash(p) PROVE Reasoned' BY <1>19 DEF Crash
<1>20. CASE CallEnds BY <1>20 DEF CallEnds
<1>21. CASE Expire BY <1>21 DEF Expire
<1>22. CASE Tick BY <1>22 DEF Tick, Reaped
<1>23. CASE Forget BY <1>23 DEF Forget
<1>24. CASE UNCHANGED vars BY <1>24 DEF vars
<1> QED BY <1>1, <1>2, <1>3, <1>4, <1>5, <1>6, <1>7, <1>8, <1>9, <1>10, <1>11, <1>12, <1>13, <1>14, <1>15, <1>16, <1>17, <1>18, <1>19, <1>20, <1>21, <1>22, <1>23, <1>24 DEF Next, Progress, Observe, Proxy, Close

\* Whoever leaves an open record leaves it to a thread that watches it.
LEMMA NextWatched == TypeOK /\ CallIsWatched /\ [Next]_vars => CallIsWatched'
<1> USE DEF TypeOK, CallIsWatched, Watches, Abandoned
<1> SUFFICES ASSUME TypeOK, CallIsWatched, [Next]_vars PROVE CallIsWatched'
    OBVIOUS
<1>1. ASSUME NEW t \in Threads, Save(t) PROVE CallIsWatched' BY <1>1 DEF Save
<1>2. ASSUME NEW t \in Threads, Abandon(t) PROVE CallIsWatched' BY <1>2 DEF Abandon
<1>3. ASSUME NEW t \in Threads, Claim(t) PROVE CallIsWatched' BY <1>3 DEF Claim, Claimed, MayObserve
<1>4. ASSUME NEW t \in Threads, Look(t) PROVE CallIsWatched' BY <1>4 DEF Look
<1>5. ASSUME NEW t \in Threads, Dial(t) PROVE CallIsWatched' BY <1>5 DEF Dial
<1>6. ASSUME NEW t \in Threads, Poll(t) PROVE CallIsWatched' BY <1>6 DEF Poll, AfterHandover
<1>7. ASSUME NEW t \in Threads, Retry(t) PROVE CallIsWatched' BY <1>7 DEF Retry
<1>8. ASSUME NEW t \in Threads, TakeOver(t) PROVE CallIsWatched' BY <1>8 DEF TakeOver, TakenOver, MayTakeOver
<1>9. ASSUME NEW t \in Threads, ProxyDial(t) PROVE CallIsWatched' BY <1>9 DEF ProxyDial
<1>10. ASSUME NEW t \in Threads, Unclaim(t) PROVE CallIsWatched' BY <1>10 DEF Unclaim, Ends, Observes
<1>11. ASSUME NEW t \in Threads, Fallback(t) PROVE CallIsWatched' BY <1>11 DEF Fallback
<1>12. ASSUME NEW t \in Threads, Finalize(t) PROVE CallIsWatched' BY <1>12 DEF Finalize, ClosesFirst
<1>13. ASSUME NEW t \in Threads, Release(t) PROVE CallIsWatched' BY <1>13 DEF Release
<1>14. ASSUME NEW t \in Threads, Log(t) PROVE CallIsWatched' BY <1>14 DEF Log
<1>15. ASSUME NEW t \in Threads, HearEnd(t) PROVE CallIsWatched' BY <1>15 DEF HearEnd, Over
<1>16. ASSUME NEW t \in Threads, Refresh(t) PROVE CallIsWatched' BY <1>16 DEF Refresh, Refreshed, Over
<1>17. ASSUME NEW t \in Threads, Sideband(t) PROVE CallIsWatched' BY <1>17 DEF Sideband
<1>18. ASSUME NEW t \in Threads, Drop(t) PROVE CallIsWatched' BY <1>18 DEF Drop
<1>19. ASSUME NEW p \in Processes, Crash(p) PROVE CallIsWatched' BY <1>19 DEF Crash, Orphans
<1>20. CASE CallEnds BY <1>20 DEF CallEnds
<1>21. CASE Expire BY <1>21 DEF Expire
<1>22. CASE Tick BY <1>22 DEF Tick, Reaped
<1>23. CASE Forget BY <1>23 DEF Forget
<1>24. CASE UNCHANGED vars BY <1>24 DEF vars
<1> QED BY <1>1, <1>2, <1>3, <1>4, <1>5, <1>6, <1>7, <1>8, <1>9, <1>10, <1>11, <1>12, <1>13, <1>14, <1>15, <1>16, <1>17, <1>18, <1>19, <1>20, <1>21, <1>22, <1>23, <1>24 DEF Next, Progress, Observe, Proxy, Close

\* No refresh brings the lease back, and the closer's release takes it.
LEMMA NextReleased == TypeOK /\ ClosedIsReleased /\ [Next]_vars => ClosedIsReleased'
<1> USE DEF TypeOK, ClosedIsReleased
<1> SUFFICES ASSUME TypeOK, ClosedIsReleased, [Next]_vars PROVE ClosedIsReleased'
    OBVIOUS
<1>1. ASSUME NEW t \in Threads, Save(t) PROVE ClosedIsReleased' BY <1>1 DEF Save
<1>2. ASSUME NEW t \in Threads, Abandon(t) PROVE ClosedIsReleased' BY <1>2 DEF Abandon
<1>3. ASSUME NEW t \in Threads, Claim(t) PROVE ClosedIsReleased' BY <1>3 DEF Claim, Claimed, MayObserve
<1>4. ASSUME NEW t \in Threads, Look(t) PROVE ClosedIsReleased' BY <1>4 DEF Look
<1>5. ASSUME NEW t \in Threads, Dial(t) PROVE ClosedIsReleased' BY <1>5 DEF Dial
<1>6. ASSUME NEW t \in Threads, Poll(t) PROVE ClosedIsReleased' BY <1>6 DEF Poll, AfterHandover
<1>7. ASSUME NEW t \in Threads, Retry(t) PROVE ClosedIsReleased' BY <1>7 DEF Retry
<1>8. ASSUME NEW t \in Threads, TakeOver(t) PROVE ClosedIsReleased' BY <1>8 DEF TakeOver, TakenOver, MayTakeOver
<1>9. ASSUME NEW t \in Threads, ProxyDial(t) PROVE ClosedIsReleased' BY <1>9 DEF ProxyDial
<1>10. ASSUME NEW t \in Threads, Unclaim(t) PROVE ClosedIsReleased' BY <1>10 DEF Unclaim, Ends, Observes
<1>11. ASSUME NEW t \in Threads, Fallback(t) PROVE ClosedIsReleased' BY <1>11 DEF Fallback
<1>12. ASSUME NEW t \in Threads, Finalize(t) PROVE ClosedIsReleased' BY <1>12 DEF Finalize, ClosesFirst
<1>13. ASSUME NEW t \in Threads, Release(t) PROVE ClosedIsReleased' BY <1>13 DEF Release
<1>14. ASSUME NEW t \in Threads, Log(t) PROVE ClosedIsReleased' BY <1>14 DEF Log
<1>15. ASSUME NEW t \in Threads, HearEnd(t) PROVE ClosedIsReleased' BY <1>15 DEF HearEnd, Over
<1>16. ASSUME NEW t \in Threads, Refresh(t) PROVE ClosedIsReleased' BY <1>16 DEF Refresh, Refreshed, Over
<1>17. ASSUME NEW t \in Threads, Sideband(t) PROVE ClosedIsReleased' BY <1>17 DEF Sideband
<1>18. ASSUME NEW t \in Threads, Drop(t) PROVE ClosedIsReleased' BY <1>18 DEF Drop
<1>19. ASSUME NEW p \in Processes, Crash(p) PROVE ClosedIsReleased' BY <1>19 DEF Crash, Orphans
<1>20. CASE CallEnds BY <1>20 DEF CallEnds
<1>21. CASE Expire BY <1>21 DEF Expire
<1>22. CASE Tick BY <1>22 DEF Tick, Reaped
<1>23. CASE Forget BY <1>23 DEF Forget
<1>24. CASE UNCHANGED vars BY <1>24 DEF vars
<1> QED BY <1>1, <1>2, <1>3, <1>4, <1>5, <1>6, <1>7, <1>8, <1>9, <1>10, <1>11, <1>12, <1>13, <1>14, <1>15, <1>16, <1>17, <1>18, <1>19, <1>20, <1>21, <1>22, <1>23, <1>24 DEF Next, Progress, Observe, Proxy, Close

-----------------------------------------------------------------------------

\* The invariant of every run of the system (service/openai_live.go).
THEOREM Invariance == Spec => []IInv
<1>1. IInv /\ [Next]_vars => IInv'
    BY NextTypeOK, NextClaims, NextReasoned, NextWatched, NextReleased DEF IInv
<1> QED BY InitIInv, <1>1, PTL DEF Spec

\* Record, lease and threads stay what the code can write; the lease is reaped in time.
THEOREM TypeCorrect == Spec => []TypeOK
<1> IInv => TypeOK BY DEF IInv
<1> QED BY Invariance, PTL

\* finalizeLiveCall logs a call at most once, whoever else finalizes it.
THEOREM CallsAreLoggedOnce == Spec => []LoggedOnce
<1> IInv => LoggedOnce BY DEF IInv, Claims, LoggedOnce
<1> QED BY Invariance, PTL

\* An open call has an observer or a proxy that goes on with it, unless a call that the
\* code does not repeat has failed or a process died.
THEOREM CallsAreWatched == Spec => []CallIsWatched
<1> IInv => CallIsWatched BY DEF IInv
<1> QED BY Invariance, PTL

\* A closed call holds no place.
THEOREM PlacesAreReleased == Spec => []ClosedIsReleased
<1> IInv => ClosedIsReleased BY DEF IInv
<1> QED BY Invariance, PTL

\* No call is closed while it goes on, holds its lease and has not expired.
THEOREM ClosesAreDue == Spec => []ClosedIsOver
<1> IInv => ClosedIsOver BY DEF IInv, Reasoned, Reason, ClosedIsOver
<1> QED BY Invariance, PTL

-----------------------------------------------------------------------------
(* The call keeps LivePromise.                                             *)

\* The promise starts where the call does.
LEMMA PromiseInit == Init => Promise!Init
BY DEF Init, Promise!Init, Creating, HandedOut, Reason, Leaked, BeingClosed

\* A step that changes none of what the promise speaks of.
Quiet == UNCHANGED <<Creating, HandedOut, Reason, lease, Leaked, BeingClosed, logs>>

LEMMA QuietStutters == Quiet => UNCHANGED Promise!vars
BY DEF Quiet, Promise!vars

\* A thread that neither creates nor closes the call moves unseen.
LEMMA Moves ==
    ASSUME TypeOK, NEW t \in Threads, at[t] \notin {"save", "release", "log"},
           NEW where \in Places \ {"save", "release", "log"}, at' = [at EXCEPT ![t] = where]
    PROVE  UNCHANGED <<Creating, BeingClosed>>
BY DEF TypeOK, Creating, BeingClosed

\* Observing, handing over and waiting change nothing of it.
LEMMA ObservingIsQuiet ==
    ASSUME IInv, NEW t \in Threads,
           Observe(t) \/ Proxy(t) \/ Fallback(t) \/ Sideband(t) \/ Drop(t) \/ HearEnd(t)
    PROVE  Quiet
<1> USE DEF IInv, TypeOK, Quiet, HandedOut, Reason, Leaked
<1>1. CASE Claim(t) BY <1>1, Moves DEF Claim, Claimed, MayObserve
<1>2. CASE Look(t) BY <1>2, Moves DEF Look
<1>3. CASE Dial(t) BY <1>3, Moves DEF Dial
<1>4. CASE Poll(t) BY <1>4, Moves DEF Poll, AfterHandover
<1>5. CASE Retry(t) BY <1>5, Moves DEF Retry
<1>6. CASE TakeOver(t) BY <1>6, Moves DEF TakeOver, TakenOver, MayTakeOver
<1>7. CASE ProxyDial(t) BY <1>7, Moves DEF ProxyDial
<1>8. CASE Unclaim(t)
  <2>1. at[t] \notin {"save", "release", "log"} BY <1>8 DEF Unclaim
  <2>2. \E where \in {"finalize", "claim"} : at' = [at EXCEPT ![t] = where]
        BY <1>8 DEF Unclaim, Ends, Observes
  <2>3. UNCHANGED <<Creating, BeingClosed>> BY <2>1, <2>2, Moves
  <2>4. UNCHANGED HandedOut BY <1>8 DEF Unclaim
  <2>5. UNCHANGED Leaked BY <1>8 DEF Unclaim
  <2>6. UNCHANGED <<Reason, lease, logs>> BY <1>8 DEF Unclaim
  <2> QED BY <2>3, <2>4, <2>5, <2>6
<1>9. CASE Fallback(t) BY <1>9, Moves DEF Fallback
<1>10. CASE Sideband(t) BY <1>10, Moves DEF Sideband
<1>11. CASE Drop(t) BY <1>11, Moves DEF Drop
<1>12. CASE HearEnd(t) BY <1>12, Moves DEF HearEnd, Over
<1> QED BY <1>1, <1>2, <1>3, <1>4, <1>5, <1>6, <1>7, <1>8, <1>9, <1>10, <1>11, <1>12 DEF Observe, Proxy

\* Each step that creates, refreshes, closes, releases or logs is one of the promise's.
LEMMA CreateStep ==
    ASSUME IInv, NEW t \in Threads, Save(t) PROVE Promise!Create
<1> USE DEF IInv, TypeOK
<1>1. Creating BY DEF Save, Creating
<1>2. ~Creating' BY DEF Save, Creating, Claims
<1>3. UNCHANGED <<Reason, lease, Leaked, BeingClosed, logs>>
      BY DEF Save, Reason, Leaked, BeingClosed
<1> QED BY <1>1, <1>2, <1>3 DEF Promise!Create, HandedOut

LEMMA GiveBackStep ==
    ASSUME IInv, NEW t \in Threads, Abandon(t) \/ Release(t) PROVE Promise!GiveBack
<1> USE DEF IInv, TypeOK
<1>1. ~Creating /\ ~HandedOut BY DEF Abandon, Release, Claims, Creating, HandedOut, Beginning
<1>2. UNCHANGED <<Creating, HandedOut, Reason, BeingClosed, logs>>
      BY <1>1 DEF Abandon, Release, Creating, HandedOut, Reason, BeingClosed
<1>3. lease' \in {lease, FALSE} /\ Leaked' \in {Leaked, TRUE} /\ (lease' => Leaked')
      BY DEF Abandon, Release, Leaked
<1> QED BY <1>1, <1>2, <1>3 DEF Promise!GiveBack

LEMMA RefreshStep ==
    ASSUME IInv, NEW t \in Threads, Refresh(t) PROVE Quiet \/ Promise!FallDue
<1> USE DEF IInv, TypeOK
<1>1. UNCHANGED <<Creating, BeingClosed>> BY Moves DEF Refresh, Refreshed, Over
<1>2. UNCHANGED <<HandedOut, Leaked, logs>> BY DEF Refresh, HandedOut, Leaked
<1>3. UNCHANGED lease
  <2>1. lease' = lease \/ (lease /\ lease' = TRUE) BY DEF Refresh, Refreshed
  <2> QED BY <2>1
<1>4. Reason' \/ UNCHANGED Reason BY DEF Refresh, Reason
<1> QED BY <1>1, <1>2, <1>3, <1>4 DEF Quiet, Promise!FallDue

LEMMA CloseStep ==
    ASSUME IInv, NEW t \in Threads, Finalize(t) PROVE Quiet \/ Promise!Close
<1> USE DEF IInv, TypeOK
<1>1. UNCHANGED <<Creating, Reason, lease, Leaked, logs>>
      BY DEF Finalize, Creating, Reason, Leaked, ClosesFirst
<1>2. CASE controller' = "closed" /\ Open
  <2>1. HandedOut BY <1>2 DEF Finalize, Claims, Beginning, HandedOut
  <2>2. Reason BY DEF Finalize, Reasoned, Ending
  <2>3. ~BeingClosed /\ logs = 0 BY <1>2 DEF Claims, BeingClosed
  <2>4. ~HandedOut' BY <1>2 DEF HandedOut
  <2>5. BeingClosed' \in BOOLEAN BY DEF BeingClosed
  <2> QED BY <1>1, <2>1, <2>2, <2>3, <2>4, <2>5 DEF Promise!Close
<1>3. CASE ~(controller' = "closed" /\ Open)
  <2>1. UNCHANGED HandedOut BY <1>3 DEF Finalize, ClosesFirst, HandedOut
  <2>2. UNCHANGED BeingClosed BY <1>3, Moves DEF Finalize, ClosesFirst
  <2> QED BY <1>1, <2>1, <2>2 DEF Quiet
<1> QED BY <1>2, <1>3

LEMMA LogStep ==
    ASSUME IInv, NEW t \in Threads, Log(t) PROVE Promise!Log \/ Promise!GiveUp
<1> USE DEF IInv, TypeOK
<1>1. BeingClosed /\ ~BeingClosed' BY DEF Log, BeingClosed, Claims
<1>2. logs = 0 /\ (lease => Leaked) BY DEF Log, Claims, Leaked
<1>3. UNCHANGED <<Creating, HandedOut, Reason, lease, Leaked>>
      BY DEF Log, Creating, HandedOut, Reason, Leaked
<1> QED BY <1>1, <1>2, <1>3 DEF Log, Promise!Log, Promise!GiveUp

\* A process dies with the creator, the closer, or neither.
LEMMA CrashStep ==
    ASSUME IInv, NEW p \in Processes, Crash(p)
    PROVE  Quiet \/ Promise!Create \/ Promise!GiveUp
<1> USE DEF IInv, TypeOK
<1>1. UNCHANGED <<HandedOut, Reason, lease, Leaked, logs>>
      BY DEF Crash, HandedOut, Reason, Leaked
<1>2. (Creating' => Creating) /\ (BeingClosed' => BeingClosed)
      BY DEF Crash, Creating, BeingClosed
<1>3. ~(Creating /\ BeingClosed) BY DEF Claims, Creating, BeingClosed, Beginning
<1>4. HandedOut \in BOOLEAN BY DEF HandedOut
<1> QED BY <1>1, <1>2, <1>3, <1>4 DEF Quiet, Promise!Create, Promise!GiveUp, Creating, BeingClosed

\* The end of the call, its longest duration and the lapse of its place make it due.
LEMMA WorldStep ==
    ASSUME IInv, CallEnds \/ Expire \/ Tick \/ Forget
    PROVE  Quiet \/ Promise!FallDue \/ Promise!LosePlace
<1> USE DEF IInv, TypeOK
<1>1. UNCHANGED <<Creating, HandedOut, Leaked, BeingClosed, logs>>
      BY DEF CallEnds, Expire, Tick, Forget, Creating, HandedOut, Leaked, BeingClosed
<1>2. CASE CallEnds \/ Expire
  <2>1. UNCHANGED lease /\ Reason' BY <1>2 DEF CallEnds, Expire, Reason
  <2> QED BY <1>1, <2>1 DEF Promise!FallDue
<1>3. CASE Forget
  <2>1. UNCHANGED <<lease, Reason>> BY <1>3 DEF Forget, Reason
  <2> QED BY <1>1, <2>1 DEF Quiet
<1>4. CASE Tick /\ Reaped
  <2>1. lease /\ lease' = FALSE /\ Reason' BY <1>4 DEF Tick, Reaped, Reason
  <2> QED BY <1>1, <2>1 DEF Promise!LosePlace
<1>5. CASE Tick /\ ~Reaped
  <2>1. UNCHANGED <<lease, Reason>> BY <1>5 DEF Tick, Reason
  <2> QED BY <1>1, <2>1 DEF Quiet
<1> QED BY <1>2, <1>3, <1>4, <1>5

\* Every step of the call is a step of the promise or one it does not see.
LEMMA PromiseStep == IInv /\ [Next]_vars => [Promise!Next]_Promise!vars
<1> SUFFICES ASSUME IInv, [Next]_vars PROVE [Promise!Next]_Promise!vars
    OBVIOUS
<1>1. ASSUME NEW t \in Threads, Progress(t) \/ Sideband(t) \/ Drop(t)
      PROVE  [Promise!Next]_Promise!vars
      BY <1>1, ObservingIsQuiet, CreateStep, GiveBackStep, RefreshStep, CloseStep, LogStep, QuietStutters
      DEF Progress, Close, Promise!Next
<1>2. ASSUME NEW p \in Processes, Crash(p) PROVE [Promise!Next]_Promise!vars
      BY <1>2, CrashStep, QuietStutters DEF Promise!Next
<1>3. CASE CallEnds \/ Expire \/ Tick \/ Forget
      BY <1>3, WorldStep, QuietStutters DEF Promise!Next
<1>4. CASE UNCHANGED vars
  <2>1. Quiet BY <1>4 DEF vars, Quiet, Creating, HandedOut, Reason, Leaked, BeingClosed
  <2> QED BY <2>1, QuietStutters
<1> QED BY <1>1, <1>2, <1>3, <1>4 DEF Next

\* Observers, sidebands, closers and whatever fails of them implement the promise of the
\* call: every behaviour of theirs is one of LivePromise.
THEOREM PromiseKept == Spec => KeepsPromise
BY Invariance, PromiseInit, PromiseStep, PTL DEF Spec, KeepsPromise, Promise!Spec

=============================================================================
