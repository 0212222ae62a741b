----------------------- MODULE ConcurrencySlotsProofs -----------------------
(***************************************************************************)
(* Slots, leases and the wait counter, for any limits, any number of       *)
(* requests, processes, failures and restarts.                             *)
(*                                                                         *)
(* Counted says which steps of a request rely on a slot or a lease, and is *)
(* what keeps the limit when a lease comes beside its slot; the counter is *)
(* exact by itself.                                                        *)
(***************************************************************************)
EXTENDS ConcurrencySlots, FiniteSetTheorems, TLAPS

\* A request that goes on to be served has its place, and is served only then, unless
\* it lost its place.
Counted ==
    \A r \in Requests :
        /\ at[r] \in {"leave", "lease"} => r \in regular \/ (r \in lost /\ "cleaned" \in mishaps)
        /\ at[r] \in {"create", "swap", "session"} => r \in live \cup lost
        /\ r \in upstream => at[r] \in {"running", "swap", "session"} \/ r \in lost
        /\ at[r] \in Queued \cup {"enter", "lease"} => r \notin upstream
        /\ at[r] = "lease" => r \in LiveRequests

Waiting == {r \in Requests : at[r] \in Queued}

IInv == TypeOK /\ Counted /\ ServedIsCounted /\ HeldWithinLimit /\ WaitIsExact

-----------------------------------------------------------------------------

\* The union is no larger than the sum, which is what Redis adds up.
LEMMA UnionFits ==
    ASSUME NEW S, NEW T, IsFiniteSet(S), IsFiniteSet(T)
    PROVE  /\ IsFiniteSet(S \cup T)
           /\ Cardinality(S \cup T) \in Nat
           /\ Cardinality(S \cup T) <= Cardinality(S) + Cardinality(T)
<1>1. IsFiniteSet(S \cup T) /\ IsFiniteSet(S \cap T)
    BY FS_Union, FS_Intersection
<1>2. Cardinality(S \cup T) = Cardinality(S) + Cardinality(T) - Cardinality(S \cap T)
    BY FS_Union
<1>3. Cardinality(S) \in Nat /\ Cardinality(T) \in Nat /\ Cardinality(S \cap T) \in Nat
         /\ Cardinality(S \cup T) \in Nat
    BY <1>1, FS_CardinalityType
<1> QED BY <1>1, <1>2, <1>3

\* A set grows by at most one with an element, and by exactly one with a new one.
LEMMA OneMore ==
    ASSUME NEW S, NEW x, IsFiniteSet(S)
    PROVE  /\ Cardinality(S) \in Nat /\ Cardinality(S \cup {x}) \in Nat
           /\ Cardinality(S \cup {x}) <= Cardinality(S) + 1
           /\ x \notin S => Cardinality(S \cup {x}) = Cardinality(S) + 1
           /\ x \in S => Cardinality(S \ {x}) = Cardinality(S) - 1 /\ Cardinality(S) > 0
<1>1. IsFiniteSet(S \cup {x}) /\ IsFiniteSet(S \ {x})
    BY FS_AddElement, FS_RemoveElement
<1>2. Cardinality(S) \in Nat /\ Cardinality(S \cup {x}) \in Nat /\ Cardinality(S \ {x}) \in Nat
    BY <1>1, FS_CardinalityType
<1>3. Cardinality(S \cup {x}) = IF x \in S THEN Cardinality(S) ELSE Cardinality(S) + 1
    BY FS_AddElement
<1>4. Cardinality(S \ {x}) = IF x \in S THEN Cardinality(S) - 1 ELSE Cardinality(S)
    BY FS_RemoveElement
<1> QED BY <1>2, <1>3, <1>4

USE RequestsAssumption, BoundsAssumption
    DEF Queued, Places, Mishaps, In, Go, Fails, Note, IfSo, Loses, Works

\* Nothing is taken and nobody waits.
LEMMA InitIInv == Init => IInv
<1> SUFFICES ASSUME Init PROVE IInv
    OBVIOUS
<1> USE DEF Init
<1>1. TypeOK BY DEF TypeOK
<1>2. Counted BY DEF Counted
<1>3. ServedIsCounted BY DEF ServedIsCounted
<1>4. regular \cup live = {} /\ {r \in Requests : at[r] \in Queued} = {}
    OBVIOUS
<1>5. HeldWithinLimit BY <1>4, FS_EmptySet DEF HeldWithinLimit, Limit
<1>6. WaitIsExact BY <1>4, FS_EmptySet DEF WaitIsExact
<1> QED BY <1>1, <1>2, <1>3, <1>5, <1>6 DEF IInv

\* Types, action by action.
LEMMA NextTypeOK == TypeOK /\ Counted /\ [Next]_vars => TypeOK'
<1> USE DEF TypeOK, Counted
<1> SUFFICES ASSUME TypeOK, Counted, [Next]_vars PROVE TypeOK'
    OBVIOUS
<1>1. ASSUME NEW r \in Requests, Try(r) PROVE TypeOK'
    <2>1. mishaps' \subseteq Mishaps BY <1>1 DEF Try
    <2>2. at' \in [Requests -> Places] /\ upstream' \subseteq Requests BY <1>1 DEF Try
    <2>3. regular' \subseteq Requests /\ live' \subseteq LiveRequests /\ lost' \subseteq Requests BY <1>1 DEF Try
    <2>4. wait' \in 0 .. QueueLimit BY <1>1 DEF Try
    <2>5. faults' \in 0 .. MaxFaults BY <1>1 DEF Try
    <2>6. process' = process BY <1>1 DEF Try
    <2> QED BY <2>1, <2>2, <2>3, <2>4, <2>5, <2>6
<1>2. ASSUME NEW r \in Requests, Enter(r) PROVE TypeOK'
    <2>1. mishaps' \subseteq Mishaps BY <1>2 DEF Enter, MayWait
    <2>2. at' \in [Requests -> Places] /\ upstream' \subseteq Requests BY <1>2 DEF Enter, MayWait
    <2>3. regular' \subseteq Requests /\ live' \subseteq LiveRequests /\ lost' \subseteq Requests BY <1>2 DEF Enter, MayWait
    <2>4. wait' \in 0 .. QueueLimit BY <1>2 DEF Enter, MayWait
    <2>5. faults' \in 0 .. MaxFaults BY <1>2 DEF Enter, MayWait
    <2>6. process' = process BY <1>2 DEF Enter, MayWait
    <2> QED BY <2>1, <2>2, <2>3, <2>4, <2>5, <2>6
<1>3. ASSUME NEW r \in Requests, GiveUp(r) PROVE TypeOK' BY <1>3 DEF GiveUp
<1>4. ASSUME NEW r \in Requests, Leave(r) PROVE TypeOK'
    <2>1. mishaps' \subseteq Mishaps BY <1>4 DEF Leave, Subtracts
    <2>2. at' \in [Requests -> Places] /\ upstream' \subseteq Requests BY <1>4 DEF Leave, Subtracts
    <2>3. regular' \subseteq Requests /\ live' \subseteq LiveRequests /\ lost' \subseteq Requests BY <1>4 DEF Leave, Subtracts
    <2>4. wait' \in 0 .. QueueLimit BY <1>4 DEF Leave, Subtracts
    <2>5. faults' \in 0 .. MaxFaults BY <1>4 DEF Leave, Subtracts
    <2>6. process' = process BY <1>4 DEF Leave, Subtracts
    <2> QED BY <2>1, <2>2, <2>3, <2>4, <2>5, <2>6
<1>5. ASSUME NEW r \in Requests, Finish(r) PROVE TypeOK'
    <2>1. mishaps' \subseteq Mishaps BY <1>5 DEF Finish
    <2>2. at' \in [Requests -> Places] /\ upstream' \subseteq Requests BY <1>5 DEF Finish
    <2>3. regular' \subseteq Requests /\ live' \subseteq LiveRequests /\ lost' \subseteq Requests BY <1>5 DEF Finish
    <2>4. wait' \in 0 .. QueueLimit BY <1>5 DEF Finish
    <2>5. faults' \in 0 .. MaxFaults BY <1>5 DEF Finish
    <2>6. process' = process BY <1>5 DEF Finish
    <2> QED BY <2>1, <2>2, <2>3, <2>4, <2>5, <2>6
<1>6. ASSUME NEW r \in Requests, Drain(r) PROVE TypeOK' BY <1>6 DEF Drain
<1>7. ASSUME NEW r \in Requests, Release(r) PROVE TypeOK'
    <2>1. mishaps' \subseteq Mishaps BY <1>7 DEF Release, Gone, NotGone
    <2>2. at' \in [Requests -> Places] /\ upstream' \subseteq Requests BY <1>7 DEF Release, Gone, NotGone
    <2>3. regular' \subseteq Requests /\ live' \subseteq LiveRequests /\ lost' \subseteq Requests BY <1>7 DEF Release, Gone, NotGone
    <2>4. wait' \in 0 .. QueueLimit BY <1>7 DEF Release, Gone, NotGone
    <2>5. faults' \in 0 .. MaxFaults BY <1>7 DEF Release, Gone, NotGone
    <2>6. process' = process BY <1>7 DEF Release, Gone, NotGone
    <2> QED BY <2>1, <2>2, <2>3, <2>4, <2>5, <2>6
<1>8. ASSUME NEW r \in Requests, Lease(r) PROVE TypeOK'
    <2>1. mishaps' \subseteq Mishaps BY <1>8 DEF Lease, MayLease
    <2>2. at' \in [Requests -> Places] /\ upstream' \subseteq Requests BY <1>8 DEF Lease, MayLease
    <2>3. regular' \subseteq Requests /\ live' \subseteq LiveRequests /\ lost' \subseteq Requests BY <1>8 DEF Lease, MayLease
    <2>4. wait' \in 0 .. QueueLimit BY <1>8 DEF Lease, MayLease
    <2>5. faults' \in 0 .. MaxFaults BY <1>8 DEF Lease, MayLease
    <2>6. process' = process BY <1>8 DEF Lease, MayLease
    <2> QED BY <2>1, <2>2, <2>3, <2>4, <2>5, <2>6
<1>9. ASSUME NEW r \in Requests, Create(r) PROVE TypeOK' BY <1>9 DEF Create
<1>10. ASSUME NEW r \in Requests, Swap(r) PROVE TypeOK'
    <2>1. mishaps' \subseteq Mishaps BY <1>10 DEF Swap, Gone, NotGone
    <2>2. at' \in [Requests -> Places] /\ upstream' \subseteq Requests BY <1>10 DEF Swap, Gone, NotGone
    <2>3. regular' \subseteq Requests /\ live' \subseteq LiveRequests /\ lost' \subseteq Requests BY <1>10 DEF Swap, Gone, NotGone
    <2>4. wait' \in 0 .. QueueLimit BY <1>10 DEF Swap, Gone, NotGone
    <2>5. faults' \in 0 .. MaxFaults BY <1>10 DEF Swap, Gone, NotGone
    <2>6. process' = process BY <1>10 DEF Swap, Gone, NotGone
    <2> QED BY <2>1, <2>2, <2>3, <2>4, <2>5, <2>6
<1>11. ASSUME NEW r \in Requests, EndSession(r) PROVE TypeOK' BY <1>11 DEF EndSession
<1>12. ASSUME NEW r \in Requests, Unlease(r) PROVE TypeOK'
    <2>1. mishaps' \subseteq Mishaps BY <1>12 DEF Unlease
    <2>2. at' \in [Requests -> Places] /\ upstream' \subseteq Requests BY <1>12 DEF Unlease
    <2>3. regular' \subseteq Requests /\ live' \subseteq LiveRequests /\ lost' \subseteq Requests BY <1>12 DEF Unlease
    <2>4. wait' \in 0 .. QueueLimit BY <1>12 DEF Unlease
    <2>5. faults' \in 0 .. MaxFaults BY <1>12 DEF Unlease
    <2>6. process' = process BY <1>12 DEF Unlease
    <2> QED BY <2>1, <2>2, <2>3, <2>4, <2>5, <2>6
<1>13. ASSUME NEW r \in Requests, SlotExpires(r) PROVE TypeOK'
    <2>1. mishaps' \subseteq Mishaps BY <1>13 DEF SlotExpires
    <2>2. at' \in [Requests -> Places] /\ upstream' \subseteq Requests BY <1>13 DEF SlotExpires
    <2>3. regular' \subseteq Requests /\ live' \subseteq LiveRequests /\ lost' \subseteq Requests BY <1>13 DEF SlotExpires
    <2>4. wait' \in 0 .. QueueLimit BY <1>13 DEF SlotExpires
    <2>5. faults' \in 0 .. MaxFaults BY <1>13 DEF SlotExpires
    <2>6. process' = process BY <1>13 DEF SlotExpires
    <2> QED BY <2>1, <2>2, <2>3, <2>4, <2>5, <2>6
<1>14. ASSUME NEW r \in Requests, LeaseExpires(r) PROVE TypeOK'
    <2>1. mishaps' \subseteq Mishaps BY <1>14 DEF LeaseExpires
    <2>2. at' \in [Requests -> Places] /\ upstream' \subseteq Requests BY <1>14 DEF LeaseExpires
    <2>3. regular' \subseteq Requests /\ live' \subseteq LiveRequests /\ lost' \subseteq Requests BY <1>14 DEF LeaseExpires
    <2>4. wait' \in 0 .. QueueLimit BY <1>14 DEF LeaseExpires
    <2>5. faults' \in 0 .. MaxFaults BY <1>14 DEF LeaseExpires
    <2>6. process' = process BY <1>14 DEF LeaseExpires
    <2> QED BY <2>1, <2>2, <2>3, <2>4, <2>5, <2>6
<1>15. ASSUME NEW p \in Processes, Crash(p) PROVE TypeOK' BY <1>15 DEF Crash
<1>16. ASSUME NEW p \in Processes, CleanSlots(p) PROVE TypeOK' BY <1>16 DEF CleanSlots
<1>17. ASSUME NEW p \in Processes, CleanWait(p) PROVE TypeOK'
    <2>1. mishaps' \subseteq Mishaps BY <1>17 DEF CleanWait
    <2>2. UNCHANGED <<regular, live, at, upstream, lost, faults>>
             /\ process' \in [Processes -> {"up", "down", "wait"}] /\ wait' \in 0 .. QueueLimit
        BY <1>17 DEF CleanWait
    <2> QED BY <2>1, <2>2
<1>18. CASE WaitExpires
    <2>1. mishaps' \subseteq Mishaps BY <1>18 DEF WaitExpires
    <2>2. UNCHANGED <<regular, live, at, upstream, process, lost, faults>> /\ wait' = 0
        BY <1>18 DEF WaitExpires
    <2> QED BY <2>1, <2>2
<1>19. CASE UNCHANGED vars BY <1>19 DEF vars
<1> QED BY <1>1, <1>2, <1>3, <1>4, <1>5, <1>6, <1>7, <1>8, <1>9, <1>10, <1>11, <1>12, <1>13, <1>14, <1>15, <1>16, <1>17, <1>18, <1>19 DEF Next, Step

\* What a request goes through tells where it is counted.
LEMMA NextCounted == TypeOK /\ Counted /\ ServedIsCounted /\ [Next]_vars => (Counted /\ ServedIsCounted)'
<1> USE DEF TypeOK, Counted, ServedIsCounted
<1> SUFFICES ASSUME TypeOK, Counted, ServedIsCounted, [Next]_vars PROVE (Counted /\ ServedIsCounted)'
    OBVIOUS
<1>1. ASSUME NEW r \in Requests, Try(r) PROVE (Counted /\ ServedIsCounted)' BY <1>1 DEF Try
<1>2. ASSUME NEW r \in Requests, Enter(r) PROVE (Counted /\ ServedIsCounted)' BY <1>2 DEF Enter, MayWait
<1>3. ASSUME NEW r \in Requests, GiveUp(r) PROVE (Counted /\ ServedIsCounted)' BY <1>3 DEF GiveUp
<1>4. ASSUME NEW r \in Requests, Leave(r) PROVE (Counted /\ ServedIsCounted)' BY <1>4 DEF Leave, Subtracts
<1>5. ASSUME NEW r \in Requests, Finish(r) PROVE (Counted /\ ServedIsCounted)' BY <1>5 DEF Finish
<1>6. ASSUME NEW r \in Requests, Drain(r) PROVE (Counted /\ ServedIsCounted)' BY <1>6 DEF Drain
<1>7. ASSUME NEW r \in Requests, Release(r) PROVE (Counted /\ ServedIsCounted)' BY <1>7 DEF Release, Gone, NotGone
<1>8. ASSUME NEW r \in Requests, Lease(r) PROVE (Counted /\ ServedIsCounted)' BY <1>8 DEF Lease, MayLease
<1>9. ASSUME NEW r \in Requests, Create(r) PROVE (Counted /\ ServedIsCounted)' BY <1>9 DEF Create
<1>10. ASSUME NEW r \in Requests, Swap(r) PROVE (Counted /\ ServedIsCounted)' BY <1>10 DEF Swap, Gone, NotGone
<1>11. ASSUME NEW r \in Requests, EndSession(r) PROVE (Counted /\ ServedIsCounted)' BY <1>11 DEF EndSession
<1>12. ASSUME NEW r \in Requests, Unlease(r) PROVE (Counted /\ ServedIsCounted)' BY <1>12 DEF Unlease
<1>13. ASSUME NEW r \in Requests, SlotExpires(r) PROVE (Counted /\ ServedIsCounted)' BY <1>13 DEF SlotExpires
<1>14. ASSUME NEW r \in Requests, LeaseExpires(r) PROVE (Counted /\ ServedIsCounted)' BY <1>14 DEF LeaseExpires
<1>15. ASSUME NEW p \in Processes, Crash(p) PROVE (Counted /\ ServedIsCounted)' BY <1>15 DEF Crash
<1>16. ASSUME NEW p \in Processes, CleanSlots(p) PROVE (Counted /\ ServedIsCounted)' BY <1>16 DEF CleanSlots
<1>17. ASSUME NEW p \in Processes, CleanWait(p) PROVE (Counted /\ ServedIsCounted)' BY <1>17 DEF CleanWait
<1>18. CASE WaitExpires BY <1>18 DEF WaitExpires
<1>19. CASE UNCHANGED vars BY <1>19 DEF vars
<1> QED BY <1>1, <1>2, <1>3, <1>4, <1>5, <1>6, <1>7, <1>8, <1>9, <1>10, <1>11, <1>12, <1>13, <1>14, <1>15, <1>16, <1>17, <1>18, <1>19 DEF Next, Step

\* A slot needs room for one more, a lease its slot or, when a cleanup took that, the
\* one place beyond the limit that leases are allowed.
LEMMA NextHeld == TypeOK /\ Counted /\ HeldWithinLimit /\ [Next]_vars => HeldWithinLimit'
<1> USE DEF TypeOK, HeldWithinLimit, Limit
<1> SUFFICES ASSUME TypeOK, Counted, HeldWithinLimit, [Next]_vars PROVE HeldWithinLimit'
    OBVIOUS
<1>a. IsFiniteSet(regular) /\ IsFiniteSet(live) /\ IsFiniteSet(LiveRequests)
    BY FS_Subset
<1>b. /\ IsFiniteSet(regular \cup live) /\ Cardinality(regular \cup live) \in Nat
      /\ Cardinality(regular \cup live) <= Cardinality(regular) + Cardinality(live)
    BY <1>a, UnionFits
<1>c. Cardinality(regular) \in Nat /\ Cardinality(live) \in Nat
    BY <1>a, FS_CardinalityType
<1>d. ASSUME (regular' \cup live') \subseteq (regular \cup live), mishaps \subseteq mishaps'
      PROVE  HeldWithinLimit'
    <2>1. Cardinality(regular' \cup live') \in Nat
             /\ Cardinality(regular' \cup live') <= Cardinality(regular \cup live)
        BY <1>b, <1>d, FS_Subset, FS_CardinalityType
    <2> QED BY <2>1, <1>b, <1>d
<1>1. ASSUME NEW r \in Requests, Try(r) PROVE HeldWithinLimit'
    <2>1. CASE regular' \cup live' = regular \cup live
        BY <2>1, <1>1 DEF Try
    <2>2. CASE HasRoom /\ regular' \cup live' = (regular \cup live) \cup {r}
        <3>1. /\ Cardinality((regular \cup live) \cup {r}) \in Nat
              /\ Cardinality((regular \cup live) \cup {r}) <= Cardinality(regular \cup live) + 1
            BY <1>b, OneMore
        <3>2. Cardinality((regular \cup live) \cup {r}) <= Max
            BY <2>2, <3>1, <1>b, <1>c DEF HasRoom, InUse
        <3>3. Cardinality(regular' \cup live') = Cardinality((regular \cup live) \cup {r})
            BY <2>2
        <3> QED BY <3>1, <3>2, <3>3
    <2>3. (regular' \cup live' = regular \cup live)
            \/ (HasRoom /\ regular' \cup live' = (regular \cup live) \cup {r})
        BY <1>1 DEF Try
    <2> QED BY <2>1, <2>2, <2>3
<1>2. ASSUME NEW r \in Requests, Enter(r) PROVE HeldWithinLimit'
    <2>1. (regular' \cup live') \subseteq (regular \cup live) /\ mishaps \subseteq mishaps' BY <1>2 DEF Enter, MayWait
    <2> QED BY <2>1, <1>d
<1>3. ASSUME NEW r \in Requests, GiveUp(r) PROVE HeldWithinLimit'
    <2>1. (regular' \cup live') \subseteq (regular \cup live) /\ mishaps \subseteq mishaps' BY <1>3 DEF GiveUp
    <2> QED BY <2>1, <1>d
<1>4. ASSUME NEW r \in Requests, Leave(r) PROVE HeldWithinLimit'
    <2>1. (regular' \cup live') \subseteq (regular \cup live) /\ mishaps \subseteq mishaps' BY <1>4 DEF Leave, Subtracts
    <2> QED BY <2>1, <1>d
<1>5. ASSUME NEW r \in Requests, Finish(r) PROVE HeldWithinLimit'
    <2>1. (regular' \cup live') \subseteq (regular \cup live) /\ mishaps \subseteq mishaps' BY <1>5 DEF Finish
    <2> QED BY <2>1, <1>d
<1>6. ASSUME NEW r \in Requests, Drain(r) PROVE HeldWithinLimit'
    <2>1. (regular' \cup live') \subseteq (regular \cup live) /\ mishaps \subseteq mishaps' BY <1>6 DEF Drain
    <2> QED BY <2>1, <1>d
<1>7. ASSUME NEW r \in Requests, Release(r) PROVE HeldWithinLimit'
    <2>1. (regular' \cup live') \subseteq (regular \cup live) /\ mishaps \subseteq mishaps' BY <1>7 DEF Release, Gone, NotGone
    <2> QED BY <2>1, <1>d
<1>8. ASSUME NEW r \in Requests, Lease(r) PROVE HeldWithinLimit'
    <2>1. CASE r \in regular
        <3>1. regular' \cup live' = regular \cup live /\ mishaps' = mishaps BY <2>1, <1>8 DEF Lease
        <3> QED BY <3>1
    <2>2. CASE r \notin regular /\ live' = live \cup {r} /\ MayLease
        <3>1. "cleaned" \in mishaps /\ mishaps' = mishaps BY <2>2, <1>8 DEF Lease, Counted
        <3>2. /\ Cardinality((regular \cup live) \cup {r}) \in Nat
              /\ Cardinality((regular \cup live) \cup {r}) <= Cardinality(regular \cup live) + 1
            BY <1>b, OneMore
        <3>3. Cardinality((regular \cup live) \cup {r}) <= Max + 1
            BY <2>2, <3>2, <1>b, <1>c DEF MayLease, InUse
        <3>4. regular' \cup live' = (regular \cup live) \cup {r} BY <2>2, <1>8 DEF Lease
        <3> QED BY <3>1, <3>3, <3>4
    <2>3. CASE UNCHANGED live
        <3>1. (regular' \cup live') \subseteq (regular \cup live) /\ mishaps \subseteq mishaps' BY <2>3, <1>8 DEF Lease
        <3> QED BY <3>1, <1>d
    <2> QED BY <1>8, <2>1, <2>2, <2>3 DEF Lease
<1>9. ASSUME NEW r \in Requests, Create(r) PROVE HeldWithinLimit'
    <2>1. (regular' \cup live') \subseteq (regular \cup live) /\ mishaps \subseteq mishaps' BY <1>9 DEF Create
    <2> QED BY <2>1, <1>d
<1>10. ASSUME NEW r \in Requests, Swap(r) PROVE HeldWithinLimit'
    <2>1. (regular' \cup live') \subseteq (regular \cup live) /\ mishaps \subseteq mishaps' BY <1>10 DEF Swap, Gone, NotGone
    <2> QED BY <2>1, <1>d
<1>11. ASSUME NEW r \in Requests, EndSession(r) PROVE HeldWithinLimit'
    <2>1. (regular' \cup live') \subseteq (regular \cup live) /\ mishaps \subseteq mishaps' BY <1>11 DEF EndSession
    <2> QED BY <2>1, <1>d
<1>12. ASSUME NEW r \in Requests, Unlease(r) PROVE HeldWithinLimit'
    <2>1. (regular' \cup live') \subseteq (regular \cup live) /\ mishaps \subseteq mishaps' BY <1>12 DEF Unlease
    <2> QED BY <2>1, <1>d
<1>13. ASSUME NEW r \in Requests, SlotExpires(r) PROVE HeldWithinLimit'
    <2>1. (regular' \cup live') \subseteq (regular \cup live) /\ mishaps \subseteq mishaps' BY <1>13 DEF SlotExpires
    <2> QED BY <2>1, <1>d
<1>14. ASSUME NEW r \in Requests, LeaseExpires(r) PROVE HeldWithinLimit'
    <2>1. (regular' \cup live') \subseteq (regular \cup live) /\ mishaps \subseteq mishaps' BY <1>14 DEF LeaseExpires
    <2> QED BY <2>1, <1>d
<1>15. ASSUME NEW p \in Processes, Crash(p) PROVE HeldWithinLimit'
    <2>1. (regular' \cup live') \subseteq (regular \cup live) /\ mishaps \subseteq mishaps' BY <1>15 DEF Crash
    <2> QED BY <2>1, <1>d
<1>16. ASSUME NEW p \in Processes, CleanSlots(p) PROVE HeldWithinLimit'
    <2>1. (regular' \cup live') \subseteq (regular \cup live) /\ mishaps \subseteq mishaps' BY <1>16 DEF CleanSlots
    <2> QED BY <2>1, <1>d
<1>17. ASSUME NEW p \in Processes, CleanWait(p) PROVE HeldWithinLimit'
    <2>1. (regular' \cup live') \subseteq (regular \cup live) /\ mishaps \subseteq mishaps' BY <1>17 DEF CleanWait
    <2> QED BY <2>1, <1>d
<1>18. CASE WaitExpires
    <2>1. (regular' \cup live') \subseteq (regular \cup live) /\ mishaps \subseteq mishaps' BY <1>18 DEF WaitExpires
    <2> QED BY <2>1, <1>d
<1>19. CASE UNCHANGED vars
    <2>1. (regular' \cup live') \subseteq (regular \cup live) /\ mishaps \subseteq mishaps' BY <1>19 DEF vars
    <2> QED BY <2>1, <1>d
<1> QED BY <1>1, <1>2, <1>3, <1>4, <1>5, <1>6, <1>7, <1>8, <1>9, <1>10, <1>11, <1>12, <1>13, <1>14, <1>15, <1>16, <1>17, <1>18, <1>19 DEF Next, Step

\* The counter goes with the requests that wait.
LEMMA NextWait == TypeOK /\ WaitIsExact /\ [Next]_vars => WaitIsExact'
<1> USE DEF TypeOK, Waiting
<1> SUFFICES ASSUME TypeOK, WaitIsExact, [Next]_vars PROVE WaitIsExact'
    OBVIOUS
<1>a. IsFiniteSet(Waiting)
    BY FS_Subset
<1>d. Cardinality(Waiting) \in Nat
    BY <1>a, FS_CardinalityType
<1>b. WaitIsExact <=> /\ wait >= Cardinality(Waiting) \/ mishaps \cap {"uncounted", "lapsed"} # {}
                      /\ wait <= Cardinality(Waiting) \/ mishaps \cap {"leaked", "crash"} # {}
    BY DEF WaitIsExact
<1>c. WaitIsExact' <=> /\ wait' >= Cardinality(Waiting') \/ mishaps' \cap {"uncounted", "lapsed"} # {}
                       /\ wait' <= Cardinality(Waiting') \/ mishaps' \cap {"leaked", "crash"} # {}
    BY DEF WaitIsExact
<1>e. Cardinality({}) = 0
    BY FS_EmptySet
<1>1. ASSUME NEW r \in Requests, Try(r) PROVE WaitIsExact'
    <2>1. Waiting' = Waiting /\ wait' = wait /\ mishaps \subseteq mishaps' BY <1>1 DEF Try
    <2> QED BY <1>b, <1>c, <2>1
<1>2. ASSUME NEW r \in Requests, Enter(r) PROVE WaitIsExact'
    <2>1. CASE Waiting' = Waiting \cup {r} /\ wait' = wait + 1 /\ mishaps' = mishaps
        <3>1. r \notin Waiting BY <1>2 DEF Enter
        <3>2. Cardinality(Waiting') = Cardinality(Waiting) + 1 BY <2>1, <3>1, <1>a, OneMore
        <3> QED BY <1>b, <1>c, <1>d, <2>1, <3>2
    <2>2. CASE Waiting' = Waiting /\ wait' = wait /\ mishaps' = mishaps
        BY <1>b, <1>c, <2>2
    <2>3. CASE Waiting' = Waiting \cup {r} /\ wait' = wait /\ mishaps' = mishaps \cup {"uncounted"}
        <3>1. r \notin Waiting BY <1>2 DEF Enter
        <3>2. Cardinality(Waiting') = Cardinality(Waiting) + 1 BY <2>3, <3>1, <1>a, OneMore
        <3> QED BY <1>b, <1>c, <1>d, <2>3, <3>2
    <2> QED BY <1>b, <1>c, <1>2, <2>1, <2>2, <2>3 DEF Enter, MayWait
<1>3. ASSUME NEW r \in Requests, GiveUp(r) PROVE WaitIsExact'
    <2>1. Waiting' = Waiting /\ wait' = wait /\ mishaps \subseteq mishaps' BY <1>3 DEF GiveUp
    <2> QED BY <1>b, <1>c, <2>1
<1>4. ASSUME NEW r \in Requests, Leave(r) PROVE WaitIsExact'
    <2>1. Waiting' = Waiting \ {r} /\ r \in Waiting BY <1>4 DEF Leave
    <2>2. Cardinality(Waiting') = Cardinality(Waiting) - 1 /\ Cardinality(Waiting) > 0
        BY <2>1, <1>a, OneMore
    <2>3. CASE wait' = (IF wait > 0 THEN wait - 1 ELSE wait) /\ mishaps' = mishaps
        BY <1>b, <1>c, <1>d, <2>2, <2>3
    <2>4. CASE wait' = wait /\ mishaps' = mishaps \cup {"leaked"}
        BY <1>b, <1>c, <1>d, <2>2, <2>4
    <2> QED BY <1>b, <1>c, <1>4, <2>3, <2>4 DEF Leave, Subtracts
<1>5. ASSUME NEW r \in Requests, Finish(r) PROVE WaitIsExact'
    <2>1. Waiting' = Waiting /\ wait' = wait /\ mishaps \subseteq mishaps' BY <1>5 DEF Finish
    <2> QED BY <1>b, <1>c, <2>1
<1>6. ASSUME NEW r \in Requests, Drain(r) PROVE WaitIsExact'
    <2>1. Waiting' = Waiting /\ wait' = wait /\ mishaps \subseteq mishaps' BY <1>6 DEF Drain
    <2> QED BY <1>b, <1>c, <2>1
<1>7. ASSUME NEW r \in Requests, Release(r) PROVE WaitIsExact'
    <2>1. Waiting' = Waiting /\ wait' = wait /\ mishaps \subseteq mishaps' BY <1>7 DEF Release, Gone, NotGone
    <2> QED BY <1>b, <1>c, <2>1
<1>8. ASSUME NEW r \in Requests, Lease(r) PROVE WaitIsExact'
    <2>1. Waiting' = Waiting /\ wait' = wait /\ mishaps \subseteq mishaps' BY <1>8 DEF Lease, MayLease
    <2> QED BY <1>b, <1>c, <2>1
<1>9. ASSUME NEW r \in Requests, Create(r) PROVE WaitIsExact'
    <2>1. Waiting' = Waiting /\ wait' = wait /\ mishaps \subseteq mishaps' BY <1>9 DEF Create
    <2> QED BY <1>b, <1>c, <2>1
<1>10. ASSUME NEW r \in Requests, Swap(r) PROVE WaitIsExact'
    <2>1. Waiting' = Waiting /\ wait' = wait /\ mishaps \subseteq mishaps' BY <1>10 DEF Swap, Gone, NotGone
    <2> QED BY <1>b, <1>c, <2>1
<1>11. ASSUME NEW r \in Requests, EndSession(r) PROVE WaitIsExact'
    <2>1. Waiting' = Waiting /\ wait' = wait /\ mishaps \subseteq mishaps' BY <1>11 DEF EndSession
    <2> QED BY <1>b, <1>c, <2>1
<1>12. ASSUME NEW r \in Requests, Unlease(r) PROVE WaitIsExact'
    <2>1. Waiting' = Waiting /\ wait' = wait /\ mishaps \subseteq mishaps' BY <1>12 DEF Unlease
    <2> QED BY <1>b, <1>c, <2>1
<1>13. ASSUME NEW r \in Requests, SlotExpires(r) PROVE WaitIsExact'
    <2>1. Waiting' = Waiting /\ wait' = wait /\ mishaps \subseteq mishaps' BY <1>13 DEF SlotExpires
    <2> QED BY <1>b, <1>c, <2>1
<1>14. ASSUME NEW r \in Requests, LeaseExpires(r) PROVE WaitIsExact'
    <2>1. Waiting' = Waiting /\ wait' = wait /\ mishaps \subseteq mishaps' BY <1>14 DEF LeaseExpires
    <2> QED BY <1>b, <1>c, <2>1
<1>15. ASSUME NEW p \in Processes, Crash(p) PROVE WaitIsExact'
    <2>0. Waiting' \subseteq Waiting /\ wait' = wait /\ mishaps \subseteq mishaps' BY <1>15 DEF Crash
    <2>1. CASE \E r \in Requests : Home[r] = p /\ at[r] \in Queued
        <3>1. "crash" \in mishaps' BY <1>15, <2>1 DEF Crash
        <3>2. Cardinality(Waiting') \in Nat /\ Cardinality(Waiting') <= Cardinality(Waiting)
            BY <1>a, <1>d, <2>0, FS_Subset, FS_CardinalityType
        <3>3. mishaps' \cap {"leaked", "crash"} # {} BY <3>1
        <3>4. CASE wait >= Cardinality(Waiting) BY <1>c, <1>d, <2>0, <3>2, <3>3, <3>4
        <3>5. CASE mishaps \cap {"uncounted", "lapsed"} # {}
            <4>1. mishaps' \cap {"uncounted", "lapsed"} # {} BY <2>0, <3>5
            <4> QED BY <1>c, <3>3, <4>1
        <3> QED BY <1>b, <3>4, <3>5
    <2>2. CASE ~\E r \in Requests : Home[r] = p /\ at[r] \in Queued
        <3>1. Waiting' = Waiting BY <1>15, <2>2 DEF Crash
        <3> QED BY <1>b, <1>c, <2>0, <3>1
    <2> QED BY <2>1, <2>2
<1>16. ASSUME NEW p \in Processes, CleanSlots(p) PROVE WaitIsExact'
    <2>1. Waiting' = Waiting /\ wait' = wait /\ mishaps \subseteq mishaps' BY <1>16 DEF CleanSlots
    <2> QED BY <1>b, <1>c, <2>1
<1>17. ASSUME NEW p \in Processes, CleanWait(p) PROVE WaitIsExact'
    <2>0. Waiting' = Waiting BY <1>17 DEF CleanWait
    <2>1. CASE UNCHANGED <<wait, mishaps>> BY <1>b, <1>c, <2>0, <2>1
    <2>2. CASE wait' = 0 /\ Waiting = {} /\ mishaps \subseteq mishaps'
        <3>1. Cardinality(Waiting') = 0 BY <1>e, <2>0, <2>2
        <3> QED BY <1>b, <1>c, <2>2, <3>1
    <2>3. CASE wait' = 0 /\ mishaps' = mishaps \cup {"uncounted"}
        <3>1. mishaps' \cap {"uncounted", "lapsed"} # {} BY <2>3
        <3>2. wait' <= Cardinality(Waiting') BY <1>d, <2>0, <2>3
        <3> QED BY <1>c, <3>1, <3>2
    <2> QED BY <1>b, <1>c, <1>17, <2>1, <2>2, <2>3 DEF CleanWait
<1>18. CASE WaitExpires
    <2>0. Waiting' = Waiting /\ wait > 0 /\ wait' = 0 /\ mishaps \subseteq mishaps' BY <1>18 DEF WaitExpires
    <2>1. CASE Waiting = {}
        <3>1. Cardinality(Waiting') = 0 BY <1>e, <2>0, <2>1
        <3> QED BY <1>b, <1>c, <2>0, <3>1
    <2>2. CASE Waiting # {}
        <3>1. mishaps' \cap {"uncounted", "lapsed"} # {} BY <1>18, <2>2 DEF WaitExpires
        <3>2. wait' <= Cardinality(Waiting') BY <1>d, <2>0
        <3> QED BY <1>c, <3>1, <3>2
    <2> QED BY <2>1, <2>2
<1>19. CASE UNCHANGED vars
    <2>1. Waiting' = Waiting /\ wait' = wait /\ mishaps \subseteq mishaps' BY <1>19 DEF vars
    <2> QED BY <1>b, <1>c, <2>1
<1> QED BY <1>1, <1>2, <1>3, <1>4, <1>5, <1>6, <1>7, <1>8, <1>9, <1>10, <1>11, <1>12, <1>13, <1>14, <1>15, <1>16, <1>17, <1>18, <1>19 DEF Next, Step

-----------------------------------------------------------------------------

\* The invariant of every run of the system (service/concurrency_service.go).
THEOREM Invariance == Spec => []IInv
<1>1. IInv /\ [Next]_vars => IInv'
    BY NextTypeOK, NextCounted, NextHeld, NextWait DEF IInv
<1> QED BY InitIInv, <1>1, PTL DEF Spec

\* The counter stays within its limit, and slots are the requests'.
THEOREM TypeCorrect == Spec => []TypeOK
<1> IInv => TypeOK BY DEF IInv
<1> QED BY Invariance, PTL

\* Slots and leases are within the limit, a lease counted with the slot it replaces; a
\* cleanup that took living slots adds one at most.
THEOREM LimitIsKept == Spec => []HeldWithinLimit
<1> IInv => HeldWithinLimit BY DEF IInv
<1> QED BY Invariance, PTL

\* What the provider serves has a slot or a lease, but for requests that lost theirs.
THEOREM ServedHavePlaces == Spec => []ServedIsCounted
<1> IInv => ServedIsCounted BY DEF IInv
<1> QED BY Invariance, PTL

\* What the provider serves at a time, but for requests that lost their place, is within
\* the limit: what acquiring a slot before the call is for.
ServedWithinLimit == Cardinality(upstream \ lost) <= Limit

THEOREM ServiceIsLimited == Spec => []ServedWithinLimit
<1>1. ASSUME IInv PROVE ServedWithinLimit
    <2>1. IsFiniteSet(regular \cup live)
        BY <1>1, FS_Subset, FS_Union DEF IInv, TypeOK
    <2>2. upstream \ lost \subseteq regular \cup live
        BY <1>1 DEF IInv, ServedIsCounted
    <2>3. /\ Cardinality(upstream \ lost) \in Nat /\ Cardinality(regular \cup live) \in Nat
          /\ Cardinality(upstream \ lost) <= Cardinality(regular \cup live)
        BY <2>1, <2>2, FS_Subset, FS_CardinalityType
    <2>4. Cardinality(regular \cup live) <= Limit /\ Limit \in Nat
        BY <1>1 DEF IInv, HeldWithinLimit, Limit
    <2> QED BY <2>3, <2>4 DEF ServedWithinLimit
<1>2. IInv => ServedWithinLimit BY <1>1
<1> QED BY Invariance, <1>2, PTL

\* The wait counter counts those who wait.
THEOREM WaitStaysExact == Spec => []WaitIsExact
<1> IInv => WaitIsExact BY DEF IInv
<1> QED BY Invariance, PTL

=============================================================================
