-------------------------- MODULE IdempotencyProofs --------------------------
(***************************************************************************)
(* Idempotency keys, for any number of requests, fingerprints and times.   *)
(*                                                                         *)
(* A record keeps its id for life, so a request that claimed it or read it *)
(* knows its fingerprint (Keyed): what is stored by id is stored under the *)
(* right payload (Stored).  Until the clock reaches TTL no record expires, *)
(* and the record's status then says whether anybody executes or has       *)
(* executed (OneOwner).                                                    *)
(***************************************************************************)
EXTENDS Idempotency, TLAPS

Clocked == \A r \in Requests : now[r] <= clock

\* A record has an id and lives for a TTL at least.
Living == status # "none" => id >= 1 /\ expires >= TTL

\* Whoever claimed the record, or means to reclaim it, asks for what it is for.
Keyed ==
    \A r \in Requests :
        /\ rid[r] <= lastId /\ seen[r].id <= lastId
        /\ rid[r] = id /\ id >= 1 => asks[r] = print
        /\ pc[r] \in {"expired", "reclaim"} /\ seen[r].id = id /\ id >= 1 => asks[r] = print

\* What a request's next step says of its execution and of what it read.
Placed ==
    \A r \in Requests :
        /\ pc[r] = "succeed" => ran[r] = "ok"
        /\ pc[r] = "fail" => ran[r] = "error"
        /\ ran[r] = "ok" => pc[r] \in {"succeed", "done"}
        /\ pc[r] = "reclaim" => seen[r].status = "failed_retryable"
        /\ pc[r] \in {"expired", "reread"} => now[r] >= TTL
        /\ answer[r] # "none" => pc[r] = "done"
        /\ got[r] # Nobody => pc[r] = "done"

\* A stored response is that of a successful execution with the record's payload.
Stored ==
    /\ status = "succeeded" => body # Nobody
    /\ body # Nobody => ran[body] = "ok" /\ asks[body] = print

\* In the first lifetime: an executing request owns the processing record, alone, and
\* one that executed successfully leaves no room for another.
OneOwner ==
    clock < TTL =>
        /\ \A r \in Working : status = "processing" /\ rid[r] = id
        /\ \A r \in Requests : ran[r] = "ok" => status \in {"processing", "succeeded"}
        /\ \A r, s \in Requests : r \in Working /\ (s \in Working \/ ran[s] = "ok") => r = s
        /\ \A r, s \in Requests : ran[r] = "ok" /\ ran[s] = "ok" => r = s

IInv == TypeOK /\ Clocked /\ Living /\ Keyed /\ Placed /\ Stored /\ ReplayIsTheirs /\ OneOwner /\ AnsweredIsKept

USE RequestsAssumption, FingerprintsAssumption, TimesAssumption, FaultAssumption
    DEF row, request, told, Prints, Statuses, Answers, Working

LEMMA InitIInv == Init => IInv
<1> SUFFICES ASSUME Init PROVE IInv
    OBVIOUS
<1> USE DEF Init, Unlocked
<1>1. RowOK BY DEF RowOK
<1>2. ClaimsOK /\ RunsOK BY DEF ClaimsOK, RunsOK
<1>3. TypeOK BY <1>1, <1>2 DEF TypeOK
<1>4. Clocked /\ Living /\ Keyed /\ Placed BY DEF Clocked, Living, Keyed, Placed
<1>5. Stored /\ ReplayIsTheirs /\ OneOwner /\ AnsweredIsKept BY DEF Stored, ReplayIsTheirs, OneOwner, AnsweredIsKept
<1> QED BY <1>3, <1>4, <1>5 DEF IInv

\* What a request asks for is one of the fingerprints.
LEMMA AsksType == TypeOK => \A r \in Requests : asks[r] \in Prints
BY DEF TypeOK, ClaimsOK

LEMMA NextIInv == IInv /\ [Next]_vars => IInv'
<1> SUFFICES ASSUME IInv, [Next]_vars PROVE IInv'
    OBVIOUS
<1> USE DEF IInv
<1>1. ASSUME NEW r \in Requests, Start(r) PROVE IInv'
  <2> USE <1>1 DEF TypeOK
  <2>1. RowOK' BY AsksType DEF Start, RowOK
  <2>2. ClaimsOK' BY DEF Start, ClaimsOK
  <2>3. RunsOK' BY DEF Start, Goto, RunsOK
  <2>4. Clocked' BY DEF Start, Clocked
  <2>5. Living' BY DEF Start, Living
  <2>6. Keyed' BY DEF Start, Goto, Keyed
  <2>7. Placed' BY DEF Start, Goto, Placed
  <2>8. Stored' BY DEF Start, Stored
  <2>9. ReplayIsTheirs' BY DEF Start, ReplayIsTheirs
  <2>10. OneOwner' BY DEF Start, Goto, OneOwner
  <2>11. AnsweredIsKept' BY DEF Start, AnsweredIsKept
  <2>12. (clock \in Nat /\ faults \in Nat)' BY DEF Start
  <2> QED BY <2>1, <2>2, <2>3, <2>4, <2>5, <2>6, <2>7, <2>8, <2>9, <2>10, <2>11, <2>12 DEF IInv
<1>2. ASSUME NEW r \in Requests, CreateProcessing(r) PROVE IInv'
  <2> USE <1>2 DEF TypeOK
  <2>1. RowOK' BY AsksType DEF CreateProcessing, Insert, Locked, Expires, Clocked, RowOK, ClaimsOK
  <2>2. ClaimsOK' BY DEF CreateProcessing, Insert, Claim, Locked, ClaimsOK, RowOK
  <2>3. RunsOK' BY DEF CreateProcessing, Insert, Claim, Goto, RunsOK
  <2>4. Clocked' BY DEF CreateProcessing, Insert, Clocked
  <2>5. Living' BY DEF CreateProcessing, Insert, Expires, Living, RowOK, ClaimsOK
  <2>6. Keyed' BY DEF CreateProcessing, Insert, Claim, Goto, Keyed, RowOK, ClaimsOK, RunsOK
  <2>7. Placed' BY DEF CreateProcessing, Insert, Claim, Goto, Placed, RunsOK
  <2>8. Stored' BY DEF CreateProcessing, Insert, Stored
  <2>9. ReplayIsTheirs' BY DEF CreateProcessing, Insert, ReplayIsTheirs
  <2>10. OneOwner' BY DEF CreateProcessing, Insert, Claim, Goto, OneOwner, ClaimsOK, RunsOK
  <2>11. AnsweredIsKept' BY DEF CreateProcessing, Insert, AnsweredIsKept
  <2>12. (clock \in Nat /\ faults \in Nat)' BY DEF CreateProcessing, Insert
  <2> QED BY <2>1, <2>2, <2>3, <2>4, <2>5, <2>6, <2>7, <2>8, <2>9, <2>10, <2>11, <2>12 DEF IInv
<1>3. ASSUME NEW r \in Requests, Read(r) PROVE IInv'
  <2> USE <1>3 DEF TypeOK
  <2>1. RowOK' BY AsksType DEF Read, RowOK
  <2>2. ClaimsOK' BY DEF Read, ClaimsOK, RowOK
  <2>3. RunsOK' BY DEF Read, Decide, Tell, Goto, RunsOK, RowOK
  <2>4. Clocked' BY DEF Read, Clocked
  <2>5. Living' BY DEF Read, Living
  <2>6. Keyed' BY DEF Read, Decide, SamePayload, Tell, Goto, Keyed, RowOK, RunsOK
  <2>7. Placed' BY DEF Read, Decide, SamePayload, Tell, Goto, Placed, Living, RowOK, ClaimsOK, RunsOK
  <2>8. Stored' BY DEF Read, Stored
  <2>9. ReplayIsTheirs' BY DEF Read, Decide, SamePayload, Tell, ReplayIsTheirs, Stored, RowOK, RunsOK
  <2>10. OneOwner' BY DEF Read, Decide, Tell, Goto, OneOwner, RunsOK
  <2>11. AnsweredIsKept' BY DEF Read, Decide, Tell, AnsweredIsKept, RunsOK
  <2>12. (clock \in Nat /\ faults \in Nat)' BY DEF Read
  <2> QED BY <2>1, <2>2, <2>3, <2>4, <2>5, <2>6, <2>7, <2>8, <2>9, <2>10, <2>11, <2>12 DEF IInv
<1>4. ASSUME NEW r \in Requests, TryReclaim(r) PROVE IInv'
  <2> USE <1>4 DEF TypeOK
  <2>1. RowOK' BY AsksType DEF TryReclaim, Reclaims, Reclaimed, Locked, Expires, Clocked, RowOK, ClaimsOK
  <2>2. ClaimsOK' BY DEF TryReclaim, Reclaims, Reclaimed, Reclaimable, Claim, ClaimsOK
  <2>3. RunsOK' BY DEF TryReclaim, Reclaims, Reclaimed, Claim, Tell, Goto, RunsOK
  <2>4. Clocked' BY DEF TryReclaim, Reclaims, Reclaimed, Clocked
  <2>5. Living' BY DEF TryReclaim, Reclaims, Reclaimed, Expires, Living, ClaimsOK
  <2>6. Keyed' BY DEF TryReclaim, Reclaims, Reclaimed, Reclaimable, Claim, Tell, Goto, Keyed, ClaimsOK, RunsOK
  <2>7. Placed' BY DEF TryReclaim, Reclaims, Reclaimed, Claim, Tell, Goto, Placed, RunsOK
  <2>8. Stored' BY DEF TryReclaim, Reclaims, Reclaimed, Stored
  <2>9. ReplayIsTheirs' BY DEF TryReclaim, Reclaims, Reclaimed, Tell, ReplayIsTheirs, RunsOK
  <2>10. OneOwner'
    <3> SUFFICES ASSUME clock < TTL PROVE OneOwner'
        BY DEF OneOwner, TryReclaim
    <3>1. pc[r] = "reclaim" /\ seen[r].status = "failed_retryable" /\ clock' = clock /\ ran' = ran
          BY DEF TryReclaim, Reclaims, Reclaimed, Placed, Clocked, ClaimsOK
    <3>2. CASE status = "failed_retryable" /\ Reclaimable(r, seen[r].status)
      <4>1. Working = {} /\ \A s \in Requests : ran[s] # "ok" BY <3>2 DEF OneOwner
      <4>2. Working' = {r} BY <3>1, <3>2, <4>1 DEF TryReclaim, Reclaims, Reclaimed, Claim, Goto, RunsOK
      <4>3. status' = "processing" /\ id' = id /\ rid'[r] = id
            BY <3>1, <3>2 DEF TryReclaim, Reclaims, Reclaimed, Claim, ClaimsOK
      <4> QED BY <3>1, <4>1, <4>2, <4>3 DEF OneOwner
    <3>3. CASE ~(status = "failed_retryable" /\ Reclaimable(r, seen[r].status))
      <4>1. Working' = Working /\ UNCHANGED <<status, id, rid>>
            BY <3>1, <3>3 DEF TryReclaim, Reclaims, Reclaimed, Reclaimable, Tell, Goto, RunsOK
      <4> QED BY <3>1, <4>1 DEF OneOwner
    <3> QED BY <3>2, <3>3
  <2>11. AnsweredIsKept' BY DEF TryReclaim, Reclaims, Reclaimed, Reclaimable, Tell, AnsweredIsKept, Placed, Clocked, ClaimsOK, RunsOK
  <2>12. (clock \in Nat /\ faults \in Nat)' BY DEF TryReclaim, Reclaims, Reclaimed
  <2> QED BY <2>1, <2>2, <2>3, <2>4, <2>5, <2>6, <2>7, <2>8, <2>9, <2>10, <2>11, <2>12 DEF IInv
<1>5. ASSUME NEW r \in Requests, Execute(r) PROVE IInv'
  <2> USE <1>5 DEF TypeOK
  <2>1. RowOK' BY AsksType DEF Execute, RowOK
  <2>2. ClaimsOK' BY DEF Execute, ClaimsOK
  <2>3. RunsOK' BY DEF Execute, Goto, RunsOK
  <2>4. Clocked' BY DEF Execute, Clocked
  <2>5. Living' BY DEF Execute, Living
  <2>6. Keyed' BY DEF Execute, Goto, Keyed, RunsOK
  <2>7. Placed' BY DEF Execute, Goto, Placed, RunsOK
  <2>8. Stored' BY DEF Execute, Stored, Placed, RowOK, RunsOK
  <2>9. ReplayIsTheirs' BY DEF Execute, ReplayIsTheirs, Placed, RunsOK
  <2>10. OneOwner'
    <3>1. r \in Working /\ Working' = Working BY DEF Execute, Goto, RunsOK
    <3>2. \A s \in Requests : s # r => ran'[s] = ran[s] BY DEF Execute, RunsOK
    <3> QED BY <3>1, <3>2 DEF Execute, OneOwner
  <2>11. AnsweredIsKept' BY DEF Execute, AnsweredIsKept
  <2>12. (clock \in Nat /\ faults \in Nat)' BY DEF Execute
  <2> QED BY <2>1, <2>2, <2>3, <2>4, <2>5, <2>6, <2>7, <2>8, <2>9, <2>10, <2>11, <2>12 DEF IInv
<1>6. ASSUME NEW r \in Requests, Renew(r) PROVE IInv'
  <2> USE <1>6 DEF TypeOK
  <2>1. RowOK' BY AsksType DEF Renew, RowOK
  <2>2. ClaimsOK' BY DEF Renew, ClaimsOK
  <2>3. RunsOK' BY DEF Renew, RunsOK
  <2>4. Clocked' BY DEF Renew, Clocked
  <2>5. Living' BY DEF Renew, Living
  <2>6. Keyed' BY DEF Renew, Keyed
  <2>7. Placed' BY DEF Renew, Placed
  <2>8. Stored' BY DEF Renew, Stored
  <2>9. ReplayIsTheirs' BY DEF Renew, ReplayIsTheirs
  <2>10. OneOwner' BY DEF Renew, OneOwner
  <2>11. AnsweredIsKept' BY DEF Renew, AnsweredIsKept
  <2>12. (clock \in Nat /\ faults \in Nat)' BY DEF Renew
  <2> QED BY <2>1, <2>2, <2>3, <2>4, <2>5, <2>6, <2>7, <2>8, <2>9, <2>10, <2>11, <2>12 DEF IInv
<1>7. ASSUME NEW r \in Requests, MarkSucceeded(r) PROVE IInv'
  <2> USE <1>7 DEF TypeOK
  <2>1. RowOK' BY AsksType DEF MarkSucceeded, StoreAnswer, StoredUntil, Expires, Unlocked, Clocked, RowOK, ClaimsOK
  <2>2. ClaimsOK' BY DEF MarkSucceeded, StoreAnswer, ClaimsOK
  <2>3. RunsOK' BY DEF MarkSucceeded, StoreAnswer, Tell, Goto, RunsOK
  <2>4. Clocked' BY DEF MarkSucceeded, StoreAnswer, Clocked
  <2>5. Living' BY DEF MarkSucceeded, StoreAnswer, Own, StoredUntil, Expires, Living, ClaimsOK
  <2>6. Keyed' BY DEF MarkSucceeded, StoreAnswer, Tell, Goto, Keyed
  <2>7. Placed' BY DEF MarkSucceeded, StoreAnswer, Tell, Goto, Placed, RunsOK
  <2>8. Stored' BY DEF MarkSucceeded, StoreAnswer, Own, Stored, Keyed, Placed, Living
  <2>9. ReplayIsTheirs' BY DEF MarkSucceeded, StoreAnswer, Tell, ReplayIsTheirs, Placed
  <2>10. OneOwner' BY DEF MarkSucceeded, StoreAnswer, Tell, Goto, OneOwner, RunsOK
  <2>11. AnsweredIsKept' BY DEF MarkSucceeded, StoreAnswer, Own, Tell, AnsweredIsKept, OneOwner
  <2>12. (clock \in Nat /\ faults \in Nat)' BY DEF MarkSucceeded, StoreAnswer
  <2> QED BY <2>1, <2>2, <2>3, <2>4, <2>5, <2>6, <2>7, <2>8, <2>9, <2>10, <2>11, <2>12 DEF IInv
<1>8. ASSUME NEW r \in Requests, MarkFailed(r) PROVE IInv'
  <2> USE <1>8 DEF TypeOK
  <2>1. RowOK' BY AsksType DEF MarkFailed, StoredUntil, Expires, Clocked, RowOK, ClaimsOK
  <2>2. ClaimsOK' BY DEF MarkFailed, ClaimsOK
  <2>3. RunsOK' BY DEF MarkFailed, Tell, Goto, RunsOK
  <2>4. Clocked' BY DEF MarkFailed, Clocked
  <2>5. Living' BY DEF MarkFailed, Own, StoredUntil, Expires, Living, ClaimsOK
  <2>6. Keyed' BY DEF MarkFailed, Tell, Goto, Keyed
  <2>7. Placed' BY DEF MarkFailed, Tell, Goto, Placed, RunsOK
  <2>8. Stored' BY DEF MarkFailed, Stored
  <2>9. ReplayIsTheirs' BY DEF MarkFailed, Tell, ReplayIsTheirs, Placed
  <2>10. OneOwner' BY DEF MarkFailed, Tell, Goto, OneOwner, Placed, RunsOK
  <2>11. AnsweredIsKept' BY DEF MarkFailed, Tell, AnsweredIsKept, OneOwner
  <2>12. (clock \in Nat /\ faults \in Nat)' BY DEF MarkFailed
  <2> QED BY <2>1, <2>2, <2>3, <2>4, <2>5, <2>6, <2>7, <2>8, <2>9, <2>10, <2>11, <2>12 DEF IInv
<1>9. ASSUME NEW r \in Requests, StoreFails(r) PROVE IInv'
  <2> USE <1>9 DEF TypeOK
  <2>1. RowOK' BY AsksType DEF StoreFails, RowOK
  <2>2. ClaimsOK' BY DEF StoreFails, ClaimsOK
  <2>3. RunsOK' BY DEF StoreFails, Tell, Goto, RunsOK
  <2>4. Clocked' BY DEF StoreFails, Clocked
  <2>5. Living' BY DEF StoreFails, Living
  <2>6. Keyed' BY DEF StoreFails, Tell, Goto, Keyed
  <2>7. Placed' BY DEF StoreFails, Tell, Goto, Placed, RunsOK
  <2>8. Stored' BY DEF StoreFails, Stored
  <2>9. ReplayIsTheirs' BY DEF StoreFails, Tell, ReplayIsTheirs, Placed
  <2>10. OneOwner' BY DEF StoreFails, Tell, Goto, OneOwner
  <2>11. AnsweredIsKept' BY DEF StoreFails, Tell, AnsweredIsKept
  <2>12. (clock \in Nat /\ faults \in Nat)' BY DEF StoreFails, Fault
  <2> QED BY <2>1, <2>2, <2>3, <2>4, <2>5, <2>6, <2>7, <2>8, <2>9, <2>10, <2>11, <2>12 DEF IInv
<1>10. ASSUME NEW r \in Requests, Crash(r) PROVE IInv'
  <2> USE <1>10 DEF TypeOK
  <2>1. RowOK' BY AsksType DEF Crash, RowOK
  <2>2. ClaimsOK' BY DEF Crash, ClaimsOK
  <2>3. RunsOK' BY DEF Crash, Goto, RunsOK
  <2>4. Clocked' BY DEF Crash, Clocked
  <2>5. Living' BY DEF Crash, Living
  <2>6. Keyed' BY DEF Crash, Goto, Keyed
  <2>7. Placed' BY DEF Crash, Goto, Placed
  <2>8. Stored' BY DEF Crash, Stored
  <2>9. ReplayIsTheirs' BY DEF Crash, ReplayIsTheirs
  <2>10. OneOwner' BY DEF Crash, Goto, OneOwner
  <2>11. AnsweredIsKept' BY DEF Crash, AnsweredIsKept
  <2>12. (clock \in Nat /\ faults \in Nat)' BY DEF Crash, Fault
  <2> QED BY <2>1, <2>2, <2>3, <2>4, <2>5, <2>6, <2>7, <2>8, <2>9, <2>10, <2>11, <2>12 DEF IInv
<1>11. CASE DeleteExpired
  <2> USE <1>11 DEF TypeOK
  <2>1. RowOK' BY AsksType DEF DeleteExpired, RowOK
  <2>2. ClaimsOK' BY DEF DeleteExpired, ClaimsOK
  <2>3. RunsOK' BY DEF DeleteExpired, RunsOK
  <2>4. Clocked' BY DEF DeleteExpired, Clocked
  <2>5. Living' BY DEF DeleteExpired, Living
  <2>6. Keyed' BY DEF DeleteExpired, Keyed
  <2>7. Placed' BY DEF DeleteExpired, Placed
  <2>8. Stored' BY DEF DeleteExpired, Stored
  <2>9. ReplayIsTheirs' BY DEF DeleteExpired, ReplayIsTheirs
  <2>10. OneOwner' BY DEF DeleteExpired, OneOwner, Living, RowOK
  <2>11. AnsweredIsKept' BY DEF DeleteExpired, AnsweredIsKept, Living, RowOK
  <2>12. (clock \in Nat /\ faults \in Nat)' BY DEF DeleteExpired
  <2> QED BY <2>1, <2>2, <2>3, <2>4, <2>5, <2>6, <2>7, <2>8, <2>9, <2>10, <2>11, <2>12 DEF IInv
<1>12. CASE TimePasses
  <2> USE <1>12 DEF TypeOK
  <2>1. RowOK' BY AsksType DEF TimePasses, RowOK
  <2>2. ClaimsOK' BY DEF TimePasses, ClaimsOK
  <2>3. RunsOK' BY DEF TimePasses, RunsOK
  <2>4. Clocked' BY DEF TimePasses, Clocked, ClaimsOK
  <2>5. Living' BY DEF TimePasses, Living
  <2>6. Keyed' BY DEF TimePasses, Keyed
  <2>7. Placed' BY DEF TimePasses, Placed
  <2>8. Stored' BY DEF TimePasses, Stored
  <2>9. ReplayIsTheirs' BY DEF TimePasses, ReplayIsTheirs
  <2>10. OneOwner' BY DEF TimePasses, OneOwner
  <2>11. AnsweredIsKept' BY DEF TimePasses, AnsweredIsKept
  <2>12. (clock \in Nat /\ faults \in Nat)' BY DEF TimePasses
  <2> QED BY <2>1, <2>2, <2>3, <2>4, <2>5, <2>6, <2>7, <2>8, <2>9, <2>10, <2>11, <2>12 DEF IInv
<1>13. CASE UNCHANGED vars
  BY <1>13 DEF vars, TypeOK, RowOK, ClaimsOK, RunsOK, Clocked, Living, Keyed, Placed, Stored, ReplayIsTheirs, OneOwner, AnsweredIsKept
<1>14. ASSUME NEW r \in Requests, AnswerLost(r) PROVE IInv'
  <2> USE <1>14 DEF TypeOK
  <2>0. clock' = clock /\ rid' = rid /\ seen' = seen /\ ran' = ran /\ asks' = asks /\ now' = now
        BY DEF AnswerLost
  <2>1. RowOK'
    <3>1. CASE Insert(r)
          BY <3>1, AsksType DEF AnswerLost, Insert, Locked, Expires, Clocked, RowOK, ClaimsOK
    <3>2. CASE Reclaimed(r) /\ UNCHANGED lastId
          BY <3>2, AsksType DEF AnswerLost, Reclaimed, Locked, Expires, Clocked, RowOK, ClaimsOK
    <3>3. CASE StoreAnswer(r) /\ UNCHANGED lastId
          BY <3>3, AsksType DEF AnswerLost, StoreAnswer, StoredUntil, Expires, Unlocked, Clocked, RowOK, ClaimsOK
    <3> QED BY <3>1, <3>2, <3>3 DEF AnswerLost
  <2>2. ClaimsOK' BY DEF AnswerLost, ClaimsOK
  <2>3. RunsOK' BY DEF AnswerLost, Tell, Goto, RunsOK
  <2>4. Clocked' BY DEF AnswerLost, Clocked
  <2>5. Living'
        BY DEF AnswerLost, Insert, Reclaimed, Reclaims, StoreAnswer, Own, StoredUntil, Expires, Living,
               RowOK, ClaimsOK
  <2>6. Keyed'
        BY DEF AnswerLost, Insert, Reclaimed, StoreAnswer, Tell, Goto, Keyed, RowOK, ClaimsOK, RunsOK
  <2>7. Placed' BY DEF AnswerLost, Tell, Goto, Placed, RunsOK
  <2>8. Stored'
        BY DEF AnswerLost, Insert, Reclaimed, StoreAnswer, Own, Stored, Keyed, Placed, Living
  <2>9. ReplayIsTheirs'
    <3>1. \A s \in Requests : answer'[s] = "replayed" => answer[s] = "replayed" /\ s # r
          BY DEF AnswerLost, Tell, RunsOK
    <3>2. \A s \in Requests : s # r => got'[s] = got[s] BY DEF AnswerLost, Tell, RunsOK
    <3> QED BY <2>0, <3>1, <3>2 DEF ReplayIsTheirs
  <2>10. OneOwner'
    <3> SUFFICES ASSUME clock < TTL PROVE OneOwner'
        BY <2>0 DEF OneOwner
    <3>1. Working' = Working \ {r} BY DEF AnswerLost, Tell, Goto, RunsOK
    <3>2. CASE pc[r] = "create" /\ Insert(r)
      <4>1. Working = {} /\ \A s \in Requests : ran[s] # "ok" BY <3>2 DEF OneOwner, Insert
      <4> QED BY <2>0, <3>1, <4>1 DEF OneOwner
    <3>3. CASE Reclaims(r) /\ Reclaimed(r)
      <4>1. status = "failed_retryable"
            BY <3>3 DEF Reclaims, Reclaimable, Placed, Clocked, ClaimsOK
      <4>2. Working = {} /\ \A s \in Requests : ran[s] # "ok" BY <4>1 DEF OneOwner
      <4> QED BY <2>0, <3>1, <4>2 DEF OneOwner
    <3>4. CASE pc[r] = "succeed" /\ StoreAnswer(r)
          BY <2>0, <3>1, <3>4 DEF OneOwner, StoreAnswer
    <3> QED BY <3>2, <3>3, <3>4 DEF AnswerLost
  <2>11. AnsweredIsKept'
    <3> SUFFICES ASSUME clock < TTL, NEW s \in Requests, answer'[s] = "data"
                 PROVE  (status = "succeeded" /\ body = s)'
        BY <2>0 DEF AnsweredIsKept
    <3>1. answer[s] = "data" /\ status = "succeeded" /\ body = s
          BY DEF AnswerLost, Tell, RunsOK, AnsweredIsKept
    <3>2. ~Insert(r) BY <3>1 DEF Insert
    <3>3. ~Reclaims(r) BY <3>1 DEF Reclaims, Reclaimable, Placed, Clocked, ClaimsOK
    <3>4. pc[r] = "succeed" /\ r \in Working BY <3>2, <3>3 DEF AnswerLost
    <3> QED BY <3>1, <3>4 DEF OneOwner
  <2>12. (clock \in Nat /\ faults \in Nat)' BY DEF AnswerLost, Fault
  <2> QED BY <2>1, <2>2, <2>3, <2>4, <2>5, <2>6, <2>7, <2>8, <2>9, <2>10, <2>11, <2>12 DEF IInv
<1> QED BY <1>1, <1>2, <1>3, <1>4, <1>5, <1>6, <1>7, <1>8, <1>9, <1>10, <1>11, <1>12, <1>13, <1>14 DEF Next, Step

-----------------------------------------------------------------------------
(* Theorems.                                                               *)

\* IInv holds in every reachable state: the basis of the theorems below.
THEOREM IdempotencyInvariance == Spec => []IInv
BY InitIInv, NextIInv, PTL DEF Spec

\* Every variable keeps its type; no record is to live longer than a TTL from now.
THEOREM RecordTypes == Spec => []TypeOK
<1>1. IInv => TypeOK BY DEF IInv
<1> QED BY IdempotencyInvariance, <1>1, PTL

\* Whatever fails, until a first record may expire the requests of a key execute one
\* at a time and succeed at most once.
THEOREM ExecutesOnce == Spec => []OncePerLifetime
<1>1. IInv => OncePerLifetime BY DEF IInv, OneOwner, OncePerLifetime
<1> QED BY IdempotencyInvariance, <1>1, PTL

\* The response of the execution that succeeded remains the key's response.
THEOREM AnswerStays == Spec => []AnsweredIsKept
<1>1. IInv => AnsweredIsKept BY DEF IInv
<1> QED BY IdempotencyInvariance, <1>1, PTL

\* A replayed response belongs to a successful execution of the same payload, at all
\* times: across expiry, deletion and reclaims.
THEOREM ReplaysTheirs == Spec => []ReplayIsTheirs
<1>1. IInv => ReplayIsTheirs BY DEF IInv
<1> QED BY IdempotencyInvariance, <1>1, PTL

-----------------------------------------------------------------------------
(* The key keeps IdempotencyPromise.                                       *)

\* The promise starts where the key does.
LEMMA PromiseInit == Init => Promise!Init
BY DEF Init, Promise!Init, Succeeded, Answer

\* A step that changes none of what the promise speaks of.
Quiet == UNCHANGED <<asks, clock, Working, Succeeded, Answer, got>>

LEMMA QuietStutters == Quiet => UNCHANGED Promise!vars
<1> SUFFICES ASSUME Quiet PROVE UNCHANGED Promise!vars
    OBVIOUS
<1>1. (clock >= TTL)' <=> clock >= TTL BY DEF Quiet
<1>2. UNCHANGED (clock >= TTL) BY <1>1
<1> QED BY <1>2 DEF Quiet, Promise!vars

\* A request is told something once, when it is done.
LEMMA ToldOnce ==
    ASSUME IInv, NEW r \in Requests, pc[r] # "done"
    PROVE  got[r] = Nobody /\ [got EXCEPT ![r] = Nobody] = got
BY DEF IInv, TypeOK, RunsOK, Placed

\* What a request is told is no answer, or its own or the record's, which was for its
\* payload.
LEMMA ToldWhat ==
    ASSUME IInv, NEW r \in Requests, Step(r)
    PROVE  \/ UNCHANGED got
           \/ MarkSucceeded(r) /\ Promise!Tells(r, r) /\ r \in Succeeded
           \/ Read(r) /\ status = "succeeded" /\ body \in Succeeded /\ Promise!Tells(r, body)
<1> USE DEF IInv, TypeOK, Succeeded
<1>1. CASE Start(r) \/ CreateProcessing(r) \/ Execute(r) \/ Renew(r) \/ Crash(r)
      BY <1>1 DEF Start, CreateProcessing, Execute, Renew, Crash
<1>2. CASE Read(r)
  <2>1. pc[r] # "done" BY <1>2 DEF Read
  <2>2. CASE UNCHANGED got BY <2>2
  <2>3. CASE \E what \in {"unavailable", "conflict", "busy", "backoff"} : Tell(r, what)
        BY <2>1, <2>3, ToldOnce DEF Tell
  <2>4. CASE SamePayload(r) /\ status = "succeeded" /\ Tell(r, "replayed")
    <3>1. body \in Requests /\ ran[body] = "ok" /\ asks[body] = asks[r]
          BY <2>4 DEF Stored, SamePayload, RowOK
    <3>2. got' = [got EXCEPT ![r] = body] BY <2>4 DEF Tell
    <3> QED BY <1>2, <2>1, <2>4, <3>1, <3>2, ToldOnce DEF Promise!Tells
  <2> QED BY <1>2, <2>2, <2>3, <2>4 DEF Read, Decide
<1>3. CASE TryReclaim(r)
      BY <1>3, ToldOnce DEF TryReclaim, Tell
<1>4. CASE MarkSucceeded(r)
  <2>1. pc[r] = "succeed" /\ ran[r] = "ok" BY <1>4 DEF MarkSucceeded, Placed
  <2>2. got' = [got EXCEPT ![r] = r] BY <1>4 DEF MarkSucceeded, Tell
  <2> QED BY <1>4, <2>1, <2>2, ToldOnce DEF Promise!Tells
<1>5. CASE MarkFailed(r) BY <1>5, ToldOnce DEF MarkFailed, Tell
<1>6. CASE StoreFails(r) BY <1>6, ToldOnce DEF StoreFails, Tell
<1>7. CASE AnswerLost(r)
  <2>1. pc[r] # "done" BY <1>7 DEF AnswerLost, Reclaims
  <2> QED BY <1>7, <2>1, ToldOnce DEF AnswerLost, Tell
<1> QED BY <1>1, <1>2, <1>3, <1>4, <1>5, <1>6, <1>7 DEF Step

\* Before the key lapses a step of a request is a step of the promise.
LEMMA EarlyStep ==
    ASSUME IInv, clock < TTL, NEW r \in Requests, Step(r)
    PROVE  [Promise!Next]_Promise!vars
<1> USE DEF IInv, TypeOK, Succeeded, Answer
<1>0. clock' = clock /\ asks' = asks /\ ~(clock >= TTL)
      BY DEF Step, Start, CreateProcessing, Read, TryReclaim, Execute, Renew, MarkSucceeded, MarkFailed,
             StoreFails, AnswerLost, Crash
<1>e. UNCHANGED (clock >= TTL) BY <1>0
<1>1. ASSUME status \notin {"processing", "succeeded"}, status' = "processing", UNCHANGED <<ran, got>>,
             pc' = [pc EXCEPT ![r] = "execute"]
      PROVE  Promise!Begin(r)
  <2>1. Working = {} /\ Succeeded = {} BY <1>1 DEF OneOwner
  <2>2. Working' = {r} BY <1>1, <2>1 DEF RunsOK
  <2> QED BY <1>0, <1>e, <1>1, <2>1, <2>2 DEF Promise!Begin
<1>2. ASSUME r \in Working, pc' = [pc EXCEPT ![r] = "done"], UNCHANGED <<ran, got>>,
             status' \in {status, "failed_retryable"}, UNCHANGED body
      PROVE  Promise!Stop(r)
  <2>1. status = "processing" BY <1>2 DEF OneOwner
  <2>2. Working' = Working \ {r} BY <1>2 DEF RunsOK
  <2> QED BY <1>0, <1>e, <1>2, <2>1, <2>2 DEF Promise!Stop
<1>3. CASE Start(r)
  <2>1. Quiet BY <1>0, <1>3 DEF Start, Goto, Quiet, RunsOK
  <2> QED BY <2>1, QuietStutters
<1>4. CASE CreateProcessing(r)
  <2>1. CASE status = "none"
        BY <1>1, <1>4, <2>1 DEF CreateProcessing, Insert, Claim, Goto, Promise!Next
  <2>2. CASE status # "none"
    <3>1. Quiet BY <1>0, <1>4, <2>2 DEF CreateProcessing, Goto, Quiet, RunsOK
    <3> QED BY <3>1, QuietStutters
  <2> QED BY <2>1, <2>2
<1>5. CASE Read(r)
  <2>1. UNCHANGED <<Working, Succeeded, Answer>>
        BY <1>5 DEF Read, Decide, Tell, Goto, RunsOK
  <2>2. CASE UNCHANGED got
    <3>1. Quiet BY <1>0, <2>1, <2>2 DEF Quiet
    <3> QED BY <3>1, QuietStutters
  <2>3. CASE status = "succeeded" /\ body \in Succeeded /\ Promise!Tells(r, body)
        BY <1>0, <1>e, <2>1, <2>3 DEF Promise!Replay, Promise!Next
  <2>4. ~MarkSucceeded(r) BY <1>5 DEF Read, MarkSucceeded
  <2> QED BY <2>2, <2>3, <2>4, ToldWhat
<1>6. CASE TryReclaim(r)
  <2>1. pc[r] = "reclaim" /\ seen[r].status = "failed_retryable"
        BY <1>0, <1>6 DEF TryReclaim, Placed, Clocked, ClaimsOK
  <2>2. CASE Reclaims(r)
        BY <1>1, <1>6, <2>1, <2>2 DEF TryReclaim, Reclaims, Reclaimed, Reclaimable, Claim, Goto, Promise!Next
  <2>3. CASE ~Reclaims(r)
    <3>1. UNCHANGED got BY <1>6, <2>3, ToldOnce DEF TryReclaim, Tell
    <3>2. Quiet BY <1>0, <1>6, <2>1, <2>3, <3>1 DEF TryReclaim, Tell, Goto, Quiet, RunsOK
    <3> QED BY <3>2, QuietStutters
  <2> QED BY <2>2, <2>3
<1>7. CASE Execute(r)
  <2>1. r \in Working /\ Working' = Working BY <1>7 DEF Execute, Goto, RunsOK
  <2>2. Succeeded = {} BY <1>7, <2>1 DEF Execute, OneOwner, Placed
  <2>3. CASE ran' = [ran EXCEPT ![r] = "ok"]
    <3>1. Succeeded' = {r} BY <2>2, <2>3 DEF RunsOK
    <3> QED BY <1>0, <1>e, <1>7, <2>1, <2>2, <3>1 DEF Execute, Promise!Succeed, Promise!Next
  <2>4. CASE ran' = [ran EXCEPT ![r] = "error"]
    <3>1. Succeeded' = {} BY <2>2, <2>4 DEF RunsOK
    <3>2. Quiet BY <1>0, <1>7, <2>1, <2>2, <3>1 DEF Execute, Quiet
    <3> QED BY <3>2, QuietStutters
  <2> QED BY <1>7, <2>3, <2>4 DEF Execute
<1>8. CASE Renew(r)
  <2>1. Quiet BY <1>0, <1>8 DEF Renew, Quiet
  <2> QED BY <2>1, QuietStutters
<1>9. CASE MarkSucceeded(r)
  <2>1. r \in Working /\ Promise!Tells(r, r) /\ r \in Succeeded
        BY <1>9, ToldWhat DEF MarkSucceeded, Tell, Promise!Tells, Placed, Read
  <2>2. status = "processing" /\ Own(r) BY <2>1 DEF OneOwner, Own
  <2>3. Working' = Working \ {r} BY <1>9 DEF MarkSucceeded, Tell, Goto, RunsOK
  <2>4. Answer = Nobody /\ Answer' = r BY <1>9, <2>2 DEF MarkSucceeded, StoreAnswer
  <2>5. UNCHANGED Succeeded BY <1>9 DEF MarkSucceeded
  <2> QED BY <1>0, <1>e, <2>1, <2>3, <2>4, <2>5 DEF Promise!Store, Promise!Next
<1>10. CASE MarkFailed(r)
  <2>1. r \in Working /\ UNCHANGED got BY <1>10, ToldOnce DEF MarkFailed, Tell
  <2> QED BY <1>2, <1>10, <2>1 DEF MarkFailed, Tell, Goto, Promise!Next
<1>11. CASE StoreFails(r)
  <2>1. UNCHANGED got BY <1>11, ToldOnce DEF StoreFails, Tell
  <2>2. CASE r \in Working
        BY <1>2, <1>11, <2>1, <2>2 DEF StoreFails, Tell, Goto, Promise!Next
  <2>3. CASE r \notin Working
    <3>1. Quiet BY <1>0, <1>11, <2>1, <2>3 DEF StoreFails, Tell, Goto, Quiet, RunsOK
    <3> QED BY <3>1, QuietStutters
  <2> QED BY <2>2, <2>3
<1>12. CASE Crash(r)
  <2>1. CASE r \in Working
        BY <1>2, <1>12, <2>1 DEF Crash, Goto, Promise!Next
  <2>2. CASE r \notin Working
    <3>1. Quiet BY <1>0, <1>12, <2>2 DEF Crash, Goto, Quiet, RunsOK
    <3> QED BY <3>1, QuietStutters
  <2> QED BY <2>1, <2>2
<1>13. CASE AnswerLost(r)
  <2>0. UNCHANGED <<got, Succeeded>>
    <3>1. pc[r] # "done" BY <1>13 DEF AnswerLost, Reclaims
    <3> QED BY <1>13, <3>1, ToldOnce DEF AnswerLost, Tell
  <2>1. Working' = Working \ {r} BY <1>13 DEF AnswerLost, Tell, Goto, RunsOK
  <2>2. CASE pc[r] = "create" /\ Insert(r)
    <3>1. UNCHANGED Answer BY <2>2 DEF Insert
    <3>2. Quiet BY <1>0, <2>0, <2>1, <2>2, <3>1 DEF Quiet
    <3> QED BY <3>2, QuietStutters
  <2>3. CASE Reclaims(r) /\ Reclaimed(r)
    <3>1. status = "failed_retryable"
          BY <1>0, <2>3 DEF Reclaims, Reclaimable, Placed, Clocked, ClaimsOK
    <3>2. r \notin Working /\ UNCHANGED Answer BY <2>3, <3>1 DEF Reclaims, Reclaimed
    <3>3. Quiet BY <1>0, <2>0, <2>1, <3>2 DEF Quiet
    <3> QED BY <3>3, QuietStutters
  <2>4. CASE pc[r] = "succeed" /\ StoreAnswer(r)
    <3>1. r \in Working /\ r \in Succeeded BY <2>4 DEF Placed
    <3>2. status = "processing" /\ Own(r) BY <3>1 DEF OneOwner, Own
    <3>3. Answer = Nobody /\ Answer' = r BY <2>4, <3>2 DEF StoreAnswer
    <3> QED BY <1>0, <1>e, <2>0, <2>1, <3>1, <3>3 DEF Promise!Store, Promise!Next
  <2> QED BY <1>13, <2>2, <2>3, <2>4 DEF AnswerLost
<1> QED BY <1>3, <1>4, <1>5, <1>6, <1>7, <1>8, <1>9, <1>10, <1>11, <1>12, <1>13 DEF Step

\* Once it has lapsed, what succeeded stays so and answers are those of a success.
LEMMA LateStep ==
    ASSUME IInv, clock >= TTL, NEW r \in Requests, Step(r)
    PROVE  Promise!Late
<1>1. clock' = clock /\ asks' = asks
      BY DEF Step, Start, CreateProcessing, Read, TryReclaim, Execute, Renew, MarkSucceeded, MarkFailed,
             StoreFails, AnswerLost, Crash, request
<1>2. Succeeded \subseteq Succeeded'
  <2>1. CASE Execute(r) BY <2>1 DEF IInv, TypeOK, RunsOK, Placed, Execute, Succeeded
  <2>2. CASE UNCHANGED ran BY <2>2 DEF Succeeded
  <2> QED BY <2>1, <2>2 DEF Step, Start, CreateProcessing, Read, TryReclaim, Renew, MarkSucceeded,
          MarkFailed, StoreFails, AnswerLost, Crash
<1>3. UNCHANGED got \/ \E s \in Succeeded : Promise!Tells(r, s) BY ToldWhat
<1>4. UNCHANGED (clock >= TTL) BY <1>1
<1> QED BY <1>1, <1>2, <1>3, <1>4 DEF Promise!Late

\* Every step of the key is a step of the promise or one it does not see.
LEMMA PromiseStep == IInv /\ [Next]_vars => [Promise!Next]_Promise!vars
<1> SUFFICES ASSUME IInv, [Next]_vars PROVE [Promise!Next]_Promise!vars
    OBVIOUS
<1> USE DEF IInv, TypeOK
<1>1. ASSUME NEW r \in Requests, Step(r) PROVE [Promise!Next]_Promise!vars
  <2>1. CASE clock < TTL BY <1>1, <2>1, EarlyStep
  <2>2. CASE clock >= TTL BY <1>1, <2>2, LateStep DEF Promise!Next
  <2> QED BY <2>1, <2>2
<1>2. CASE DeleteExpired
  <2>1. clock >= TTL BY <1>2 DEF DeleteExpired, Living, RowOK
  <2>2. Promise!Late BY <1>2, <2>1 DEF DeleteExpired, Promise!Late, Succeeded
  <2> QED BY <2>2 DEF Promise!Next
<1>3. CASE TimePasses
  <2>1. UNCHANGED <<asks, Working, Succeeded, Answer, got>>
        BY <1>3 DEF TimePasses, Succeeded, Answer
  <2>2. CASE UNCHANGED (clock >= TTL) BY <2>1, <2>2 DEF Promise!vars
  <2>3. CASE clock < TTL /\ clock' >= TTL
        BY <2>1, <2>3 DEF Promise!Lapse, Promise!Next
  <2> QED BY <1>3, <2>2, <2>3 DEF TimePasses
<1>4. CASE UNCHANGED vars
  <2>1. Quiet BY <1>4 DEF vars, Quiet, Succeeded, Answer
  <2> QED BY <2>1, QuietStutters
<1> QED BY <1>1, <1>2, <1>3, <1>4 DEF Next

\* The claims, retries, late marks and deletions of any number of requests implement the
\* promise of the key: every behaviour of theirs is one of IdempotencyPromise.
THEOREM PromiseKept == Spec => KeepsPromise
BY IdempotencyInvariance, PromiseInit, PromiseStep, PTL DEF Spec, KeepsPromise, Promise!Spec

=============================================================================
