----------------------------- MODULE Idempotency -----------------------------
(***************************************************************************)
(* Requests that carry one idempotency key (internal/service/              *)
(* idempotency.go over repository/idempotency_repo.go): each claims the    *)
(* key's record, executes and stores its response, or is answered from the *)
(* record.  The steps are the statements on the record; they interleave.   *)
(*                                                                         *)
(* A request without a key executes unprotected and is not modelled.       *)
(***************************************************************************)
EXTENDS Integers

CONSTANTS
    Requests,    \* requests with the key, on any instance
    Nobody,      \* not a request
    Fingerprints, \* what the requests may ask for: functions on Requests
    Detached,    \* requests with an ExecutionTimeout: renewed, and stored late
    Oversized,   \* requests whose response is longer than MaxStoredResponseLen
    TTL,         \* lifetime of a record
    LockTime,    \* ProcessingTimeout
    Backoff,     \* FailedRetryBackoff
    MaxTime,     \* bound on the clock
    FaultKinds,  \* which failures may happen
    MaxFaults    \* bound on the failures of one behaviour

ASSUME RequestsAssumption ==
    Nobody \notin Requests /\ Detached \subseteq Requests /\ Oversized \subseteq Requests
ASSUME FingerprintsAssumption == \A f \in Fingerprints : f = [r \in Requests |-> f[r]]
ASSUME TimesAssumption ==
    TTL \in Nat \ {0} /\ LockTime \in Nat \ {0} /\ Backoff \in Nat \ {0} /\ MaxTime \in Nat
ASSUME FaultAssumption == FaultKinds \subseteq {"store", "crash"} /\ MaxFaults \in Nat

VARIABLES
    asks,     \* the fingerprint of each request
    clock,    \* the time, the same for all
    status,   \* the record of the key: "none" when there is none,
    id,       \*   its id,
    print,    \*   the fingerprint it was claimed for,
    locked,   \*   locked_until,
    expires,  \*   expires_at,
    body,     \*   and whose response it stores
    lastId,   \* the last id given to a record
    pc,       \* what each request does next
    now,      \* the time each request started
    seen,     \* the record as each request read it: id and status
    rid,      \* the id of the record each request claimed
    renewing, \* requests whose lease renewal runs
    ran,      \* (history) what became of each request's execution
    answer,   \* what each request was told
    got,      \* whose response it was told
    faults    \* failures injected so far

row == <<status, id, print, locked, expires, body>>
request == <<asks, now, seen, rid>>
told == <<answer, got>>
vars == <<clock, row, lastId, pc, request, renewing, ran, told, faults>>

Prints == {f[r] : f \in Fingerprints, r \in Requests}
Statuses == {"none", "processing", "succeeded", "failed_retryable"}
Answers == {"none", "data", "replayed", "conflict", "busy", "backoff", "unavailable", "error"}

RowOK ==
    /\ status \in Statuses /\ id \in Nat /\ print \in Prints /\ locked \in Int
    /\ expires \in Nat /\ body \in Requests \cup {Nobody}
    /\ lastId \in Nat /\ id <= lastId /\ expires <= clock + TTL

ClaimsOK ==
    /\ asks \in Fingerprints /\ now \in [Requests -> Nat] /\ rid \in [Requests -> Nat]
    /\ seen \in [Requests -> [id : Nat, status : Statuses]]

RunsOK ==
    /\ pc \in [Requests -> {"idle", "create", "read", "expired", "reread", "reclaim",
                            "execute", "succeed", "fail", "done"}]
    /\ renewing \subseteq Requests
    /\ ran \in [Requests -> {"no", "ok", "error"}]
    /\ answer \in [Requests -> Answers] /\ got \in [Requests -> Requests \cup {Nobody}]

TypeOK == clock \in Nat /\ faults \in Nat /\ RowOK /\ ClaimsOK /\ RunsOK

Unlocked == -1   \* locked_until is NULL

Init ==
    /\ asks \in Fingerprints /\ clock = 0 /\ faults = 0 /\ lastId = 0
    /\ status = "none" /\ id = 0 /\ print \in Prints /\ locked = Unlocked /\ expires = 0 /\ body = Nobody
    /\ pc = [r \in Requests |-> "idle"]
    /\ now = [r \in Requests |-> 0]
    /\ seen = [r \in Requests |-> [id |-> 0, status |-> "none"]]
    /\ rid = [r \in Requests |-> 0]
    /\ renewing = {}
    /\ ran = [r \in Requests |-> "no"]
    /\ answer = [r \in Requests |-> "none"] /\ got = [r \in Requests |-> Nobody]

-----------------------------------------------------------------------------

Goto(r, label) == pc' = [pc EXCEPT ![r] = label]
Fault(f) == f \in FaultKinds /\ faults < MaxFaults /\ faults' = faults + 1

Tell(r, what) ==
    /\ Goto(r, "done") /\ answer' = [answer EXCEPT ![r] = what]
    /\ got' = [got EXCEPT ![r] = IF what = "data" THEN r ELSE IF what = "replayed" THEN body ELSE Nobody]

\* A record is claimed with the times of the request's start.
Locked(r) == now[r] + LockTime
Expires(r) == now[r] + TTL

Claim(r, record) ==
    /\ rid' = [rid EXCEPT ![r] = record]
    /\ renewing' = IF r \in Detached THEN renewing \cup {r} ELSE renewing
    /\ Goto(r, "execute")

-----------------------------------------------------------------------------
(* Claiming the record.                                                    *)

Start(r) ==
    /\ pc[r] = "idle" /\ Goto(r, "create")
    /\ now' = [now EXCEPT ![r] = clock]
    /\ UNCHANGED <<asks, clock, row, lastId, seen, rid, renewing, ran, told, faults>>

\* INSERT ... ON CONFLICT DO NOTHING.
Insert(r) ==
    /\ status = "none" /\ lastId' = lastId + 1
    /\ status' = "processing" /\ id' = lastId' /\ print' = asks[r]
    /\ locked' = Locked(r) /\ expires' = Expires(r) /\ body' = Nobody

CreateProcessing(r) ==
    /\ pc[r] = "create"
    /\ IF status = "none"
       THEN Insert(r) /\ Claim(r, lastId')
       ELSE UNCHANGED <<row, lastId, rid, renewing>> /\ Goto(r, "read")
    /\ UNCHANGED <<asks, clock, now, seen, ran, told, faults>>

\* What a record that lives decides.
Decide(r) ==
    \/ /\ status = "succeeded"
       /\ Tell(r, IF body \in Oversized THEN "unavailable" ELSE "replayed")
    \/ status = "processing" /\ Tell(r, "busy")
    \/ status = "failed_retryable" /\ locked > now[r] /\ Tell(r, "backoff")
    \/ status = "failed_retryable" /\ locked <= now[r] /\ Goto(r, "reclaim") /\ UNCHANGED told

SamePayload(r) == status # "none" /\ print = asks[r]

Read(r) ==
    /\ pc[r] \in {"read", "reread"}
    /\ seen' = [seen EXCEPT ![r] = [id |-> id, status |-> status]]
    /\ \/ status = "none" /\ Tell(r, "unavailable")
       \/ status # "none" /\ ~SamePayload(r) /\ Tell(r, "conflict")
       \/ /\ SamePayload(r) /\ pc[r] = "read" /\ expires <= now[r]
          /\ Goto(r, "expired") /\ UNCHANGED told
       \/ SamePayload(r) /\ (pc[r] = "reread" \/ expires > now[r]) /\ Decide(r)
    /\ UNCHANGED <<asks, clock, row, lastId, now, rid, renewing, ran, faults>>

\* UPDATE ... WHERE id, status and lock are as expected.
AnyStatus(r, from) ==  \* mutant: the status is not compared
    status # "none" /\ id = seen[r].id
Reclaimable(r, from) ==
    /\ status = from /\ id = seen[r].id
    /\ locked <= now[r]

Reclaims(r) == pc[r] \in {"expired", "reclaim"} /\ status # "none" /\ Reclaimable(r, seen[r].status)

Reclaimed(r) ==
    /\ status' = "processing" /\ locked' = Locked(r) /\ expires' = Expires(r)
    /\ UNCHANGED <<id, print, body>>

TryReclaim(r) ==
    /\ pc[r] \in {"expired", "reclaim"}
    /\ IF Reclaims(r)
       THEN Reclaimed(r) /\ Claim(r, id) /\ UNCHANGED told
       ELSE /\ UNCHANGED <<row, rid, renewing>>
            /\ IF pc[r] = "expired" THEN Goto(r, "reread") /\ UNCHANGED told ELSE Tell(r, "busy")
    /\ UNCHANGED <<asks, clock, lastId, now, seen, ran, faults>>

-----------------------------------------------------------------------------
(* Executing and storing.                                                  *)

Execute(r) ==
    /\ pc[r] = "execute"
    /\ \/ ran' = [ran EXCEPT ![r] = "ok"] /\ Goto(r, "succeed")
       \/ ran' = [ran EXCEPT ![r] = "error"] /\ Goto(r, "fail")
    /\ UNCHANGED <<clock, row, lastId, request, renewing, told, faults>>

\* The renewal goroutine of a detached request; it stops when the record is no
\* longer a processing one of its payload.
Renew(r) ==
    /\ r \in renewing
    /\ IF id = rid[r] /\ status = "processing" /\ SamePayload(r)
       THEN /\ locked' = clock + LockTime /\ expires' = clock + TTL
            /\ UNCHANGED <<status, id, print, body, renewing>>
       ELSE renewing' = renewing \ {r} /\ UNCHANGED row
    /\ UNCHANGED <<clock, lastId, pc, request, ran, told, faults>>

\* A detached request counts the lifetime of its response from the end.
StoredAnew(r) == clock + TTL + LockTime  \* mutant: the lock's time is added
StoredUntil(r) == IF r \in Detached THEN clock + TTL ELSE Expires(r)

OwnAnyRow(r) == status # "none"  \* mutant: the record is stored by key
Own(r) == status # "none" /\ id = rid[r]

\* An update that matches no record is no error.
StoreAnswer(r) ==
    IF Own(r)
    THEN /\ status' = "succeeded" /\ locked' = Unlocked /\ expires' = StoredUntil(r) /\ body' = r
         /\ UNCHANGED <<id, print>>
    ELSE UNCHANGED row

MarkSucceeded(r) ==
    /\ pc[r] = "succeed" /\ StoreAnswer(r)
    /\ Tell(r, "data") /\ renewing' = renewing \ {r}
    /\ UNCHANGED <<clock, lastId, request, ran, faults>>

MarkFailed(r) ==
    /\ pc[r] = "fail"
    /\ IF Own(r)
       THEN /\ status' = "failed_retryable" /\ locked' = clock + Backoff /\ expires' = StoredUntil(r)
            /\ UNCHANGED <<id, print, body>>
       ELSE UNCHANGED row
    /\ Tell(r, "error") /\ renewing' = renewing \ {r}
    /\ UNCHANGED <<clock, lastId, request, ran, faults>>

\* A statement fails without effect: the store, or the context of a client that went
\* away.  The
\* execution's own error is told all the same.
StoreFails(r) ==
    /\ pc[r] \in {"create", "read", "expired", "reread", "reclaim", "succeed", "fail"}
    /\ Fault("store")
    /\ Tell(r, IF pc[r] = "fail" THEN "error" ELSE "unavailable")
    /\ renewing' = renewing \ {r}
    /\ UNCHANGED <<clock, row, lastId, request, ran>>

\* It takes effect, but its answer is lost: the request is told of a failure all the
\* same, whether its claim or its response is recorded.  (After MarkFailed the
\* request is told what it would be anyway.)
AnswerLost(r) ==
    /\ Fault("store")
    /\ \/ pc[r] = "create" /\ Insert(r)
       \/ Reclaims(r) /\ Reclaimed(r) /\ UNCHANGED lastId
       \/ pc[r] = "succeed" /\ StoreAnswer(r) /\ UNCHANGED lastId
    /\ Tell(r, "unavailable") /\ renewing' = renewing \ {r}
    /\ UNCHANGED <<clock, request, ran>>

Crash(r) ==
    /\ pc[r] \notin {"idle", "done"} /\ Fault("crash")
    /\ Goto(r, "done") /\ renewing' = renewing \ {r}
    /\ UNCHANGED <<clock, row, lastId, request, ran, told>>

\* IdempotencyCleanupService.
DeleteExpired ==
    /\ status # "none" /\ expires <= clock
    /\ status' = "none"
    /\ UNCHANGED <<id, print, locked, expires, body, clock, lastId, pc, request, renewing, ran, told, faults>>

TimePasses ==
    /\ clock < MaxTime /\ clock' = clock + 1
    /\ UNCHANGED <<row, lastId, pc, request, renewing, ran, told, faults>>

-----------------------------------------------------------------------------

Step(r) ==
    \/ Start(r) \/ CreateProcessing(r) \/ Read(r) \/ TryReclaim(r) \/ Execute(r)
    \/ Renew(r) \/ MarkSucceeded(r) \/ MarkFailed(r) \/ StoreFails(r) \/ AnswerLost(r) \/ Crash(r)

Next == DeleteExpired \/ TimePasses \/ \E r \in Requests : Step(r)

Spec == Init /\ [][Next]_vars

-----------------------------------------------------------------------------
(* Properties.                                                             *)

\* Until the first record may have expired, whatever fails, retries or crashes: at
\* most one request executes at a time and at most one execution succeeds
\* (docs/mcp.md: a retry with the same key does not create or charge twice).
Working == {r \in Requests : pc[r] \in {"execute", "succeed", "fail"}}

OncePerLifetime ==
    clock < TTL =>
        \A r, s \in Requests : r # s =>
            ~(r \in Working /\ s \in Working) /\ ~(ran[r] = "ok" /\ ran[s] = "ok")

\* A replayed response is that of a successful execution with the same payload,
\* though records are deleted, reclaimed and stored late by id.
ReplayIsTheirs ==
    \A r \in Requests : answer[r] = "replayed" =>
        got[r] \in Requests /\ ran[got[r]] = "ok" /\ asks[got[r]] = asks[r]

\* What the first successful execution answered stays the key's answer: no other
\* request's execution, late mark or failed attempt replaces it.
AnsweredIsKept ==
    clock < TTL =>
        \A r \in Requests : answer[r] = "data" => status = "succeeded" /\ body = r

\* The key keeps what IdempotencyPromise says: its lifetime, its answer and what the
\* requests are told are those of the record, however the statements interleave.
Succeeded == {r \in Requests : ran[r] = "ok"}
Answer == IF status = "succeeded" THEN body ELSE Nobody

Promise == INSTANCE IdempotencyPromise
    WITH lapsed <- clock >= TTL, working <- Working, succeeded <- Succeeded,
         stored <- Answer, told <- got

KeepsPromise == Promise!Spec

=============================================================================
