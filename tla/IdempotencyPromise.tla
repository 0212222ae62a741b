------------------------- MODULE IdempotencyPromise -------------------------
(***************************************************************************)
(* What an idempotency key promises the requests that carry it.  Until the *)
(* key lapses one request works at a time, one execution succeeds, and its *)
(* answer, once stored, is the only answer anybody is told.  (A request    *)
(* may be told of a failure instead, even the one whose answer is stored.) *)
(* Afterwards the key may be used again, but what a request is told is     *)
(* still the answer of an execution that succeeded for the same payload.   *)
(***************************************************************************)
CONSTANTS Requests, Nobody

VARIABLES
    asks,       \* what each request asks for
    lapsed,     \* the lifetime of a record has passed since the start
    working,    \* the requests that execute, or have yet to store the outcome
    succeeded,  \* the requests whose execution succeeded
    stored,     \* the request whose answer the key gives
    told        \* whose answer each request was told

vars == <<asks, lapsed, working, succeeded, stored, told>>

Init ==
    /\ lapsed = FALSE /\ working = {} /\ succeeded = {} /\ stored = Nobody
    /\ told = [r \in Requests |-> Nobody]

\* r is told the answer of s.
Tells(r, s) == told[r] = Nobody /\ asks[r] = asks[s] /\ told' = [told EXCEPT ![r] = s]

Begin(r) ==
    /\ ~lapsed /\ working = {} /\ succeeded = {} /\ working' = {r}
    /\ UNCHANGED <<asks, lapsed, succeeded, stored, told>>

Succeed(r) ==
    /\ ~lapsed /\ r \in working /\ succeeded = {} /\ succeeded' = {r}
    /\ UNCHANGED <<asks, lapsed, working, stored, told>>

\* It failed, could not store its outcome, or died.
Stop(r) ==
    /\ ~lapsed /\ r \in working /\ working' = working \ {r}
    /\ UNCHANGED <<asks, lapsed, succeeded, stored, told>>

\* r, which worked, stores its answer and is told it, or does not learn that it stored
\* it; the key gives it either way.
Store(r) ==
    /\ ~lapsed /\ r \in working \cap succeeded /\ stored = Nobody
    /\ stored' = r /\ working' = working \ {r}
    /\ Tells(r, r) \/ UNCHANGED told
    /\ UNCHANGED <<asks, lapsed, succeeded>>

Replay(r) ==
    /\ ~lapsed /\ stored \in succeeded /\ Tells(r, stored)
    /\ UNCHANGED <<asks, lapsed, working, succeeded, stored>>

Lapse == ~lapsed /\ lapsed' = TRUE /\ UNCHANGED <<asks, working, succeeded, stored, told>>

Late ==
    /\ lapsed /\ UNCHANGED <<asks, lapsed>>
    /\ succeeded \subseteq succeeded'
    /\ \/ UNCHANGED told
       \/ \E r \in Requests, s \in succeeded : Tells(r, s)

Next ==
    \/ \E r \in Requests : Begin(r) \/ Succeed(r) \/ Stop(r) \/ Store(r) \/ Replay(r)
    \/ Lapse \/ Late

Spec == Init /\ [][Next]_vars

=============================================================================
