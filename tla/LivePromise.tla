---------------------------- MODULE LivePromise ----------------------------
(***************************************************************************)
(* What the service promises about one Live call, whoever observes it: the *)
(* call is opened once, keeps its place until it is due to end, is closed  *)
(* only then and by one closer, and is logged once, after its place was    *)
(* given back.  A place once lost is not taken again.                      *)
(***************************************************************************)
EXTENDS Naturals

VARIABLES
    creating,  \* its record is yet to be stored
    open,      \* it was handed out and is not closed
    due,       \* it is over, has lasted the longest, or may have lost its place
    leased,    \* it holds its place
    leaked,    \* giving the place back failed
    closing,   \* it was closed, and is yet to be logged
    logs       \* usage logs written for it

vars == <<creating, open, due, leased, leaked, closing, logs>>

Init ==
    /\ creating = TRUE /\ open = FALSE /\ due = FALSE /\ leased = TRUE
    /\ leaked = FALSE /\ closing = FALSE /\ logs = 0

\* Stored, or given up.
Create ==
    /\ creating /\ creating' = FALSE /\ open' \in BOOLEAN
    /\ UNCHANGED <<due, leased, leaked, closing, logs>>

FallDue == due' = TRUE /\ UNCHANGED <<creating, open, leased, leaked, closing, logs>>

\* Nobody refreshed the place in time.
LosePlace ==
    /\ leased /\ leased' = FALSE /\ due' = TRUE
    /\ UNCHANGED <<creating, open, leaked, closing, logs>>

GiveBack ==
    /\ ~creating /\ ~open
    /\ leased' \in {leased, FALSE} /\ leaked' \in {leaked, TRUE}
    /\ leased' => leaked'
    /\ UNCHANGED <<creating, open, due, closing, logs>>

\* The closer may fail right away.
Close ==
    /\ open /\ due /\ ~closing /\ logs = 0
    /\ open' = FALSE /\ closing' \in BOOLEAN
    /\ UNCHANGED <<creating, due, leased, leaked, logs>>

Log ==
    /\ closing /\ (leased => leaked) /\ logs = 0
    /\ logs' = 1 /\ closing' = FALSE
    /\ UNCHANGED <<creating, open, due, leased, leaked>>

\* The closer fails or dies.
GiveUp ==
    /\ closing /\ closing' = FALSE
    /\ UNCHANGED <<creating, open, due, leased, leaked, logs>>

Next == Create \/ FallDue \/ LosePlace \/ GiveBack \/ Close \/ Log \/ GiveUp

Spec == Init /\ [][Next]_vars

=============================================================================
