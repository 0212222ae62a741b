----------------------------- MODULE TokenChain -----------------------------
(***************************************************************************)
(* What becomes of the pairs of tokens of one account, whoever refreshes   *)
(* it: each is granted for another that is spent for it, or by a new       *)
(* authorization, and replaces in the row just the one that was spent.     *)
(* While nothing went wrong only the row's pair is spent.  No grant is     *)
(* dropped while the row waits for it, and no pair returns to the row.     *)
(***************************************************************************)
EXTENDS Naturals

VARIABLES
    held,      \* the pair in the row
    accepted,  \* the pairs the provider accepts
    minted,    \* how many it has granted, and the number of the last
    coming,    \* grants on their way to the row, each with the pair it was granted for;
               \* 0 if it is an administrator's, who replaces whatever the row holds
    excuses    \* of "lost", "overwritten", "overlap", "revoked", what happened so far

vars == <<held, accepted, minted, coming, excuses>>

Init == held = 1 /\ accepted = {1} /\ minted = 1 /\ coming = {} /\ excuses = {}

New == minted + 1
Pairs(grants) == {g.pair : g \in grants}

\* An administrator's request is under way; there is one at a time.
Administered == \E g \in coming : g.from = 0

\* A pair is spent: the row's, or any but those that are on their way to it when someone
\* went beside the lock.
Grant ==
    \E p \in accepted \ Pairs(coming) :
        /\ p = held \/ excuses # {}
        /\ minted' = New /\ accepted' = (accepted \ {p}) \cup {New} /\ UNCHANGED held
        /\ \/ coming' = coming \cup {[pair |-> New, from |-> p]}
           \/ p = held /\ ~Administered /\ coming' = coming \cup {[pair |-> New, from |-> 0]}
           \/ "lost" \in excuses' /\ UNCHANGED coming

\* A new authorization, which may revoke the ones before.
Authorize ==
    /\ ~Administered /\ minted' = New /\ accepted' \in {{New}, accepted \cup {New}}
    /\ coming' = coming \cup {[pair |-> New, from |-> 0]} /\ UNCHANGED held

Store ==
    \E g \in coming :
        /\ g.from \in {0, held} \/ "overwritten" \in excuses'
        /\ held' = g.pair /\ coming' = coming \ {g} /\ UNCHANGED <<accepted, minted>>

\* The row was given another pair meanwhile, or the grant is lost.
Drop ==
    \E g \in coming :
        /\ g.from \notin {0, held} \/ excuses' \cap {"lost", "overwritten"} # {}
        /\ coming' = coming \ {g} /\ UNCHANGED <<held, accepted, minted>>

\* An edit writes back a pair the row once held.
Overwrite ==
    /\ "overwritten" \in excuses' /\ held' \in 1 .. minted
    /\ UNCHANGED <<accepted, minted, coming>>

Trouble == UNCHANGED <<held, accepted, minted, coming>>

Next ==
    /\ excuses \subseteq excuses'
    /\ Trouble \/ Grant \/ Authorize \/ Store \/ Drop \/ Overwrite

Spec == Init /\ [][Next]_vars

\* What the chain is good for: unless a grant was lost or overwritten, the row holds a pair
\* the provider accepts, or one that does is on its way to it.
RowIsAlive ==
    excuses \cap {"lost", "overwritten"} = {} =>
        held \in accepted \/ \E g \in coming : g.from \in {0, held} /\ g.pair \in accepted

=============================================================================
