------------------------- MODULE TokenRefreshProofs -------------------------
(***************************************************************************)
(* Refresh tokens, for any number of workers, requests, edits, grants and  *)
(* failures: nobody presents one that was spent while the lock works.      *)
(*                                                                         *)
(* While nobody went beside the lock it excludes (Exclusive), so that who  *)
(* calls the provider has the row's token in hand (Current), and the row's *)
(* token is alive or its successor is on its way (Succession).  That much  *)
(* of Succession bears any race (DInv); an account in error is one whose   *)
(* stored token is spent (EInv); and the version check keeps requests with *)
(* an old account from the cache (CInv).                                   *)
(***************************************************************************)
EXTENDS TokenRefresh, TLAPS

Bad == {"lost", "overlap", "revoked", "overwritten"}
Calm == mishaps \cap Bad = {}

\* Pairs are numbered as they are minted, and the administrator's is nobody else's.
Numbers ==
    /\ stored.pair <= minted /\ \A n \in live : n <= minted
    /\ \A c \in Callers : at[c].got <= minted /\ at[c].fresh.pair <= minted
    /\ admin.creds.pair <= minted

Apart ==
    InFlight =>
        /\ admin.creds.pair \in live /\ 2 <= admin.creds.pair
        /\ stored.pair # admin.creds.pair
        /\ \A c \in Callers : at[c].got # admin.creds.pair /\ at[c].fresh.pair # admin.creds.pair

Plain ==
    /\ admin.at = "write" /\ admin.doing = "edit" => admin.creds = admin.seen
    /\ admin.at = "read" => admin.doing # "edit"

Minting == Numbers /\ Apart /\ Plain

Exclusive ==
    "overlap" \notin mishaps => \A c \in Callers : at[c].pc \in Inside => lock = c /\ c \in holds

Current == Calm => \A c \in Callers : In(c, "call") => at[c].fresh = stored

\* The caller holds the stored pair's successor, unless a reauthorization revoked it.
Succession ==
    Calm =>
        /\ \A c \in Callers : In(c, "persist") /\ at[c].fresh = stored => at[c].got \in live \/ InFlight
        /\ \/ stored.pair \in live
           \/ InFlight
           \/ \E c \in Callers : In(c, "persist") /\ at[c].fresh = stored

IInv == TypeOK /\ Minting /\ Exclusive /\ Current /\ Succession /\ SpentOnce

\* What follows bears any race; only what loses or overwrites a grant is left out.
Unspoiled == mishaps \cap {"lost", "overwritten"} = {}
Working(c) == at[c].pc \in {"call", "persist"}

\* A grant to be stored is nobody else's, and the pair it came for is spent.
Granting ==
    \A c \in Callers : In(c, "persist") =>
        /\ at[c].fresh.pair \notin live /\ at[c].got # stored.pair
        /\ admin.at \in {"read", "write"} => at[c].got # admin.creds.pair
        /\ \A d \in Callers : Working(d) => at[d].fresh.pair # at[c].got
        /\ \A d \in Callers \ {c} : In(d, "persist") => at[d].got # at[c].got

\* Whoever has the stored pair in hand has its version, too.
OneVersion ==
    Unspoiled => \A c \in Callers : Working(c) /\ at[c].fresh.pair = stored.pair => at[c].fresh = stored

\* The stored pair is alive, or its successor is on its way to the row.
Descent ==
    Unspoiled =>
        /\ \A c \in Callers : In(c, "persist") /\ at[c].fresh = stored => at[c].got \in live \/ InFlight
        /\ \/ stored.pair \in live
           \/ InFlight
           \/ \E c \in Callers : In(c, "persist") /\ at[c].fresh = stored

DInv == Granting /\ OneVersion /\ Descent

\* What excuses an account in error whose token is alive.
Excused == mishaps \cap {"overlap", "stuck", "overwritten"} # {}
Refreshing == InFlight /\ admin.doing = "refresh"
Denying(c) == at[c].pc = "deny" \/ at[c].next = "deny"

\* Only a spent token is denied.
Denials ==
    \A c \in Callers :
        /\ at[c].next = "deny" => at[c].pc = "unlock"
        /\ Denying(c) => at[c].acct.pair \notin live /\ at[c].acct.pair <= minted
        /\ In(c, "recover") => at[c].fresh.pair \notin live

\* An account that is refreshed is active, and what is denied has to do with neither
\* the token that was spent for it nor the one that was granted.
Attempts ==
    ~Excused => \A c \in Callers :
        /\ In(c, "persist") =>
              /\ at[c].fresh = stored => status = "active"
              /\ \A d \in Callers : Denying(d) => at[d].acct.pair \notin {at[c].fresh.pair, at[c].got}
        /\ In(c, "call") /\ at[c].fresh = stored /\ stored.pair \in live => status = "active"

\* So is an account the administrator refreshes.
Refreshed ==
    ~Excused /\ Refreshing =>
        /\ status = "active"
        /\ \A c \in Callers :
              /\ In(c, "recover") => at[c].fresh.pair # stored.pair
              /\ Denying(c) => at[c].acct.pair # stored.pair

EInv == Denials /\ Attempts /\ Refreshed /\ ErrorIsDeserved

\* What excuses a cached token that is not the row's.
Outdated == mishaps \cap {"stale", "overwritten"} # {}

\* A caller serves its account's token to the cache, or is about to empty the cache.
Serving(c) == at[c].pc \in {"check", "cache"} \/ at[c].next = "check"
Emptying(c) == "sync" \in {at[c].pc, at[c].next} \/ In(c, "purge")

\* A request has an account in hand.
Asking(c) == c \in Requests /\ at[c].pc # "idle" /\ (at[c].pc = "unlock" => at[c].next # "idle")

\* Only who leaves knows where to, and only requests serve.
Ways ==
    \A c \in Callers :
        /\ at[c].next # "idle" => at[c].pc = "unlock"
        /\ Serving(c) \/ at[c].pc \in {"lookup", "wait"} => c \in Requests

\* Versions are no newer than the last pair, and a grant is newer than what it replaces.
Ages ==
    /\ stored.version <= minted /\ admin.creds.version <= minted
    /\ \A c \in Callers : at[c].acct.pair <= minted /\ at[c].fresh.version <= minted
    /\ \A c \in Callers : In(c, "persist") =>
          /\ at[c].fresh.version < at[c].got
          /\ \A r \in Callers : Asking(r) => at[r].acct.pair # at[c].got

\* A request's account is the row, or an older version of it.
Accounts ==
    ~Outdated => \A r \in Callers : Asking(r) =>
        /\ at[r].acct = stored \/ (at[r].acct.version < stored.version /\ at[r].acct.pair # stored.pair)
        /\ In(r, "cache") => at[r].acct = stored

CInv == Ways /\ Ages /\ Accounts /\ CachedIsCurrent

-----------------------------------------------------------------------------

USE CallersAssumption, BoundsAssumption
    DEF row, provider, Pairs, Credentials, Inside, Places, After, Mishaps, Caller, First,
        NoRequest, Idle, In, CallFails, Note, IfSo, IsDue, NextPair

\* A caller's step touches nobody else's, and keeps what it has in hand or drops it.
Moved(c) == at' \in [Callers -> Caller] /\ \A d \in Callers \ {c} : at'[d] = at[d]
Kept(c) == at'[c].fresh = at[c].fresh /\ at'[c].got = at[c].got
Cleared(c) == at'[c].fresh = First /\ at'[c].got = 1

\* A caller that is given a record has just that.
LEMMA HoldMoves ==
    ASSUME TypeOK, NEW c \in Callers, NEW what \in Caller, Hold(c, what)
    PROVE  Moved(c) /\ at'[c] = what
BY DEF TypeOK, Hold, Moved

\* Changing the place alone keeps a caller's type and what it has in hand.
LEMMA GoMoves ==
    ASSUME TypeOK, NEW c \in Callers, NEW place \in Places, Go(c, place)
    PROVE  Moved(c) /\ at'[c].pc = place /\ (Kept(c) \/ Cleared(c))
<1>0. at[c] \in Caller BY DEF TypeOK
<1>1. CASE place = "idle"
    <2>1. Idle \in Caller OBVIOUS
    <2>2. Hold(c, Idle) BY <1>1 DEF Go
    <2> QED BY <1>1, <2>1, <2>2, HoldMoves DEF Cleared
<1>2. CASE place # "idle"
    <2> DEFINE what == [at[c] EXCEPT !.pc = place]
    <2>1. /\ what \in Caller /\ what.pc = place /\ what.fresh = at[c].fresh
          /\ what.got = at[c].got
        BY <1>0
    <2>2. Hold(c, what) BY <1>2 DEF Go
    <2> HIDE DEF what
    <2> QED BY <2>1, <2>2, HoldMoves DEF Kept
<1> QED BY <1>1, <1>2

\* On its way out a caller has nothing in hand.
LEMMA LeaveMoves ==
    ASSUME TypeOK, NEW c \in Callers, NEW place \in After, NEW account \in Credentials,
           Leave(c, place, account)
    PROVE  Moved(c) /\ at'[c].pc = "unlock" /\ Cleared(c)
<1>1. Idle \in Caller /\ Idle.fresh = First /\ Idle.got = 1 OBVIOUS
<1> HIDE DEF Idle
<1>2. CASE place = "idle"
    <2> DEFINE what == [Idle EXCEPT !.pc = "unlock"]
    <2>1. what \in Caller /\ what.pc = "unlock" /\ what.fresh = First /\ what.got = 1 BY <1>1
    <2>2. Hold(c, what) BY <1>2 DEF Leave
    <2> HIDE DEF what
    <2> QED BY <2>1, <2>2, HoldMoves DEF Cleared
<1>3. CASE place # "idle"
    <2> DEFINE what == [Idle EXCEPT !.pc = "unlock", !.next = place, !.acct = account]
    <2>1. what \in Caller /\ what.pc = "unlock" /\ what.fresh = First /\ what.got = 1
        BY <1>1
    <2>2. Hold(c, what) BY <1>3 DEF Leave
    <2> HIDE DEF what
    <2> QED BY <2>1, <2>2, HoldMoves DEF Cleared
<1> QED BY <1>2, <1>3

\* The account a caller comes with is the row.
LEMMA BeginMoves ==
    ASSUME TypeOK, NEW c \in Callers, Begin(c)
    PROVE  Moved(c) /\ at'[c].pc \in {"lock", "lookup"} /\ Cleared(c)
<1>0. Idle \in Caller /\ Idle.fresh = First /\ Idle.got = 1 OBVIOUS
<1> HIDE DEF Idle
<1>1. ASSUME NEW p \in {"lock", "lookup"}, Hold(c, [Idle EXCEPT !.pc = p, !.acct = stored])
      PROVE  Moved(c) /\ at'[c].pc = p /\ Cleared(c)
    <2> DEFINE what == [Idle EXCEPT !.pc = p, !.acct = stored]
    <2>0. stored \in Credentials BY DEF TypeOK
    <2>1. what \in Caller /\ what.pc = p /\ what.fresh = First /\ what.got = 1
        BY <1>0, <2>0
    <2>2. Hold(c, what) BY <1>1
    <2> HIDE DEF what
    <2> QED BY <2>1, <2>2, HoldMoves DEF Cleared
<1> QED BY <1>1 DEF Begin

\* What was read under the lock is what the caller refreshes.
LEMMA ReadMoves ==
    ASSUME TypeOK, NEW c \in Callers, Read(c)
    PROVE  /\ Moved(c) /\ at[c].pc = "read"
           /\ \/ at'[c].pc = "call" /\ at'[c].fresh = stored /\ at'[c].got = at[c].got
              \/ at'[c].pc = "unlock" /\ Cleared(c)
<1>0. at[c] \in Caller /\ stored \in Credentials BY DEF TypeOK
<1>1. CASE Hold(c, [at[c] EXCEPT !.pc = "call", !.fresh = stored])
    <2> DEFINE what == [at[c] EXCEPT !.pc = "call", !.fresh = stored]
    <2>1. what \in Caller /\ what.pc = "call" /\ what.fresh = stored /\ what.got = at[c].got
        BY <1>0
    <2>2. Hold(c, what) BY <1>1
    <2> HIDE DEF what
    <2> QED BY <2>1, <2>2, HoldMoves DEF Read
<1>2. CASE Leave(c, AfterNone(c), stored)
    BY <1>0, <1>2, LeaveMoves DEF Read, AfterNone
<1>3. CASE Leave(c, AfterError(c), at[c].acct)
    BY <1>0, <1>3, LeaveMoves DEF Read, AfterError
<1> QED BY <1>1, <1>2, <1>3 DEF Read

\* A grant is in hand, lost, or refused.
Granted(c) ==
    /\ at[c].fresh.pair \in live /\ minted < MaxMints /\ minted' = NextPair
    /\ live' = (live \ {at[c].fresh.pair}) \cup {NextPair}
Refused(c) ==
    /\ at[c].fresh.pair \notin live /\ UNCHANGED provider
    /\ mishaps' = mishaps \cup
          (IfSo(admin.at \in {"read", "write"} /\ admin.doing = "refresh", "overlap")
           \cup IfSo(admin.at \in {"read", "write"} /\ admin.doing = "reauth", "revoked"))

\* The provider's answer: a grant in hand or lost, a refusal, or an error.
LEMMA CallMoves ==
    ASSUME TypeOK, NEW c \in Callers, Call(c)
    PROVE  /\ Moved(c) /\ at[c].pc = "call"
           /\ UNCHANGED <<platform, row, due, lock, cached, holds, admin, asked>>
           /\ \/ /\ at'[c].pc = "persist" /\ at'[c].fresh = at[c].fresh /\ at'[c].got = NextPair
                 /\ Granted(c) /\ mishaps' = mishaps
              \/ at'[c].pc = "unlock" /\ Cleared(c) /\ Granted(c) /\ mishaps' = mishaps \cup {"lost"}
              \/ at'[c].pc = "recover" /\ (Kept(c) \/ Cleared(c)) /\ Refused(c)
              \/ at'[c].pc = "unlock" /\ Cleared(c) /\ UNCHANGED <<provider, mishaps>>
<1>0. at[c] \in Caller /\ NextPair \in Nat BY DEF TypeOK
<1>1. CASE Hold(c, [at[c] EXCEPT !.pc = "persist", !.got = NextPair]) /\ Granted(c) /\ UNCHANGED <<faults, mishaps>>
    <2> DEFINE what == [at[c] EXCEPT !.pc = "persist", !.got = NextPair]
    <2>0. NextPair \in Pairs BY <1>1 DEF Granted, TypeOK
    <2>1. what \in Caller /\ what.pc = "persist" /\ what.fresh = at[c].fresh /\ what.got = NextPair
        BY <1>0, <2>0
    <2>2. Hold(c, what) BY <1>1
    <2> HIDE DEF what
    <2> QED BY <1>1, <2>1, <2>2, HoldMoves DEF Call
<1>2. CASE Leave(c, AfterError(c), at[c].acct) /\ Granted(c) /\ Note({"lost"})
    <2>1. Moved(c) /\ at'[c].pc = "unlock" /\ Cleared(c)
        BY <1>0, <1>2, LeaveMoves DEF AfterError
    <2> QED BY <1>2, <2>1 DEF Call
<1>3. CASE Go(c, "recover") /\ Refused(c)
    <2>1. Moved(c) /\ at'[c].pc = "recover" /\ (Kept(c) \/ Cleared(c))
        BY <1>3, GoMoves
    <2> QED BY <1>3, <2>1 DEF Call
<1>4. CASE Leave(c, AfterError(c), at[c].acct) /\ UNCHANGED <<provider, mishaps>>
    <2>1. Moved(c) /\ at'[c].pc = "unlock" /\ Cleared(c)
        BY <1>0, <1>4, LeaveMoves DEF AfterError
    <2> QED BY <1>4, <2>1 DEF Call
<1> QED BY <1>1, <1>2, <1>3, <1>4 DEF Call, Granted, Refused

\* The grant is stored as it is, or not at all.
LEMMA PersistMoves ==
    ASSUME TypeOK, NEW c \in Callers, Persist(c)
    PROVE  Moved(c) /\ at'[c].pc \in {"purge", "unlock"} /\ (Kept(c) \/ Cleared(c))
<1>0. at[c] \in Caller /\ Renewed(c) \in Credentials /\ stored \in Credentials BY DEF TypeOK, Renewed
<1>1. CASE Hold(c, [at[c] EXCEPT !.pc = "purge", !.acct = Renewed(c)])
    <2> DEFINE what == [at[c] EXCEPT !.pc = "purge", !.acct = Renewed(c)]
    <2>1. what \in Caller /\ what.pc = "purge" /\ what.fresh = at[c].fresh /\ what.got = at[c].got
        BY <1>0
    <2>2. Hold(c, what) BY <1>1
    <2> HIDE DEF what
    <2> QED BY <2>1, <2>2, HoldMoves DEF Kept
<1>2. CASE Leave(c, AfterSuccess(c), Renewed(c))
    BY <1>0, <1>2, LeaveMoves DEF AfterSuccess, AfterNone
<1>3. CASE Leave(c, AfterError(c), at[c].acct)
    BY <1>0, <1>3, LeaveMoves DEF AfterError
<1>4. CASE Leave(c, AfterNone(c), stored)
    BY <1>0, <1>4, LeaveMoves DEF AfterNone
<1> QED BY <1>1, <1>2, <1>3, <1>4 DEF Persist

\* Grok's statement and the mishaps tell whether the row was the one that was read.
LEMMA PersistStores ==
    ASSUME TypeOK, NEW c \in Callers, Persist(c)
    PROVE  /\ at[c].pc = "persist" /\ mishaps \subseteq mishaps'
           /\ UNCHANGED <<platform, status, provider, due, lock, cached, holds, admin, asked>>
           /\ \/ stored' = Renewed(c) /\ (stored = at[c].fresh \/ "overwritten" \in mishaps')
              \/ stored' = stored /\ (stored # at[c].fresh \/ "lost" \in mishaps')
BY DEF TypeOK, Persist, MayStore

\* The lock is let go.
LEMMA UnlockMoves ==
    ASSUME TypeOK, NEW c \in Callers, Unlock(c)
    PROVE  Moved(c) /\ at[c].pc = "unlock" /\ at'[c].pc \in After /\ (Kept(c) \/ Cleared(c))
<1> DEFINE what == [at[c] EXCEPT !.pc = at[c].next, !.next = "idle"]
<1>0. at[c] \in Caller BY DEF TypeOK
<1>1. /\ what \in Caller /\ what.pc \in After /\ what.fresh = at[c].fresh
      /\ what.got = at[c].got
    BY <1>0
<1>2. Hold(c, what) BY DEF Unlock
<1>3. at[c].pc = "unlock" BY DEF Unlock
<1> HIDE DEF what
<1> QED BY <1>1, <1>2, <1>3, HoldMoves DEF Kept

\* A lookup ends, goes for the lock, or goes on with the token it has.
LEMMA LookupMoves ==
    ASSUME TypeOK, NEW c \in Callers, Lookup(c)
    PROVE  Moved(c) /\ at'[c].pc \in {"idle", "lock", "check"} /\ (Kept(c) \/ Cleared(c))
<1> \E p \in {"idle", "lock", "check"} : Go(c, p) BY DEF Lookup
<1> QED BY GoMoves

\* A waiter that takes the row's account to the cache.
LEMMA ServingWait ==
    ASSUME TypeOK, NEW c \in Callers, Hold(c, [at[c] EXCEPT !.pc = "cache", !.acct = stored])
    PROVE  /\ Moved(c) /\ at'[c].pc = "cache" /\ at'[c].next = at[c].next /\ at'[c].acct = stored /\ Kept(c)
<1> DEFINE what == [at[c] EXCEPT !.pc = "cache", !.acct = stored]
<1>0. at[c] \in Caller /\ stored \in Credentials BY DEF TypeOK
<1>1. /\ what \in Caller /\ what.pc = "cache" /\ what.next = at[c].next /\ what.acct = stored
      /\ what.fresh = at[c].fresh /\ what.got = at[c].got
    BY <1>0
<1>2. Hold(c, what) OBVIOUS
<1> HIDE DEF what
<1> QED BY <1>1, <1>2, HoldMoves DEF Kept

\* A wait ends, or goes on with the token it has or with the row's.
LEMMA WaitMoves ==
    ASSUME TypeOK, NEW c \in Callers, Wait(c)
    PROVE  Moved(c) /\ at'[c].pc \in {"idle", "check", "cache"} /\ (Kept(c) \/ Cleared(c))
<1>1. ASSUME NEW p \in {"idle", "check"}, Go(c, p)
      PROVE  Moved(c) /\ at'[c].pc = p /\ (Kept(c) \/ Cleared(c))
    BY <1>1, GoMoves
<1> QED BY <1>1, ServingWait DEF Wait

\* A denial ends its caller.
LEMMA DenyMoves ==
    ASSUME TypeOK, NEW c \in Callers, Deny(c)
    PROVE  Moved(c) /\ at'[c].pc \in {"idle"} /\ (Kept(c) \/ Cleared(c))
<1> \E p \in {"idle"} : Go(c, p) BY DEF Deny
<1> QED BY GoMoves

\* A synchronisation ends its caller.
LEMMA SyncMoves ==
    ASSUME TypeOK, NEW c \in Callers, Sync(c)
    PROVE  Moved(c) /\ at'[c].pc \in {"idle"} /\ (Kept(c) \/ Cleared(c))
<1> \E p \in {"idle"} : Go(c, p) BY DEF Sync
<1> QED BY GoMoves

\* A version check ends its caller or lets it write the cache.
LEMMA CheckMoves ==
    ASSUME TypeOK, NEW c \in Callers, Check(c)
    PROVE  Moved(c) /\ at'[c].pc \in {"idle", "cache"} /\ (Kept(c) \/ Cleared(c))
<1> \E p \in {"idle", "cache"} : Go(c, p) BY DEF Check
<1> QED BY GoMoves

\* A cache write ends its caller.
LEMMA CacheMoves ==
    ASSUME TypeOK, NEW c \in Callers, Cache(c)
    PROVE  Moved(c) /\ at'[c].pc \in {"idle"} /\ (Kept(c) \/ Cleared(c))
<1> \E p \in {"idle"} : Go(c, p) BY DEF Cache
<1> QED BY GoMoves

\* A crash ends its caller.
LEMMA CrashMoves ==
    ASSUME TypeOK, NEW c \in Callers, Crash(c)
    PROVE  Moved(c) /\ at'[c].pc \in {"idle"} /\ (Kept(c) \/ Cleared(c))
<1> \E p \in {"idle"} : Go(c, p) BY DEF Crash
<1> QED BY GoMoves

\* Whoever tries for the lock reads, waits or gives up.
LEMMA AcquireMoves ==
    ASSUME TypeOK, NEW c \in Callers, Acquire(c)
    PROVE  /\ Moved(c) /\ (Kept(c) \/ Cleared(c)) /\ mishaps \subseteq mishaps'
           /\ \/ /\ at'[c].pc = "read" /\ lock = NoCaller /\ lock' = c
                 /\ holds' = holds \cup {c}
              \/ at'[c].pc \in {"idle", "wait"} /\ lock' = lock /\ holds' = holds
              \/ at'[c].pc = "read" /\ "overlap" \in mishaps' /\ holds' = holds
<1>1. ASSUME NEW p \in {"read", "idle", "wait"}, Go(c, p)
      PROVE  Moved(c) /\ at'[c].pc = p /\ (Kept(c) \/ Cleared(c))
    BY <1>1, GoMoves
<1>2. CASE Go(c, "read") /\ SetNX(c) /\ holds' = holds \cup {c} /\ UNCHANGED mishaps
    BY <1>1, <1>2 DEF SetNX
<1>3. CASE Go(c, IF c \in Background THEN "idle" ELSE "wait") /\ UNCHANGED <<lock, holds, mishaps>>
    BY <1>1, <1>3
<1>4. CASE Go(c, "read") /\ Note({"overlap"}) /\ UNCHANGED holds
    BY <1>1, <1>4
<1> QED BY <1>2, <1>3, <1>4 DEF Acquire

\* A refused caller leaves, with nothing in hand.
LEMMA RecoverMoves ==
    ASSUME TypeOK, NEW c \in Callers, Recover(c)
    PROVE  Moved(c) /\ at[c].pc = "recover" /\ at'[c].pc = "unlock" /\ Cleared(c)
<1>0. at[c] \in Caller /\ stored \in Credentials BY DEF TypeOK
<1>1. CASE Leave(c, AfterNone(c), stored)
    BY <1>0, <1>1, LeaveMoves DEF Recover, AfterNone
<1>2. CASE Leave(c, AfterError(c), at[c].acct)
    BY <1>0, <1>2, LeaveMoves DEF Recover, AfterError
<1>3. CASE Leave(c, "deny", at[c].fresh)
    BY <1>0, <1>3, LeaveMoves DEF Recover
<1> QED BY <1>1, <1>2, <1>3 DEF Recover

\* Grok's caller leaves once the cached token is deleted.
LEMMA PurgeMoves ==
    ASSUME TypeOK, NEW c \in Callers, Purge(c)
    PROVE  Moved(c) /\ at[c].pc = "purge" /\ at'[c].pc = "unlock" /\ Cleared(c)
<1>0. stored \in Credentials BY DEF TypeOK
<1>1. /\ at[c].pc = "purge"
      /\ \E place \in {AfterSuccess(c), AfterError(c)} : Leave(c, place, stored)
    BY DEF Purge
<1>2. AfterSuccess(c) \in After /\ AfterError(c) \in After BY DEF AfterSuccess, AfterNone, AfterError
<1> QED BY <1>0, <1>1, <1>2, LeaveMoves

\* The first pair is stored, alive and in nobody's hands.
LEMMA InitIInv == Init => IInv
<1> SUFFICES ASSUME Init PROVE IInv
    OBVIOUS
<1> USE DEF Init
<1>1. TypeOK
    <2>1. at \in [Callers -> Caller] /\ stored \in Credentials /\ minted \in Pairs
        OBVIOUS
    <2>2. admin \in [at : {"idle", "read", "write", "clear", "purge"}, doing : {"edit", "refresh", "reauth"},
                     creds : Credentials, status : {"active", "error"}, seen : Credentials]
        OBVIOUS
    <2>3. /\ live \subseteq Pairs /\ due \in 0 .. MaxMints /\ asked \in 0 .. MaxAsked
          /\ faults \in 0 .. MaxFaults
        OBVIOUS
    <2>4. mishaps \subseteq Mishaps
        OBVIOUS
    <2> QED BY <2>1, <2>2, <2>3, <2>4 DEF TypeOK
<1>2. Minting BY DEF Minting, Numbers, Apart, Plain, InFlight
<1>3. Exclusive BY DEF Exclusive
<1>4. Current BY DEF Current
<1>5. Succession BY DEF Succession
<1>6. SpentOnce BY DEF SpentOnce
<1> QED BY <1>1, <1>2, <1>3, <1>4, <1>5, <1>6 DEF IInv

\* Types, action by action.
LEMMA NextTypeOK == TypeOK /\ [Next]_vars => TypeOK'
<1> USE DEF TypeOK
<1> SUFFICES ASSUME TypeOK, [Next]_vars PROVE TypeOK'
    OBVIOUS
<1>1. ASSUME NEW c \in Callers, Begin(c) PROVE TypeOK'
    <2>1. mishaps' \subseteq Mishaps BY <1>1 DEF Begin
    <2>2. at' \in [Callers -> Caller] BY <1>1, BeginMoves DEF Moved
    <2>3. stored' \in Credentials /\ status' \in {"active", "error"} BY <1>1 DEF Begin
    <2>4. minted' \in Pairs /\ live' \subseteq Pairs BY <1>1 DEF Begin
    <2>5. lock' \in Callers \cup {NoCaller} /\ cached' \in {0} \cup Pairs /\ holds' \subseteq Callers BY <1>1 DEF Begin
    <2>6. faults' \in 0 .. MaxFaults BY <1>1 DEF Begin
    <2>7. UNCHANGED <<platform, due, admin, asked>> BY <1>1 DEF Begin
    <2> QED BY <2>1, <2>2, <2>3, <2>4, <2>5, <2>6, <2>7
<1>2. ASSUME NEW c \in Callers, Lookup(c) PROVE TypeOK'
    <2>1. mishaps' \subseteq Mishaps BY <1>2 DEF Lookup
    <2>2. at' \in [Callers -> Caller] BY <1>2, LookupMoves DEF Moved
    <2>3. stored' \in Credentials /\ status' \in {"active", "error"} BY <1>2 DEF Lookup
    <2>4. minted' \in Pairs /\ live' \subseteq Pairs BY <1>2 DEF Lookup
    <2>5. lock' \in Callers \cup {NoCaller} /\ cached' \in {0} \cup Pairs /\ holds' \subseteq Callers BY <1>2 DEF Lookup
    <2>6. faults' \in 0 .. MaxFaults BY <1>2 DEF Lookup
    <2>7. UNCHANGED <<platform, due, admin, asked>> BY <1>2 DEF Lookup
    <2> QED BY <2>1, <2>2, <2>3, <2>4, <2>5, <2>6, <2>7
<1>3. ASSUME NEW c \in Callers, Acquire(c) PROVE TypeOK'
    <2>1. mishaps' \subseteq Mishaps BY <1>3 DEF Acquire, SetNX
    <2>2. at' \in [Callers -> Caller] BY <1>3, AcquireMoves DEF Moved
    <2>3. stored' \in Credentials /\ status' \in {"active", "error"} BY <1>3 DEF Acquire, SetNX
    <2>4. minted' \in Pairs /\ live' \subseteq Pairs BY <1>3 DEF Acquire, SetNX
    <2>5. lock' \in Callers \cup {NoCaller} /\ cached' \in {0} \cup Pairs /\ holds' \subseteq Callers BY <1>3 DEF Acquire, SetNX
    <2>6. faults' \in 0 .. MaxFaults BY <1>3 DEF Acquire, SetNX
    <2>7. UNCHANGED <<platform, due, admin, asked>> BY <1>3 DEF Acquire
    <2> QED BY <2>1, <2>2, <2>3, <2>4, <2>5, <2>6, <2>7
<1>4. ASSUME NEW c \in Callers, Wait(c) PROVE TypeOK'
    <2>1. mishaps' \subseteq Mishaps BY <1>4 DEF Wait
    <2>2. at' \in [Callers -> Caller] BY <1>4, WaitMoves DEF Moved
    <2>3. stored' \in Credentials /\ status' \in {"active", "error"} BY <1>4 DEF Wait
    <2>4. minted' \in Pairs /\ live' \subseteq Pairs BY <1>4 DEF Wait
    <2>5. lock' \in Callers \cup {NoCaller} /\ cached' \in {0} \cup Pairs /\ holds' \subseteq Callers BY <1>4 DEF Wait
    <2>6. faults' \in 0 .. MaxFaults BY <1>4 DEF Wait
    <2>7. UNCHANGED <<platform, due, admin, asked>> BY <1>4 DEF Wait
    <2> QED BY <2>1, <2>2, <2>3, <2>4, <2>5, <2>6, <2>7
<1>5. ASSUME NEW c \in Callers, Read(c) PROVE TypeOK'
    <2>1. mishaps' \subseteq Mishaps BY <1>5 DEF Read, AfterError, AfterNone
    <2>2. at' \in [Callers -> Caller] BY <1>5, ReadMoves DEF Moved
    <2>3. stored' \in Credentials /\ status' \in {"active", "error"} BY <1>5 DEF Read, AfterError, AfterNone
    <2>4. minted' \in Pairs /\ live' \subseteq Pairs BY <1>5 DEF Read, AfterError, AfterNone
    <2>5. lock' \in Callers \cup {NoCaller} /\ cached' \in {0} \cup Pairs /\ holds' \subseteq Callers BY <1>5 DEF Read, AfterError, AfterNone
    <2>6. faults' \in 0 .. MaxFaults BY <1>5 DEF Read, AfterError, AfterNone
    <2>7. UNCHANGED <<platform, due, admin, asked>> BY <1>5 DEF Read
    <2> QED BY <2>1, <2>2, <2>3, <2>4, <2>5, <2>6, <2>7
<1>6. ASSUME NEW c \in Callers, Call(c) PROVE TypeOK'
    <2>1. mishaps' \subseteq Mishaps BY <1>6 DEF Call, AfterError
    <2>2. at' \in [Callers -> Caller] BY <1>6, CallMoves DEF Moved
    <2>3. stored' \in Credentials /\ status' \in {"active", "error"} BY <1>6 DEF Call, AfterError
    <2>4. minted' \in Pairs /\ live' \subseteq Pairs BY <1>6 DEF Call, AfterError
    <2>5. lock' \in Callers \cup {NoCaller} /\ cached' \in {0} \cup Pairs /\ holds' \subseteq Callers BY <1>6 DEF Call, AfterError
    <2>6. faults' \in 0 .. MaxFaults BY <1>6 DEF Call, AfterError
    <2>7. UNCHANGED <<platform, due, admin, asked>> BY <1>6 DEF Call
    <2> QED BY <2>1, <2>2, <2>3, <2>4, <2>5, <2>6, <2>7
<1>7. ASSUME NEW c \in Callers, Recover(c) PROVE TypeOK'
    <2>1. mishaps' \subseteq Mishaps BY <1>7 DEF Recover, AfterError, AfterNone, RaceWasLost
    <2>2. at' \in [Callers -> Caller] BY <1>7, RecoverMoves DEF Moved
    <2>3. stored' \in Credentials /\ status' \in {"active", "error"} BY <1>7 DEF Recover, AfterError, AfterNone, RaceWasLost
    <2>4. minted' \in Pairs /\ live' \subseteq Pairs BY <1>7 DEF Recover, AfterError, AfterNone, RaceWasLost
    <2>5. lock' \in Callers \cup {NoCaller} /\ cached' \in {0} \cup Pairs /\ holds' \subseteq Callers BY <1>7 DEF Recover, AfterError, AfterNone, RaceWasLost
    <2>6. faults' \in 0 .. MaxFaults BY <1>7 DEF Recover, AfterError, AfterNone, RaceWasLost
    <2>7. UNCHANGED <<platform, due, admin, asked>> BY <1>7 DEF Recover
    <2> QED BY <2>1, <2>2, <2>3, <2>4, <2>5, <2>6, <2>7
<1>8. ASSUME NEW c \in Callers, Persist(c) PROVE TypeOK'
    <2>1. mishaps' \subseteq Mishaps BY <1>8 DEF Persist, MayStore, Renewed, AfterError, AfterNone, AfterSuccess
    <2>2. at' \in [Callers -> Caller] BY <1>8, PersistMoves DEF Moved
    <2>3. stored' \in Credentials /\ status' \in {"active", "error"} BY <1>8 DEF Persist, MayStore, Renewed, AfterError, AfterNone, AfterSuccess
    <2>4. minted' \in Pairs /\ live' \subseteq Pairs BY <1>8 DEF Persist, MayStore, Renewed, AfterError, AfterNone, AfterSuccess
    <2>5. lock' \in Callers \cup {NoCaller} /\ cached' \in {0} \cup Pairs /\ holds' \subseteq Callers BY <1>8 DEF Persist, MayStore, Renewed, AfterError, AfterNone, AfterSuccess
    <2>6. faults' \in 0 .. MaxFaults BY <1>8 DEF Persist, MayStore, Renewed, AfterError, AfterNone, AfterSuccess
    <2>7. UNCHANGED <<platform, due, admin, asked>> BY <1>8 DEF Persist
    <2> QED BY <2>1, <2>2, <2>3, <2>4, <2>5, <2>6, <2>7
<1>9. ASSUME NEW c \in Callers, Purge(c) PROVE TypeOK'
    <2>1. mishaps' \subseteq Mishaps BY <1>9 DEF Purge
    <2>2. at' \in [Callers -> Caller] BY <1>9, PurgeMoves DEF Moved
    <2>3. stored' \in Credentials /\ status' \in {"active", "error"} BY <1>9 DEF Purge
    <2>4. minted' \in Pairs /\ live' \subseteq Pairs BY <1>9 DEF Purge
    <2>5. lock' \in Callers \cup {NoCaller} /\ cached' \in {0} \cup Pairs /\ holds' \subseteq Callers BY <1>9 DEF Purge
    <2>6. faults' \in 0 .. MaxFaults BY <1>9 DEF Purge
    <2>7. UNCHANGED <<platform, due, admin, asked>> BY <1>9 DEF Purge
    <2> QED BY <2>1, <2>2, <2>3, <2>4, <2>5, <2>6, <2>7
<1>10. ASSUME NEW c \in Callers, Unlock(c) PROVE TypeOK'
    <2>1. mishaps' \subseteq Mishaps BY <1>10 DEF Unlock
    <2>2. at' \in [Callers -> Caller] BY <1>10, UnlockMoves DEF Moved
    <2>3. stored' \in Credentials /\ status' \in {"active", "error"} BY <1>10 DEF Unlock
    <2>4. minted' \in Pairs /\ live' \subseteq Pairs BY <1>10 DEF Unlock
    <2>5. lock' \in Callers \cup {NoCaller} /\ cached' \in {0} \cup Pairs /\ holds' \subseteq Callers BY <1>10 DEF Unlock
    <2>6. faults' \in 0 .. MaxFaults BY <1>10 DEF Unlock
    <2>7. UNCHANGED <<platform, due, admin, asked>> BY <1>10 DEF Unlock
    <2> QED BY <2>1, <2>2, <2>3, <2>4, <2>5, <2>6, <2>7
<1>11. ASSUME NEW c \in Callers, Deny(c) PROVE TypeOK'
    <2>1. mishaps' \subseteq Mishaps BY <1>11 DEF Deny, MayDeny
    <2>2. at' \in [Callers -> Caller] BY <1>11, DenyMoves DEF Moved
    <2>3. stored' \in Credentials /\ status' \in {"active", "error"} BY <1>11 DEF Deny, MayDeny
    <2>4. minted' \in Pairs /\ live' \subseteq Pairs BY <1>11 DEF Deny, MayDeny
    <2>5. lock' \in Callers \cup {NoCaller} /\ cached' \in {0} \cup Pairs /\ holds' \subseteq Callers BY <1>11 DEF Deny, MayDeny
    <2>6. faults' \in 0 .. MaxFaults BY <1>11 DEF Deny, MayDeny
    <2>7. UNCHANGED <<platform, due, admin, asked>> BY <1>11 DEF Deny
    <2> QED BY <2>1, <2>2, <2>3, <2>4, <2>5, <2>6, <2>7
<1>12. ASSUME NEW c \in Callers, Sync(c) PROVE TypeOK'
    <2>1. mishaps' \subseteq Mishaps BY <1>12 DEF Sync, Invalidated
    <2>2. at' \in [Callers -> Caller] BY <1>12, SyncMoves DEF Moved
    <2>3. stored' \in Credentials /\ status' \in {"active", "error"} BY <1>12 DEF Sync, Invalidated
    <2>4. minted' \in Pairs /\ live' \subseteq Pairs BY <1>12 DEF Sync, Invalidated
    <2>5. lock' \in Callers \cup {NoCaller} /\ cached' \in {0} \cup Pairs /\ holds' \subseteq Callers BY <1>12 DEF Sync, Invalidated
    <2>6. faults' \in 0 .. MaxFaults BY <1>12 DEF Sync, Invalidated
    <2>7. UNCHANGED <<platform, due, admin, asked>> BY <1>12 DEF Sync
    <2> QED BY <2>1, <2>2, <2>3, <2>4, <2>5, <2>6, <2>7
<1>13. ASSUME NEW c \in Callers, Check(c) PROVE TypeOK'
    <2>1. mishaps' \subseteq Mishaps BY <1>13 DEF Check, VersionIsStale
    <2>2. at' \in [Callers -> Caller] BY <1>13, CheckMoves DEF Moved
    <2>3. stored' \in Credentials /\ status' \in {"active", "error"} BY <1>13 DEF Check, VersionIsStale
    <2>4. minted' \in Pairs /\ live' \subseteq Pairs BY <1>13 DEF Check, VersionIsStale
    <2>5. lock' \in Callers \cup {NoCaller} /\ cached' \in {0} \cup Pairs /\ holds' \subseteq Callers BY <1>13 DEF Check, VersionIsStale
    <2>6. faults' \in 0 .. MaxFaults BY <1>13 DEF Check, VersionIsStale
    <2>7. UNCHANGED <<platform, due, admin, asked>> BY <1>13 DEF Check
    <2> QED BY <2>1, <2>2, <2>3, <2>4, <2>5, <2>6, <2>7
<1>14. ASSUME NEW c \in Callers, Cache(c) PROVE TypeOK'
    <2>1. mishaps' \subseteq Mishaps BY <1>14 DEF Cache
    <2>2. at' \in [Callers -> Caller] BY <1>14, CacheMoves DEF Moved
    <2>3. stored' \in Credentials /\ status' \in {"active", "error"} BY <1>14 DEF Cache
    <2>4. minted' \in Pairs /\ live' \subseteq Pairs BY <1>14 DEF Cache
    <2>5. lock' \in Callers \cup {NoCaller} /\ cached' \in {0} \cup Pairs /\ holds' \subseteq Callers BY <1>14 DEF Cache
    <2>6. faults' \in 0 .. MaxFaults BY <1>14 DEF Cache
    <2>7. UNCHANGED <<platform, due, admin, asked>> BY <1>14 DEF Cache
    <2> QED BY <2>1, <2>2, <2>3, <2>4, <2>5, <2>6, <2>7
<1>15. ASSUME NEW c \in Callers, Crash(c) PROVE TypeOK'
    <2>1. mishaps' \subseteq Mishaps BY <1>15 DEF Crash
    <2>2. at' \in [Callers -> Caller] BY <1>15, CrashMoves DEF Moved
    <2>3. stored' \in Credentials /\ status' \in {"active", "error"} BY <1>15 DEF Crash
    <2>4. minted' \in Pairs /\ live' \subseteq Pairs BY <1>15 DEF Crash
    <2>5. lock' \in Callers \cup {NoCaller} /\ cached' \in {0} \cup Pairs /\ holds' \subseteq Callers BY <1>15 DEF Crash
    <2>6. faults' \in 0 .. MaxFaults BY <1>15 DEF Crash
    <2>7. UNCHANGED <<platform, due, admin, asked>> BY <1>15 DEF Crash
    <2> QED BY <2>1, <2>2, <2>3, <2>4, <2>5, <2>6, <2>7
<1>16. CASE EditReads
    <2>1. mishaps' \subseteq Mishaps BY <1>16 DEF EditReads, Asks
    <2>2. admin' \in [at : {"idle", "read", "write", "clear", "purge"}, doing : {"edit", "refresh", "reauth"},
                      creds : Credentials, status : {"active", "error"}, seen : Credentials] BY <1>16 DEF EditReads, Asks
    <2>3. stored' \in Credentials /\ status' \in {"active", "error"} BY <1>16 DEF EditReads, Asks
    <2>4. minted' \in Pairs /\ live' \subseteq Pairs BY <1>16 DEF EditReads, Asks
    <2>5. lock' \in Callers \cup {NoCaller} /\ cached' \in {0} \cup Pairs BY <1>16 DEF EditReads, Asks
    <2>6. faults' \in 0 .. MaxFaults /\ asked' \in 0 .. MaxAsked BY <1>16 DEF EditReads, Asks
    <2>7. UNCHANGED <<platform, due, at, holds>> BY <1>16 DEF EditReads
    <2> QED BY <2>1, <2>2, <2>3, <2>4, <2>5, <2>6, <2>7
<1>17. CASE ManualRefresh
    <2>1. mishaps' \subseteq Mishaps BY <1>17 DEF ManualRefresh, Asks
    <2>2. admin' \in [at : {"idle", "read", "write", "clear", "purge"}, doing : {"edit", "refresh", "reauth"},
                      creds : Credentials, status : {"active", "error"}, seen : Credentials] 
        <3> DEFINE creds == [pair |-> NextPair, version |-> stored.version]
        <3>1. creds \in Credentials BY <1>17 DEF ManualRefresh, Asks
        <3>2. admin' = [admin EXCEPT !.at = "read", !.doing = "refresh", !.creds = creds]
            BY <1>17 DEF ManualRefresh
        <3> HIDE DEF creds
        <3> QED BY <3>1, <3>2
    <2>3. stored' \in Credentials /\ status' \in {"active", "error"} BY <1>17 DEF ManualRefresh, Asks
    <2>4. minted' \in Pairs /\ live' \subseteq Pairs BY <1>17 DEF ManualRefresh, Asks
    <2>5. lock' \in Callers \cup {NoCaller} /\ cached' \in {0} \cup Pairs BY <1>17 DEF ManualRefresh, Asks
    <2>6. faults' \in 0 .. MaxFaults /\ asked' \in 0 .. MaxAsked BY <1>17 DEF ManualRefresh, Asks
    <2>7. UNCHANGED <<platform, due, at, holds>> BY <1>17 DEF ManualRefresh
    <2> QED BY <2>1, <2>2, <2>3, <2>4, <2>5, <2>6, <2>7
<1>18. CASE Reauthorize
    <2>1. mishaps' \subseteq Mishaps BY <1>18 DEF Reauthorize, Asks
    <2>2. admin' \in [at : {"idle", "read", "write", "clear", "purge"}, doing : {"edit", "refresh", "reauth"},
                      creds : Credentials, status : {"active", "error"}, seen : Credentials] 
        <3> DEFINE creds == [pair |-> NextPair, version |-> stored.version]
        <3>1. creds \in Credentials BY <1>18 DEF Reauthorize, Asks
        <3>2. admin' = [admin EXCEPT !.at = "read", !.doing = "reauth", !.creds = creds]
            BY <1>18 DEF Reauthorize
        <3> HIDE DEF creds
        <3> QED BY <3>1, <3>2
    <2>3. stored' \in Credentials /\ status' \in {"active", "error"} BY <1>18 DEF Reauthorize, Asks
    <2>4. minted' \in Pairs /\ live' \subseteq Pairs BY <1>18 DEF Reauthorize, Asks
    <2>5. lock' \in Callers \cup {NoCaller} /\ cached' \in {0} \cup Pairs BY <1>18 DEF Reauthorize, Asks
    <2>6. faults' \in 0 .. MaxFaults /\ asked' \in 0 .. MaxAsked BY <1>18 DEF Reauthorize, Asks
    <2>7. UNCHANGED <<platform, due, at, holds>> BY <1>18 DEF Reauthorize
    <2> QED BY <2>1, <2>2, <2>3, <2>4, <2>5, <2>6, <2>7
<1>19. CASE AdminReads
    <2>1. mishaps' \subseteq Mishaps BY <1>19 DEF AdminReads
    <2>2. admin' \in [at : {"idle", "read", "write", "clear", "purge"}, doing : {"edit", "refresh", "reauth"},
                      creds : Credentials, status : {"active", "error"}, seen : Credentials] BY <1>19 DEF AdminReads
    <2>3. stored' \in Credentials /\ status' \in {"active", "error"} BY <1>19 DEF AdminReads
    <2>4. minted' \in Pairs /\ live' \subseteq Pairs BY <1>19 DEF AdminReads
    <2>5. lock' \in Callers \cup {NoCaller} /\ cached' \in {0} \cup Pairs BY <1>19 DEF AdminReads
    <2>6. faults' \in 0 .. MaxFaults /\ asked' \in 0 .. MaxAsked BY <1>19 DEF AdminReads
    <2>7. UNCHANGED <<platform, due, at, holds>> BY <1>19 DEF AdminReads
    <2> QED BY <2>1, <2>2, <2>3, <2>4, <2>5, <2>6, <2>7
<1>20. CASE AdminWrites
    <2>1. mishaps' \subseteq Mishaps BY <1>20 DEF AdminWrites
    <2>2. admin' \in [at : {"idle", "read", "write", "clear", "purge"}, doing : {"edit", "refresh", "reauth"},
                      creds : Credentials, status : {"active", "error"}, seen : Credentials] BY <1>20 DEF AdminWrites
    <2>3. stored' \in Credentials /\ status' \in {"active", "error"} BY <1>20 DEF AdminWrites
    <2>4. minted' \in Pairs /\ live' \subseteq Pairs BY <1>20 DEF AdminWrites
    <2>5. lock' \in Callers \cup {NoCaller} /\ cached' \in {0} \cup Pairs BY <1>20 DEF AdminWrites
    <2>6. faults' \in 0 .. MaxFaults /\ asked' \in 0 .. MaxAsked BY <1>20 DEF AdminWrites
    <2>7. UNCHANGED <<platform, due, at, holds>> BY <1>20 DEF AdminWrites
    <2> QED BY <2>1, <2>2, <2>3, <2>4, <2>5, <2>6, <2>7
<1>21. CASE AdminClears
    <2>1. mishaps' \subseteq Mishaps BY <1>21 DEF AdminClears
    <2>2. admin' \in [at : {"idle", "read", "write", "clear", "purge"}, doing : {"edit", "refresh", "reauth"},
                      creds : Credentials, status : {"active", "error"}, seen : Credentials] BY <1>21 DEF AdminClears
    <2>3. stored' \in Credentials /\ status' \in {"active", "error"} BY <1>21 DEF AdminClears
    <2>4. minted' \in Pairs /\ live' \subseteq Pairs BY <1>21 DEF AdminClears
    <2>5. lock' \in Callers \cup {NoCaller} /\ cached' \in {0} \cup Pairs BY <1>21 DEF AdminClears
    <2>6. faults' \in 0 .. MaxFaults /\ asked' \in 0 .. MaxAsked BY <1>21 DEF AdminClears
    <2>7. UNCHANGED <<platform, due, at, holds>> BY <1>21 DEF AdminClears
    <2> QED BY <2>1, <2>2, <2>3, <2>4, <2>5, <2>6, <2>7
<1>22. CASE AdminPurges
    <2>1. mishaps' \subseteq Mishaps BY <1>22 DEF AdminPurges
    <2>2. admin' \in [at : {"idle", "read", "write", "clear", "purge"}, doing : {"edit", "refresh", "reauth"},
                      creds : Credentials, status : {"active", "error"}, seen : Credentials] BY <1>22 DEF AdminPurges
    <2>3. stored' \in Credentials /\ status' \in {"active", "error"} BY <1>22 DEF AdminPurges
    <2>4. minted' \in Pairs /\ live' \subseteq Pairs BY <1>22 DEF AdminPurges
    <2>5. lock' \in Callers \cup {NoCaller} /\ cached' \in {0} \cup Pairs BY <1>22 DEF AdminPurges
    <2>6. faults' \in 0 .. MaxFaults /\ asked' \in 0 .. MaxAsked BY <1>22 DEF AdminPurges
    <2>7. UNCHANGED <<platform, due, at, holds>> BY <1>22 DEF AdminPurges
    <2> QED BY <2>1, <2>2, <2>3, <2>4, <2>5, <2>6, <2>7
<1>23. CASE LockExpires
    <2>1. mishaps' \subseteq Mishaps BY <1>23 DEF LockExpires
    <2>2. admin' \in [at : {"idle", "read", "write", "clear", "purge"}, doing : {"edit", "refresh", "reauth"},
                      creds : Credentials, status : {"active", "error"}, seen : Credentials] BY <1>23 DEF LockExpires
    <2>3. stored' \in Credentials /\ status' \in {"active", "error"} BY <1>23 DEF LockExpires
    <2>4. minted' \in Pairs /\ live' \subseteq Pairs BY <1>23 DEF LockExpires
    <2>5. lock' \in Callers \cup {NoCaller} /\ cached' \in {0} \cup Pairs BY <1>23 DEF LockExpires
    <2>6. faults' \in 0 .. MaxFaults /\ asked' \in 0 .. MaxAsked BY <1>23 DEF LockExpires
    <2>7. UNCHANGED <<platform, due, at, holds>> BY <1>23 DEF LockExpires
    <2> QED BY <2>1, <2>2, <2>3, <2>4, <2>5, <2>6, <2>7
<1>24. CASE TokenAges BY <1>24 DEF TokenAges
<1>25. CASE CacheExpires BY <1>25 DEF CacheExpires
<1>26. CASE UNCHANGED vars BY <1>26 DEF vars
<1> QED BY <1>1, <1>2, <1>3, <1>4, <1>5, <1>6, <1>7, <1>8, <1>9, <1>10, <1>11, <1>12, <1>13, <1>14, <1>15, <1>16, <1>17, <1>18, <1>19, <1>20, <1>21, <1>22, <1>23, <1>24, <1>25, <1>26 DEF Next, Refresh, Administration

\* A step that leaves tokens, numbers and lock alone, and does not lead to the provider.
Quiet(c) ==
    /\ Moved(c) /\ (Kept(c) \/ Cleared(c))
    /\ UNCHANGED <<stored, minted, live, admin, lock>>
    /\ mishaps \subseteq mishaps' /\ holds \ {c} \subseteq holds'
    /\ at'[c].pc \notin Inside \ {"unlock"}
    /\ at'[c].pc = "unlock" => at[c].pc \in Inside /\ holds' = holds
    /\ at[c].pc = "persist" => "lost" \in mishaps'

\* These steps change neither tokens nor who may write them.
LEMMA QuietSteps ==
    ASSUME TypeOK, NEW c \in Callers,
           \/ Begin(c) \/ Lookup(c) \/ Wait(c) \/ Deny(c) \/ Sync(c) \/ Check(c) \/ Cache(c)
           \/ Recover(c) \/ Purge(c) \/ Crash(c)
    PROVE  Quiet(c)
<1>1. CASE Begin(c)
    <2>1. UNCHANGED <<stored, minted, live, admin, lock>> /\ mishaps \subseteq mishaps'
        BY <1>1 DEF Begin
    <2>2. holds \ {c} \subseteq holds' BY <1>1 DEF Begin
    <2>3. at[c].pc = "persist" => "lost" \in mishaps' BY <1>1 DEF Begin
    <2> QED BY <1>1, <2>1, <2>2, <2>3, BeginMoves DEF Quiet
<1>2. CASE Lookup(c)
    <2>1. UNCHANGED <<stored, minted, live, admin, lock>> /\ mishaps \subseteq mishaps'
        BY <1>2 DEF Lookup
    <2>2. holds \ {c} \subseteq holds' BY <1>2 DEF Lookup
    <2>3. at[c].pc = "persist" => "lost" \in mishaps' BY <1>2 DEF Lookup
    <2> QED BY <1>2, <2>1, <2>2, <2>3, LookupMoves DEF Quiet
<1>3. CASE Wait(c)
    <2>1. UNCHANGED <<stored, minted, live, admin, lock>> /\ mishaps \subseteq mishaps'
        BY <1>3 DEF Wait
    <2>2. holds \ {c} \subseteq holds' BY <1>3 DEF Wait
    <2>3. at[c].pc = "persist" => "lost" \in mishaps' BY <1>3 DEF Wait
    <2> QED BY <1>3, <2>1, <2>2, <2>3, WaitMoves DEF Quiet
<1>4. CASE Deny(c)
    <2>1. UNCHANGED <<stored, minted, live, admin, lock>> /\ mishaps \subseteq mishaps'
        BY <1>4 DEF Deny
    <2>2. holds \ {c} \subseteq holds' BY <1>4 DEF Deny
    <2>3. at[c].pc = "persist" => "lost" \in mishaps' BY <1>4 DEF Deny
    <2> QED BY <1>4, <2>1, <2>2, <2>3, DenyMoves DEF Quiet
<1>5. CASE Sync(c)
    <2>1. UNCHANGED <<stored, minted, live, admin, lock>> /\ mishaps \subseteq mishaps'
        BY <1>5 DEF Sync
    <2>2. holds \ {c} \subseteq holds' BY <1>5 DEF Sync
    <2>3. at[c].pc = "persist" => "lost" \in mishaps' BY <1>5 DEF Sync
    <2> QED BY <1>5, <2>1, <2>2, <2>3, SyncMoves DEF Quiet
<1>6. CASE Check(c)
    <2>1. UNCHANGED <<stored, minted, live, admin, lock>> /\ mishaps \subseteq mishaps'
        BY <1>6 DEF Check
    <2>2. holds \ {c} \subseteq holds' BY <1>6 DEF Check
    <2>3. at[c].pc = "persist" => "lost" \in mishaps' BY <1>6 DEF Check
    <2> QED BY <1>6, <2>1, <2>2, <2>3, CheckMoves DEF Quiet
<1>7. CASE Cache(c)
    <2>1. UNCHANGED <<stored, minted, live, admin, lock>> /\ mishaps \subseteq mishaps'
        BY <1>7 DEF Cache
    <2>2. holds \ {c} \subseteq holds' BY <1>7 DEF Cache
    <2>3. at[c].pc = "persist" => "lost" \in mishaps' BY <1>7 DEF Cache
    <2> QED BY <1>7, <2>1, <2>2, <2>3, CacheMoves DEF Quiet
<1>8. CASE Recover(c)
    <2>1. UNCHANGED <<stored, minted, live, admin, lock>> /\ mishaps \subseteq mishaps'
        BY <1>8 DEF Recover
    <2>2. holds \ {c} \subseteq holds' BY <1>8 DEF Recover
    <2>3. at[c].pc = "persist" => "lost" \in mishaps' BY <1>8 DEF Recover
    <2>4. holds' = holds BY <1>8 DEF Recover
    <2> QED BY <1>8, <2>1, <2>2, <2>3, <2>4, RecoverMoves DEF Quiet
<1>9. CASE Purge(c)
    <2>1. UNCHANGED <<stored, minted, live, admin, lock>> /\ mishaps \subseteq mishaps'
        BY <1>9 DEF Purge
    <2>2. holds \ {c} \subseteq holds' BY <1>9 DEF Purge
    <2>3. at[c].pc = "persist" => "lost" \in mishaps' BY <1>9 DEF Purge
    <2>4. holds' = holds BY <1>9 DEF Purge
    <2> QED BY <1>9, <2>1, <2>2, <2>3, <2>4, PurgeMoves DEF Quiet
<1>10. CASE Crash(c)
    <2>1. UNCHANGED <<stored, minted, live, admin, lock>> /\ mishaps \subseteq mishaps'
        BY <1>10 DEF Crash
    <2>2. holds \ {c} \subseteq holds' BY <1>10 DEF Crash
    <2>3. at[c].pc = "persist" => "lost" \in mishaps' BY <1>10 DEF Crash
    <2> QED BY <1>10, <2>1, <2>2, <2>3, CrashMoves DEF Quiet
<1> QED BY <1>1, <1>2, <1>3, <1>4, <1>5, <1>6, <1>7, <1>8, <1>9, <1>10

\* What the administrator's requests do to the tokens.
Administers ==
        /\ UNCHANGED <<lock, at, holds>> /\ mishaps \subseteq mishaps'
        /\ \/ /\ admin.at = "idle" /\ admin'.at = "write" /\ admin'.doing = "edit"
              /\ admin'.creds = stored /\ admin'.seen = stored /\ UNCHANGED <<stored, minted, live>>
           \/ /\ admin.at = "idle" /\ admin'.at = "read" /\ admin'.doing # "edit"
              /\ admin'.creds.pair = NextPair /\ minted' = NextPair /\ stored' = stored
              /\ NextPair \in live' /\ live' \subseteq live \cup {NextPair}
           \/ /\ admin.at = "read" /\ admin'.at = "write" /\ admin'.doing = admin.doing
              /\ admin'.creds = admin.creds /\ UNCHANGED <<stored, minted, live>>
           \/ /\ admin.at = "write" /\ admin'.at \notin {"read", "write"}
              /\ admin'.creds \in {First, admin.creds}
              /\ stored' = admin.creds /\ UNCHANGED <<minted, live>>
              /\ stored = admin.seen \/ "overwritten" \in mishaps'
              /\ \/ admin.doing = "edit" \/ mishaps' \cap {"overlap", "revoked"} # {}
                 \/ \A c \in Callers : ~In(c, "call")
           \/ /\ admin'.at \notin {"read", "write"} /\ UNCHANGED <<stored, minted, live>>
              /\ admin'.creds \in {First, admin.creds}
              /\ admin.at \notin {"read", "write"} \/ admin.doing = "edit" \/ "lost" \in mishaps'

\* What the administrator's requests do is one of these.
LEMMA AdminSteps ==
    ASSUME TypeOK, Administration
    PROVE  Administers
<1> USE DEF Administers
<1>1. CASE EditReads BY <1>1 DEF EditReads, Asks
<1>2. CASE ManualRefresh BY <1>2 DEF ManualRefresh, Asks, TypeOK
<1>3. CASE Reauthorize BY <1>3 DEF Reauthorize, Asks, TypeOK
<1>4. CASE AdminReads BY <1>4 DEF AdminReads, TypeOK
<1>5. CASE AdminWrites
    <2>1. admin.at = "write" /\ UNCHANGED <<minted, live, lock, at, holds>> /\ mishaps \subseteq mishaps'
        BY <1>5 DEF AdminWrites
    <2>2. CASE admin' = NoRequest /\ UNCHANGED stored /\ (admin.doing = "edit" \/ "lost" \in mishaps')
        BY <2>1, <2>2
    <2>3. ASSUME stored' = admin.creds,
                 admin' = CASE admin.doing = "edit" -> NoRequest
                            [] admin.doing = "refresh" -> [NoRequest EXCEPT !.at = "purge"]
                            [] admin.doing = "reauth" -> [NoRequest EXCEPT !.at = "clear"]
          PROVE  admin'.at \in {"idle", "purge", "clear"} /\ admin'.creds = First
        <3>1. admin.doing \in {"edit", "refresh", "reauth"} BY DEF TypeOK
        <3> QED BY <2>3, <3>1
    <2>4. ASSUME stored' = admin.creds, admin'.at \in {"idle", "purge", "clear"},
                 LET called == \E c \in Callers : In(c, "call")
                 IN Note(IfSo(stored # admin.seen \/ status # admin.status, "overwritten")
                         \cup IfSo(admin.doing = "refresh" /\ called, "overlap")
                         \cup IfSo(admin.doing = "reauth" /\ called, "revoked")
                         \cup IfSo(admin.doing # "edit" /\ \E r \in Requests : ~In(r, "idle"), "stale"))
          PROVE  /\ stored = admin.seen \/ "overwritten" \in mishaps'
                 /\ \/ admin.doing = "edit" \/ mishaps' \cap {"overlap", "revoked"} # {}
                    \/ \A c \in Callers : ~In(c, "call")
        <3>1. admin.doing \in {"edit", "refresh", "reauth"} BY DEF TypeOK
        <3> QED BY <2>4, <3>1
    <2> QED BY <1>5, <2>1, <2>2, <2>3, <2>4 DEF AdminWrites
<1>6. CASE AdminClears BY <1>6 DEF AdminClears, TypeOK
<1>7. CASE AdminPurges BY <1>7 DEF AdminPurges
<1> QED BY <1>1, <1>2, <1>3, <1>4, <1>5, <1>6, <1>7 DEF Administration

\* The effects of the other steps.
Acquires(c) ==
    /\ Moved(c) /\ (Kept(c) \/ Cleared(c))
    /\ UNCHANGED <<stored, minted, live, admin>> /\ mishaps \subseteq mishaps'
    /\ at[c].pc = "lock"
    /\ \/ at'[c].pc = "read" /\ lock = NoCaller /\ lock' = c /\ holds' = holds \cup {c}
       \/ at'[c].pc \in {"idle", "wait"} /\ lock' = lock /\ holds' = holds
       \/ at'[c].pc = "read" /\ "overlap" \in mishaps' /\ holds' = holds

Reads(c) ==
    /\ Moved(c) /\ UNCHANGED <<stored, minted, live, admin, lock, holds, mishaps>>
    /\ at[c].pc = "read"
    /\ \/ at'[c].pc = "call" /\ at'[c].fresh = stored /\ at'[c].got = at[c].got
       \/ at'[c].pc = "unlock" /\ Cleared(c)

Calls(c) ==
    /\ Moved(c) /\ at[c].pc = "call" /\ UNCHANGED <<stored, lock, holds, admin>>
    /\ \/ /\ at'[c].pc = "persist" /\ at'[c].fresh = at[c].fresh /\ at'[c].got = NextPair
          /\ Granted(c) /\ mishaps' = mishaps
       \/ at'[c].pc = "unlock" /\ Cleared(c) /\ Granted(c) /\ mishaps' = mishaps \cup {"lost"}
       \/ at'[c].pc = "recover" /\ (Kept(c) \/ Cleared(c)) /\ Refused(c)
       \/ at'[c].pc = "unlock" /\ Cleared(c) /\ UNCHANGED <<minted, live, mishaps>>

Persists(c) ==
    /\ Moved(c) /\ at[c].pc = "persist" /\ at'[c].pc \in {"purge", "unlock"} /\ (Kept(c) \/ Cleared(c))
    /\ UNCHANGED <<minted, live, lock, holds, admin>> /\ mishaps \subseteq mishaps'
    /\ \/ stored'.pair = at[c].got /\ (stored = at[c].fresh \/ "overwritten" \in mishaps')
       \/ stored' = stored /\ (stored # at[c].fresh \/ "lost" \in mishaps')

Unlocks(c) ==
    /\ Moved(c) /\ at[c].pc = "unlock" /\ at'[c].pc \in After /\ (Kept(c) \/ Cleared(c))
    /\ UNCHANGED <<stored, minted, live, admin, mishaps>> /\ holds' = holds \ {c}
    /\ lock' = lock \/ (c \in holds /\ lock' = NoCaller)

Expires ==
    /\ UNCHANGED <<stored, minted, live, admin, at, holds>> /\ mishaps \subseteq mishaps'
    /\ lock' = lock \/ (lock' = NoCaller /\ (lock \notin holds \/ "overlap" \in mishaps'))

\* Every step is one of these.
LEMMA Steps ==
    ASSUME TypeOK, [Next]_vars
    PROVE  \/ \E c \in Callers : \/ Quiet(c) \/ Acquires(c) \/ Reads(c) \/ Calls(c) \/ Persists(c)
                                 \/ Unlocks(c)
           \/ Administration /\ Administers
           \/ Expires
<1>1. ASSUME NEW c \in Callers, Acquire(c) PROVE Acquires(c)
    <2>1. UNCHANGED <<stored, minted, live, admin>> /\ at[c].pc = "lock" BY <1>1 DEF Acquire
    <2> QED BY <1>1, <2>1, AcquireMoves DEF Acquires
<1>2. ASSUME NEW c \in Callers, Read(c) PROVE Reads(c)
    <2>1. UNCHANGED <<stored, minted, live, admin, lock, holds, mishaps>> BY <1>2 DEF Read
    <2> QED BY <1>2, <2>1, ReadMoves DEF Reads
<1>3. ASSUME NEW c \in Callers, Call(c) PROVE Calls(c)
    BY <1>3, CallMoves DEF Calls
<1>4. ASSUME NEW c \in Callers, Persist(c) PROVE Persists(c)
    BY <1>4, PersistMoves, PersistStores DEF Persists, Renewed
<1>5. ASSUME NEW c \in Callers, Unlock(c) PROVE Unlocks(c)
    <2>1. /\ UNCHANGED <<stored, minted, live, admin, mishaps>> /\ holds' = holds \ {c}
          /\ lock' = lock \/ (c \in holds /\ lock' = NoCaller)
        BY <1>5 DEF Unlock
    <2> QED BY <1>5, <2>1, UnlockMoves DEF Unlocks
<1>6. ASSUME Administration PROVE Administration /\ Administers
    BY <1>6, AdminSteps
<1>7. CASE LockExpires BY <1>7 DEF LockExpires, Expires
<1>8. CASE TokenAges BY <1>8 DEF TokenAges, Expires
<1>9. CASE CacheExpires BY <1>9 DEF CacheExpires, Expires
<1>10. CASE UNCHANGED vars BY <1>10 DEF vars, Expires
<1> QED BY <1>1, <1>2, <1>3, <1>4, <1>5, <1>6, <1>7, <1>8, <1>9, <1>10, QuietSteps DEF Next, Refresh

\* What the numbers are, of the type invariant.
LEMMA Ints ==
    ASSUME TypeOK
    PROVE  /\ minted \in Nat /\ 1 <= minted /\ stored.pair \in Nat
           /\ \A c \in Callers : at[c].got \in Nat /\ at[c].fresh.pair \in Nat /\ at[c].pc \in Places
           /\ admin.creds.pair \in Nat /\ live \subseteq Nat
BY DEF TypeOK

\* New pairs are larger than any before.
LEMMA NextMinting == TypeOK /\ Minting /\ [Next]_vars => Minting'
<1> USE DEF Numbers, Apart, Plain, Minting, InFlight
<1> SUFFICES ASSUME TypeOK, Minting, [Next]_vars PROVE Minting'
    OBVIOUS
<1>a. /\ minted \in Nat /\ 1 <= minted /\ stored.pair \in Nat
      /\ \A c \in Callers : at[c].got \in Nat /\ at[c].fresh.pair \in Nat /\ at[c].pc \in Places
      /\ admin.creds.pair \in Nat /\ live \subseteq Nat
    BY Ints
<1>1. ASSUME NEW c \in Callers, Quiet(c) PROVE Minting'
    <2>1. Numbers' BY <1>1, <1>a DEF Quiet, Moved, Kept, Cleared
    <2>2. Apart' BY <1>1, <1>a DEF Quiet, Moved, Kept, Cleared
    <2>3. Plain' BY <1>1, <1>a DEF Quiet, Moved, Kept, Cleared
    <2> QED BY <2>1, <2>2, <2>3
<1>2. ASSUME NEW c \in Callers, Acquires(c) PROVE Minting'
    <2>1. Numbers' BY <1>2, <1>a DEF Acquires, Moved, Kept, Cleared
    <2>2. Apart' BY <1>2, <1>a DEF Acquires, Moved, Kept, Cleared
    <2>3. Plain' BY <1>2, <1>a DEF Acquires, Moved, Kept, Cleared
    <2> QED BY <2>1, <2>2, <2>3
<1>3. ASSUME NEW c \in Callers, Reads(c) PROVE Minting'
    <2>1. Numbers' BY <1>3, <1>a DEF Reads, Moved, Kept, Cleared
    <2>2. Apart' BY <1>3, <1>a DEF Reads, Moved, Kept, Cleared
    <2>3. Plain' BY <1>3, <1>a DEF Reads, Moved, Kept, Cleared
    <2> QED BY <2>1, <2>2, <2>3
<1>4. ASSUME NEW c \in Callers, Calls(c) PROVE Minting'
    <2>1. Numbers'
        <3>1. CASE Granted(c)
            <4>1. /\ minted' = minted + 1 /\ stored' = stored /\ admin' = admin
                  /\ \A n \in live' : n <= minted'
                BY <3>1, <1>4, <1>a DEF Calls, Granted
            <4>2. at'[c].got <= minted' /\ at'[c].fresh.pair <= minted'
                BY <3>1, <4>1, <1>4, <1>a DEF Calls, Granted, Cleared, Kept
            <4>3. \A d \in Callers : at'[d].got <= minted' /\ at'[d].fresh.pair <= minted'
                BY <4>1, <4>2, <1>4, <1>a DEF Calls, Moved
            <4> QED BY <4>1, <4>3, <1>a
        <3>2. CASE UNCHANGED <<minted, live>>
            BY <3>2, <1>4, <1>a DEF Calls, Moved, Kept, Cleared, Granted
        <3> QED BY <3>1, <3>2, <1>4 DEF Calls, Refused
    <2>2. Apart' BY <1>4, <1>a DEF Calls, Moved, Kept, Cleared, Granted, Refused
    <2>3. Plain' BY <1>4, <1>a DEF Calls, Moved, Kept, Cleared, Granted, Refused
    <2> QED BY <2>1, <2>2, <2>3
<1>5. ASSUME NEW c \in Callers, Persists(c) PROVE Minting'
    <2>1. Numbers' BY <1>5, <1>a DEF Persists, Moved, Kept, Cleared
    <2>2. Apart'
        <3>1. admin' = admin /\ live' = live BY <1>5 DEF Persists
        <3>2. CASE InFlight
            <4>1. stored'.pair # admin.creds.pair
                BY <3>2, <1>5, <1>a DEF Persists
            <4>2. at'[c].got # admin.creds.pair /\ at'[c].fresh.pair # admin.creds.pair
                BY <3>2, <1>5, <1>a DEF Persists, Kept, Cleared
            <4> QED BY <3>1, <3>2, <4>1, <4>2, <1>5 DEF Persists, Moved
        <3> QED BY <3>1, <3>2
    <2>3. Plain' BY <1>5, <1>a DEF Persists, Moved, Kept, Cleared
    <2> QED BY <2>1, <2>2, <2>3
<1>6. ASSUME NEW c \in Callers, Unlocks(c) PROVE Minting'
    <2>1. Numbers' BY <1>6, <1>a DEF Unlocks, Moved, Kept, Cleared
    <2>2. Apart' BY <1>6, <1>a DEF Unlocks, Moved, Kept, Cleared
    <2>3. Plain' BY <1>6, <1>a DEF Unlocks, Moved, Kept, Cleared
    <2> QED BY <2>1, <2>2, <2>3
<1>7. CASE Administers
    <2>1. Numbers'
        <3>0. /\ at' = at /\ (minted' = minted \/ minted' = NextPair)
              /\ stored' \in {stored, admin.creds}
              /\ \/ live' = live
                 \/ minted' = NextPair /\ live' \subseteq live \cup {NextPair}
            BY <1>7 DEF Administers
        <3>1. /\ at' = at /\ minted <= minted' /\ minted' \in Nat
              /\ stored' \in {stored, admin.creds} /\ \A n \in live' : n <= minted'
            <4>1. minted <= minted' /\ minted' \in Nat
                BY <3>0, <1>a
            <4>2. ASSUME NEW n \in live' PROVE n <= minted'
                <5>1. n \in live \/ (n = NextPair /\ minted' = NextPair) BY <3>0
                <5>2. CASE n \in live
                    <6>1. n \in Nat /\ n <= minted BY <5>2, <1>a
                    <6> QED BY <6>1, <4>1, <1>a
                <5>3. CASE n = NextPair /\ minted' = NextPair
                    BY <5>3, <1>a
                <5> QED BY <5>1, <5>2, <5>3
            <4> QED BY <3>0, <4>1, <4>2
        <3>2. admin'.creds.pair <= minted'
            <4>1. CASE admin'.creds \in {First, admin.creds, stored}
                BY <3>1, <4>1, <1>a
            <4>2. CASE admin'.creds.pair = NextPair /\ minted' = NextPair
                BY <4>2, <1>a
            <4> QED BY <4>1, <4>2, <1>7 DEF Administers
        <3> QED BY <3>1, <3>2, <1>a
    <2>2. Apart' BY <1>7, <1>a DEF Administers
    <2>3. Plain' BY <1>7, <1>a DEF Administers
    <2> QED BY <2>1, <2>2, <2>3
<1>8. CASE Expires
    <2>1. Numbers' BY <1>8, <1>a DEF Expires
    <2>2. Apart' BY <1>8, <1>a DEF Expires
    <2>3. Plain' BY <1>8, <1>a DEF Expires
    <2> QED BY <2>1, <2>2, <2>3
<1> QED BY <1>1, <1>2, <1>3, <1>4, <1>5, <1>6, <1>7, <1>8, Steps

\* SET NX lets one caller in, and the key stays while it is inside.
LEMMA NextExclusive == TypeOK /\ Exclusive /\ [Next]_vars => Exclusive'
<1> USE DEF Exclusive, Calm, Bad
<1> SUFFICES ASSUME TypeOK, Exclusive, [Next]_vars PROVE Exclusive'
    OBVIOUS
<1>a. /\ minted \in Nat /\ 1 <= minted /\ stored.pair \in Nat
      /\ \A c \in Callers : at[c].got \in Nat /\ at[c].fresh.pair \in Nat /\ at[c].pc \in Places
      /\ admin.creds.pair \in Nat /\ live \subseteq Nat
    BY Ints
<1>1. ASSUME NEW c \in Callers, Quiet(c) PROVE Exclusive'
    BY <1>1, <1>a DEF Quiet, Moved, Kept, Cleared
<1>2. ASSUME NEW c \in Callers, Acquires(c) PROVE Exclusive'
    BY <1>2, <1>a DEF Acquires, Moved, Kept, Cleared
<1>3. ASSUME NEW c \in Callers, Reads(c) PROVE Exclusive'
    BY <1>3, <1>a DEF Reads, Moved, Kept, Cleared
<1>4. ASSUME NEW c \in Callers, Calls(c) PROVE Exclusive'
    BY <1>4, <1>a DEF Calls, Moved, Kept, Cleared, Granted, Refused
<1>5. ASSUME NEW c \in Callers, Persists(c) PROVE Exclusive'
    BY <1>5, <1>a DEF Persists, Moved, Kept, Cleared
<1>6. ASSUME NEW c \in Callers, Unlocks(c) PROVE Exclusive'
    BY <1>6, <1>a DEF Unlocks, Moved, Kept, Cleared
<1>7. CASE Administers
    BY <1>7, <1>a DEF Administers
<1>8. CASE Expires
    BY <1>8, <1>a DEF Expires
<1> QED BY <1>1, <1>2, <1>3, <1>4, <1>5, <1>6, <1>7, <1>8, Steps

\* Only the caller inside and the administrator write the tokens.
LEMMA NextCurrent == TypeOK /\ Minting /\ Exclusive /\ Current /\ [Next]_vars => Current'
<1> USE DEF Minting, Numbers, Apart, Plain, InFlight, Exclusive, Current, Calm, Bad
<1> SUFFICES ASSUME TypeOK, Minting, Exclusive, Current, [Next]_vars PROVE Current'
    OBVIOUS
<1>a. /\ minted \in Nat /\ 1 <= minted /\ stored.pair \in Nat
      /\ \A c \in Callers : at[c].got \in Nat /\ at[c].fresh.pair \in Nat /\ at[c].pc \in Places
      /\ admin.creds.pair \in Nat /\ live \subseteq Nat
    BY Ints
<1>1. ASSUME NEW c \in Callers, Quiet(c) PROVE Current'
    BY <1>1, <1>a DEF Quiet, Moved, Kept, Cleared
<1>2. ASSUME NEW c \in Callers, Acquires(c) PROVE Current'
    BY <1>2, <1>a DEF Acquires, Moved, Kept, Cleared
<1>3. ASSUME NEW c \in Callers, Reads(c) PROVE Current'
    BY <1>3, <1>a DEF Reads, Moved, Kept, Cleared
<1>4. ASSUME NEW c \in Callers, Calls(c) PROVE Current'
    BY <1>4, <1>a DEF Calls, Moved, Kept, Cleared, Granted, Refused
<1>5. ASSUME NEW c \in Callers, Persists(c) PROVE Current'
    BY <1>5, <1>a DEF Persists, Moved, Kept, Cleared
<1>6. ASSUME NEW c \in Callers, Unlocks(c) PROVE Current'
    BY <1>6, <1>a DEF Unlocks, Moved, Kept, Cleared
<1>7. CASE Administers
    BY <1>7, <1>a DEF Administers
<1>8. CASE Expires
    BY <1>8, <1>a DEF Expires
<1> QED BY <1>1, <1>2, <1>3, <1>4, <1>5, <1>6, <1>7, <1>8, Steps

\* Whoever spends the stored pair holds its successor until it is stored.
LEMMA NextSuccession == TypeOK /\ Minting /\ Exclusive /\ Current /\ Succession /\ [Next]_vars => Succession'
<1> USE DEF Minting, Numbers, Apart, Plain, InFlight, Exclusive, Current, Succession, Calm, Bad
<1> SUFFICES ASSUME TypeOK, Minting, Exclusive, Current, Succession, [Next]_vars PROVE Succession'
    OBVIOUS
<1>a. /\ minted \in Nat /\ 1 <= minted /\ stored.pair \in Nat
      /\ \A c \in Callers : at[c].got \in Nat /\ at[c].fresh.pair \in Nat /\ at[c].pc \in Places
      /\ admin.creds.pair \in Nat /\ live \subseteq Nat
    BY Ints
<1>b. ASSUME Calm, NEW c \in Callers, NEW d \in Callers, at[c].pc \in Inside, at[d].pc \in Inside
      PROVE  c = d
    BY <1>b
<1>1. ASSUME NEW c \in Callers, Quiet(c) PROVE Succession'
    BY <1>1, <1>a DEF Quiet, Moved, Kept, Cleared
<1>2. ASSUME NEW c \in Callers, Acquires(c) PROVE Succession'
    BY <1>2, <1>a DEF Acquires, Moved, Kept, Cleared
<1>3. ASSUME NEW c \in Callers, Reads(c) PROVE Succession'
    BY <1>3, <1>a DEF Reads, Moved, Kept, Cleared
<1>4. ASSUME NEW c \in Callers, Calls(c) PROVE Succession'
    <2>0. \A d \in Callers \ {c} : at'[d] = at[d] BY <1>4 DEF Calls, Moved
    <2>1. CASE /\ at'[c].pc = "persist" /\ at'[c].fresh = at[c].fresh /\ at'[c].got = NextPair
               /\ Granted(c) /\ mishaps' = mishaps
        <3>0. stored' = stored BY <1>4 DEF Calls
        <3> SUFFICES ASSUME Calm PROVE Succession'
            BY <2>1
        <3>1. at[c].fresh = stored /\ at[c].pc = "call" BY <1>4 DEF Calls
        <3>2. at'[c].got \in live' BY <2>1 DEF Granted
        <3>3. \A e \in Callers : In(e, "persist")' => e = c
            BY <1>b, <2>0, <3>1
        <3> QED BY <2>1, <3>0, <3>1, <3>2, <3>3
    <2>2. CASE Granted(c) /\ mishaps' = mishaps \cup {"lost"}
        BY <2>2
    <2>3. CASE live' = live /\ at'[c].pc # "persist" /\ mishaps \subseteq mishaps'
        BY <1>4, <2>0, <2>3 DEF Calls
    <2> QED BY <1>4, <2>1, <2>2, <2>3 DEF Calls, Refused
<1>5. ASSUME NEW c \in Callers, Persists(c) PROVE Succession'
    <2>0. \A d \in Callers \ {c} : at'[d] = at[d] BY <1>5 DEF Persists, Moved
    <2>1. UNCHANGED <<live, admin>> /\ at[c].pc = "persist" BY <1>5 DEF Persists
    <2> SUFFICES ASSUME Calm' PROVE Succession'
        OBVIOUS
    <2>2. Calm BY <1>5 DEF Persists
    <2>3. \A e \in Callers : ~In(e, "persist")'
        <3>1. at'[c].pc # "persist" BY <1>5 DEF Persists
        <3>2. \A e \in Callers \ {c} : ~In(e, "persist") BY <1>b, <2>1, <2>2
        <3> QED BY <2>0, <3>1, <3>2
    <2>4. CASE stored'.pair = at[c].got /\ stored = at[c].fresh
        BY <2>1, <2>2, <2>3, <2>4
    <2>5. CASE stored' = stored /\ stored # at[c].fresh
        <3>1. \A e \in Callers : ~(In(e, "persist") /\ at[e].fresh = stored)
            BY <1>b, <2>1, <2>2, <2>5
        <3> QED BY <2>1, <2>2, <2>3, <2>5, <3>1
    <2> QED BY <1>5, <2>4, <2>5 DEF Persists
<1>6. ASSUME NEW c \in Callers, Unlocks(c) PROVE Succession'
    BY <1>6, <1>a DEF Unlocks, Moved, Kept, Cleared
<1>7. CASE Administers
    BY <1>7, <1>a DEF Administers
<1>8. CASE Expires
    BY <1>8, <1>a DEF Expires
<1> QED BY <1>1, <1>2, <1>3, <1>4, <1>5, <1>6, <1>7, <1>8, Steps

\* A refused pair was the row's, so its successor is the administrator's.
LEMMA NextSpent == TypeOK /\ Exclusive /\ Current /\ Succession /\ SpentOnce /\ [Next]_vars => SpentOnce'
<1> USE DEF InFlight, Exclusive, Current, Succession, Calm, Bad, SpentOnce
<1> SUFFICES ASSUME TypeOK, Exclusive, Current, Succession, SpentOnce, [Next]_vars PROVE SpentOnce'
    OBVIOUS
<1>a. /\ minted \in Nat /\ 1 <= minted /\ stored.pair \in Nat
      /\ \A c \in Callers : at[c].got \in Nat /\ at[c].fresh.pair \in Nat /\ at[c].pc \in Places
      /\ admin.creds.pair \in Nat /\ live \subseteq Nat
    BY Ints
<1>1. ASSUME NEW c \in Callers, Quiet(c) PROVE SpentOnce'
    BY <1>1, <1>a DEF Quiet, Moved, Kept, Cleared
<1>2. ASSUME NEW c \in Callers, Acquires(c) PROVE SpentOnce'
    BY <1>2, <1>a DEF Acquires, Moved, Kept, Cleared
<1>3. ASSUME NEW c \in Callers, Reads(c) PROVE SpentOnce'
    BY <1>3, <1>a DEF Reads, Moved, Kept, Cleared
<1>4. ASSUME NEW c \in Callers, Calls(c) PROVE SpentOnce'
    <2>1. CASE Refused(c) /\ at'[c].pc = "recover"
        <3>1. CASE ~Calm
            <4>1. ~Calm' BY <2>1, <3>1 DEF Refused
            <4> QED BY <4>1
        <3>2. CASE Calm
            <4>1. stored.pair \notin live
                BY <2>1, <3>2, <1>4 DEF Refused, Calls
            <4>2. \A d \in Callers : ~In(d, "persist")
                BY <3>2, <1>4 DEF Calls
            <4>3. InFlight
                BY <3>2, <4>1, <4>2
            <4>4. "overlap" \in mishaps' \/ "revoked" \in mishaps'
                <5>1. admin.doing \in {"edit", "refresh", "reauth"} BY DEF TypeOK
                <5> QED BY <2>1, <4>3, <5>1 DEF Refused
            <4> QED BY <4>4
        <3> QED BY <3>1, <3>2
    <2>2. CASE at'[c].pc # "recover"
        BY <2>2, <1>4 DEF Calls, Moved, Granted, Refused
    <2> QED BY <2>1, <2>2, <1>4 DEF Calls
<1>5. ASSUME NEW c \in Callers, Persists(c) PROVE SpentOnce'
    BY <1>5, <1>a DEF Persists, Moved, Kept, Cleared
<1>6. ASSUME NEW c \in Callers, Unlocks(c) PROVE SpentOnce'
    BY <1>6, <1>a DEF Unlocks, Moved, Kept, Cleared
<1>7. CASE Administers
    BY <1>7, <1>a DEF Administers
<1>8. CASE Expires
    BY <1>8, <1>a DEF Expires
<1> QED BY <1>1, <1>2, <1>3, <1>4, <1>5, <1>6, <1>7, <1>8, Steps

\* A grant is numbered anew, and the row, the administrator and the others have older ones.
LEMMA NextGranting == TypeOK /\ Minting /\ Granting /\ [Next]_vars => Granting'
<1> USE DEF Minting, Numbers, Apart, Plain, InFlight, Granting, Working
<1> SUFFICES ASSUME TypeOK, Minting, Granting, [Next]_vars PROVE Granting'
    OBVIOUS
<1>a. /\ minted \in Nat /\ 1 <= minted /\ stored.pair \in Nat
      /\ \A c \in Callers : at[c].got \in Nat /\ at[c].fresh.pair \in Nat /\ at[c].pc \in Places
      /\ admin.creds.pair \in Nat /\ live \subseteq Nat
    BY Ints
<1>1. ASSUME NEW c \in Callers, Quiet(c) PROVE Granting'
    BY <1>1, <1>a DEF Quiet, Moved, Kept, Cleared
<1>2. ASSUME NEW c \in Callers, Acquires(c) PROVE Granting'
    BY <1>2, <1>a DEF Acquires, Moved, Kept, Cleared
<1>3. ASSUME NEW c \in Callers, Reads(c) PROVE Granting'
    <2> SUFFICES ASSUME NEW e \in Callers, In(e, "persist")'
                 PROVE  /\ at[e].fresh.pair \notin live /\ at[e].got # stored.pair
                        /\ admin.at \in {"read", "write"} => at[e].got # admin.creds.pair
                        /\ \A d \in Callers : Working(d)' => at'[d].fresh.pair # at[e].got
                        /\ \A d \in Callers \ {e} : In(d, "persist")' => at'[d].got # at[e].got
                        /\ at'[e] = at[e]
        BY <1>3 DEF Reads
    <2>1. e # c /\ at'[e] = at[e] /\ In(e, "persist")
        BY <1>3 DEF Reads, Moved
    <2>2. ASSUME NEW d \in Callers, Working(d)' PROVE at'[d].fresh.pair # at[e].got
        <3>1. CASE d = c BY <1>3, <2>1, <2>2, <3>1 DEF Reads, Cleared
        <3>2. CASE d # c BY <1>3, <2>1, <2>2, <3>2 DEF Reads, Moved
        <3> QED BY <3>1, <3>2
    <2>3. ASSUME NEW d \in Callers \ {e}, In(d, "persist")' PROVE at'[d].got # at[e].got
        BY <1>3, <2>1, <2>3 DEF Reads, Moved
    <2> QED BY <2>1, <2>2, <2>3
<1>4. ASSUME NEW c \in Callers, Calls(c) PROVE Granting'
    <2>1. CASE at'[c].pc # "persist"
        <3>1. ~Working(c)' BY <1>4, <2>1 DEF Calls
        <3>2. \A d \in Callers : Working(d)' => at'[d] = at[d] BY <1>4, <3>1 DEF Calls, Moved
        <3>3. live' = live \/ (Granted(c) /\ live' = (live \ {at[c].fresh.pair}) \cup {NextPair})
            BY <1>4, <2>1 DEF Calls, Granted, Refused
        <3>4. \A e \in Callers : In(e, "persist")' => at[e].fresh.pair \notin live'
            BY <1>a, <3>2, <3>3
        <3> QED BY <1>4, <3>2, <3>4 DEF Calls
    <2>2. CASE at'[c].pc = "persist"
        <3>1. /\ at'[c].fresh = at[c].fresh /\ at'[c].got = NextPair /\ Granted(c)
              /\ at[c].pc = "call" /\ UNCHANGED <<stored, admin>>
            BY <1>4, <2>2 DEF Calls
        <3>2. \A d \in Callers : at'[d].fresh = at[d].fresh /\ (d # c => at'[d] = at[d])
            BY <1>4, <3>1 DEF Calls, Moved
        <3>3. ASSUME NEW e \in Callers, In(e, "persist")'
              PROVE  at'[e].fresh.pair \notin live' /\ at'[e].got # stored.pair
            BY <1>a, <3>1, <3>2, <3>3 DEF Granted
        <3>4. ASSUME NEW e \in Callers, In(e, "persist")', admin.at \in {"read", "write"}
              PROVE  at'[e].got # admin.creds.pair
            BY <1>a, <3>1, <3>2, <3>4
        <3>5. ASSUME NEW e \in Callers, In(e, "persist")', NEW d \in Callers, Working(d)'
              PROVE  at'[d].fresh.pair # at'[e].got
            <4>1. Working(d) BY <3>1, <3>2, <3>5
            <4> QED BY <1>a, <3>1, <3>2, <3>5, <4>1
        <3>6. ASSUME NEW e \in Callers, In(e, "persist")', NEW d \in Callers \ {e}, In(d, "persist")'
              PROVE  at'[d].got # at'[e].got
            BY <1>a, <3>1, <3>2, <3>6
        <3> QED BY <3>1, <3>3, <3>4, <3>5, <3>6
    <2> QED BY <2>1, <2>2
<1>5. ASSUME NEW c \in Callers, Persists(c) PROVE Granting'
    BY <1>5, <1>a DEF Persists, Moved, Kept, Cleared
<1>6. ASSUME NEW c \in Callers, Unlocks(c) PROVE Granting'
    <2>1. ~Working(c)' BY <1>6 DEF Unlocks
    <2>2. \A d \in Callers : Working(d)' => at'[d] = at[d]
        BY <1>6, <2>1 DEF Unlocks, Moved
    <2> QED BY <1>6, <1>a, <2>2 DEF Unlocks
<1>7. CASE Administers
    BY <1>7, <1>a DEF Administers
<1>8. CASE Expires
    BY <1>8, <1>a DEF Expires
<1> QED BY <1>1, <1>2, <1>3, <1>4, <1>5, <1>6, <1>7, <1>8, Steps

\* A pair comes to the row once, with its version.
LEMMA NextOneVersion == TypeOK /\ Minting /\ Granting /\ OneVersion /\ [Next]_vars => OneVersion'
<1> USE DEF Minting, Numbers, Apart, Plain, InFlight, Granting, Working, OneVersion, Unspoiled
<1> SUFFICES ASSUME TypeOK, Minting, Granting, OneVersion, [Next]_vars PROVE OneVersion'
    OBVIOUS
<1>a. /\ minted \in Nat /\ 1 <= minted /\ stored.pair \in Nat
      /\ \A c \in Callers : at[c].got \in Nat /\ at[c].fresh.pair \in Nat /\ at[c].pc \in Places
      /\ admin.creds.pair \in Nat /\ live \subseteq Nat
    BY Ints
<1>1. ASSUME NEW c \in Callers, Quiet(c) PROVE OneVersion'
    BY <1>1, <1>a DEF Quiet, Moved, Kept, Cleared
<1>2. ASSUME NEW c \in Callers, Acquires(c) PROVE OneVersion'
    BY <1>2, <1>a DEF Acquires, Moved, Kept, Cleared
<1>3. ASSUME NEW c \in Callers, Reads(c) PROVE OneVersion'
    BY <1>3, <1>a DEF Reads, Moved, Kept, Cleared
<1>4. ASSUME NEW c \in Callers, Calls(c) PROVE OneVersion'
    BY <1>4, <1>a DEF Calls, Moved, Kept, Cleared, Granted, Refused
<1>5. ASSUME NEW c \in Callers, Persists(c) PROVE OneVersion'
    BY <1>5, <1>a DEF Persists, Moved, Kept, Cleared
<1>6. ASSUME NEW c \in Callers, Unlocks(c) PROVE OneVersion'
    BY <1>6, <1>a DEF Unlocks, Moved, Kept, Cleared
<1>7. CASE Administers
    BY <1>7, <1>a DEF Administers
<1>8. CASE Expires
    BY <1>8, <1>a DEF Expires
<1> QED BY <1>1, <1>2, <1>3, <1>4, <1>5, <1>6, <1>7, <1>8, Steps

\* Who spends the stored pair holds its successor, whatever lock it has.
LEMMA NextDescent == TypeOK /\ Minting /\ Granting /\ OneVersion /\ Descent /\ [Next]_vars => Descent'
<1> USE DEF Minting, Numbers, Apart, Plain, InFlight, Granting, Working, OneVersion, Descent, Unspoiled
<1> SUFFICES ASSUME TypeOK, Minting, Granting, OneVersion, Descent, [Next]_vars PROVE Descent'
    OBVIOUS
<1>a. /\ minted \in Nat /\ 1 <= minted /\ stored.pair \in Nat
      /\ \A c \in Callers : at[c].got \in Nat /\ at[c].fresh.pair \in Nat /\ at[c].pc \in Places
      /\ admin.creds.pair \in Nat /\ live \subseteq Nat
    BY Ints
<1>1. ASSUME NEW c \in Callers, Quiet(c) PROVE Descent'
    <2>1. UNCHANGED <<stored, live, admin>> /\ mishaps \subseteq mishaps' BY <1>1 DEF Quiet
    <2>2. \A d \in Callers \ {c} : at'[d] = at[d] BY <1>1 DEF Quiet, Moved
    <2>3. at'[c].pc # "persist" BY <1>1 DEF Quiet
    <2>4. at[c].pc = "persist" => ~Unspoiled' BY <1>1 DEF Quiet
    <2> QED BY <2>1, <2>2, <2>3, <2>4
<1>2. ASSUME NEW c \in Callers, Acquires(c) PROVE Descent'
    BY <1>2, <1>a DEF Acquires, Moved, Kept, Cleared
<1>3. ASSUME NEW c \in Callers, Reads(c) PROVE Descent'
    BY <1>3, <1>a DEF Reads, Moved, Kept, Cleared
<1>4. ASSUME NEW c \in Callers, Calls(c) PROVE Descent'
    <2>0. \A d \in Callers \ {c} : at'[d] = at[d] BY <1>4 DEF Calls, Moved
    <2>1. CASE /\ at'[c].pc = "persist" /\ at'[c].fresh = at[c].fresh /\ at'[c].got = NextPair
               /\ Granted(c) /\ mishaps' = mishaps
        <3>1. ASSUME Unspoiled, NEW e \in Callers, In(e, "persist")', at'[e].fresh = stored
              PROVE  at'[e].got \in live' \/ InFlight
            <4>1. CASE e = c BY <2>1, <4>1 DEF Granted
            <4>2. CASE e # c
                <5>1. at'[e] = at[e] /\ In(e, "persist") BY <2>0, <3>1, <4>2
                <5>2. at[e].got # at[c].fresh.pair BY <1>4, <5>1 DEF Calls
                <5> QED BY <2>1, <3>1, <5>1, <5>2 DEF Granted
            <4> QED BY <4>1, <4>2
        <3>2. ASSUME Unspoiled, stored.pair \notin live', ~InFlight
              PROVE  \E e \in Callers : In(e, "persist")' /\ at'[e].fresh = stored
            <4>1. CASE at[c].fresh.pair = stored.pair
                <5>1. Working(c) BY <1>4 DEF Calls
                <5>2. at[c].fresh = stored BY <3>2, <4>1, <5>1
                <5> QED BY <2>1, <5>2
            <4>2. CASE at[c].fresh.pair # stored.pair
                <5>1. stored.pair \notin live BY <2>1, <3>2, <4>2 DEF Granted
                <5>2. PICK e \in Callers : In(e, "persist") /\ at[e].fresh = stored BY <3>2, <5>1
                <5> QED BY <1>4, <2>0, <5>2 DEF Calls
            <4> QED BY <4>1, <4>2
        <3> QED BY <1>4, <2>1, <3>1, <3>2 DEF Calls
    <2>2. CASE Granted(c) /\ mishaps' = mishaps \cup {"lost"}
        BY <2>2
    <2>3. CASE live' = live /\ at'[c].pc # "persist" /\ mishaps \subseteq mishaps'
        BY <1>4, <2>0, <2>3 DEF Calls
    <2> QED BY <1>4, <2>1, <2>2, <2>3 DEF Calls, Refused
<1>5. ASSUME NEW c \in Callers, Persists(c) PROVE Descent'
    BY <1>5, <1>a DEF Persists, Moved, Kept, Cleared
<1>6. ASSUME NEW c \in Callers, Unlocks(c) PROVE Descent'
    BY <1>6, <1>a DEF Unlocks, Moved, Kept, Cleared
<1>7. CASE Administers
    BY <1>7, <1>a DEF Administers
<1>8. CASE Expires
    BY <1>8, <1>a DEF Expires
<1> QED BY <1>1, <1>2, <1>3, <1>4, <1>5, <1>6, <1>7, <1>8, Steps

\* A step that changes neither the row nor the tokens and denies nothing new.
Passed ==
    /\ UNCHANGED <<stored, status, minted, live, admin>> /\ mishaps \subseteq mishaps'
    /\ \A d \in Callers :
          /\ In(d, "recover")' => In(d, "recover") /\ at'[d] = at[d]
          /\ In(d, "persist")' => In(d, "persist") /\ at'[d] = at[d]
          /\ In(d, "call")' => \/ In(d, "call") /\ at'[d] = at[d]
                               \/ at'[d].fresh = stored /\ status = "active"
          /\ at'[d].next = "deny" => at'[d].pc = "unlock"
          /\ Denying(d)' => Denying(d) /\ at'[d].acct = at[d].acct

\* A caller is elsewhere, with nothing to deny.
Forgets(c) ==
    Moved(c) /\ at'[c].next # "deny" /\ at'[c].pc \notin {"recover", "persist", "call", "deny"}

\* A caller that goes on has nothing to deny.
LEMMA GoForgets ==
    ASSUME TypeOK, Denials, NEW c \in Callers, NEW place \in Places, Go(c, place),
           at[c].pc # "unlock" \/ place = "idle"
    PROVE  Moved(c) /\ at'[c].pc = place /\ at'[c].next # "deny"
<1>0. at[c] \in Caller BY DEF TypeOK
<1>1. CASE place = "idle"
    <2>1. Idle \in Caller /\ Idle.next = "idle" /\ Idle.pc = "idle" OBVIOUS
    <2>2. Hold(c, Idle) BY <1>1 DEF Go
    <2> HIDE DEF Idle
    <2> QED BY <1>1, <2>1, <2>2, HoldMoves
<1>2. CASE place # "idle"
    <2> DEFINE what == [at[c] EXCEPT !.pc = place]
    <2>1. what \in Caller /\ what.pc = place /\ what.next # "deny" BY <1>0, <1>2 DEF Denials
    <2>2. Hold(c, what) BY <1>2 DEF Go
    <2> HIDE DEF what
    <2> QED BY <2>1, <2>2, HoldMoves
<1> QED BY <1>1, <1>2

\* On its way out a caller denies only what it was told to.
LEMMA LeaveForgets ==
    ASSUME TypeOK, NEW c \in Callers, NEW place \in After, NEW account \in Credentials,
           Leave(c, place, account)
    PROVE  /\ Moved(c) /\ at'[c].pc = "unlock"
           /\ at'[c].next = "deny" => place = "deny" /\ at'[c].acct = account
<1>1. Idle \in Caller /\ Idle.next = "idle" OBVIOUS
<1> HIDE DEF Idle
<1>2. CASE place = "idle"
    <2> DEFINE what == [Idle EXCEPT !.pc = "unlock"]
    <2>1. what \in Caller /\ what.pc = "unlock" /\ what.next = "idle" BY <1>1
    <2>2. Hold(c, what) BY <1>2 DEF Leave
    <2> HIDE DEF what
    <2> QED BY <2>1, <2>2, HoldMoves
<1>3. CASE place # "idle"
    <2> DEFINE what == [Idle EXCEPT !.pc = "unlock", !.next = place, !.acct = account]
    <2>1. what \in Caller /\ what.pc = "unlock" /\ what.next = place /\ what.acct = account
        BY <1>1
    <2>2. Hold(c, what) BY <1>3 DEF Leave
    <2> HIDE DEF what
    <2> QED BY <2>1, <2>2, HoldMoves
<1> QED BY <1>2, <1>3

\* Who leaves with an error, with nothing, or with a new token, denies nothing.
LEMMA Departures ==
    ASSUME TypeOK, NEW c \in Callers, NEW account \in Credentials,
           NEW place \in {AfterError(c), AfterNone(c), AfterSuccess(c)}, Leave(c, place, account)
    PROVE  Forgets(c) /\ at'[c].pc = "unlock"
<1>1. place \in After \ {"deny"} BY DEF AfterError, AfterNone, AfterSuccess
<1> QED BY <1>1, LeaveForgets DEF Forgets

\* Most steps pass.
LEMMA PassingSteps ==
    ASSUME TypeOK, Denials, NEW c \in Callers,
           \/ Begin(c) \/ Lookup(c) \/ Acquire(c) \/ Wait(c) \/ Read(c) \/ Purge(c) \/ Unlock(c)
           \/ Sync(c) \/ Check(c) \/ Cache(c) \/ Crash(c)
    PROVE  Passed
<1>0. at[c] \in Caller /\ stored \in Credentials BY DEF TypeOK
<1>a. ASSUME Forgets(c), UNCHANGED <<stored, status, minted, live, admin>>, mishaps \subseteq mishaps'
      PROVE  Passed
    <2>1. \A d \in Callers \ {c} : at'[d] = at[d] BY <1>a DEF Forgets, Moved
    <2>2. at'[c].next # "deny" /\ at'[c].pc \notin {"recover", "persist", "call", "deny"}
        BY <1>a DEF Forgets
    <2> QED BY <1>a, <2>1, <2>2 DEF Passed, Denying, Denials
<1>1. CASE Begin(c)
    <2>1. ASSUME NEW p \in {"lock", "lookup"}, Hold(c, [Idle EXCEPT !.pc = p, !.acct = stored])
          PROVE  Forgets(c)
        <3> DEFINE what == [Idle EXCEPT !.pc = p, !.acct = stored]
        <3>0. Idle \in Caller /\ Idle.next = "idle" OBVIOUS
        <3> HIDE DEF Idle
        <3>1. what \in Caller /\ what.pc = p /\ what.next = "idle" BY <1>0, <3>0
        <3>2. Hold(c, what) BY <2>1
        <3> HIDE DEF what
        <3> QED BY <3>1, <3>2, HoldMoves DEF Forgets
    <2>2. Forgets(c) BY <1>1, <2>1 DEF Begin
    <2> QED BY <1>1, <1>a, <2>2 DEF Begin
<1>2. CASE Lookup(c)
    <2>1. \E p \in {"idle", "lock", "check"} : Go(c, p) BY <1>2 DEF Lookup
    <2>2. Forgets(c) BY <1>2, <2>1, GoForgets DEF Forgets, Lookup
    <2> QED BY <1>2, <1>a, <2>2 DEF Lookup
<1>3. CASE Acquire(c)
    <2>1. \E p \in {"read", "idle", "wait"} : Go(c, p) BY <1>3 DEF Acquire
    <2>2. Forgets(c) BY <1>3, <2>1, GoForgets DEF Forgets, Acquire
    <2> QED BY <1>3, <1>a, <2>2 DEF Acquire
<1>4. CASE Wait(c)
    <2>1. at[c].pc = "wait" /\ at[c].next # "deny" BY <1>4 DEF Wait, Denials
    <2>2. ASSUME NEW p \in {"idle", "check"}, Go(c, p) PROVE Forgets(c)
        <3>1. p \in Places BY DEF Places
        <3>2. Moved(c) /\ at'[c].pc = p /\ at'[c].next # "deny" BY <2>1, <2>2, <3>1, GoForgets
        <3> QED BY <3>2 DEF Forgets
    <2>3. ASSUME Hold(c, [at[c] EXCEPT !.pc = "cache", !.acct = stored]) PROVE Forgets(c)
        <3>1. Moved(c) /\ at'[c].pc = "cache" /\ at'[c].next = at[c].next BY <2>3, ServingWait
        <3> QED BY <2>1, <3>1 DEF Forgets
    <2>4. Forgets(c) BY <1>4, <2>2, <2>3 DEF Wait
    <2> QED BY <1>4, <1>a, <2>4 DEF Wait
<1>5. CASE Read(c)
    <2>1. CASE status = "active" /\ Hold(c, [at[c] EXCEPT !.pc = "call", !.fresh = stored])
        <3> DEFINE what == [at[c] EXCEPT !.pc = "call", !.fresh = stored]
        <3>1. what \in Caller /\ what.pc = "call" /\ what.fresh = stored /\ what.next # "deny"
            BY <1>0, <1>5 DEF Read, Denials
        <3>2. Hold(c, what) BY <2>1
        <3> HIDE DEF what
        <3>3. /\ at'[c].pc = "call" /\ at'[c].fresh = stored /\ at'[c].next # "deny"
              /\ \A d \in Callers \ {c} : at'[d] = at[d]
            BY <3>1, <3>2, HoldMoves DEF Moved
        <3>4. UNCHANGED <<stored, status, minted, live, admin, mishaps>> BY <1>5 DEF Read
        <3> QED BY <2>1, <3>3, <3>4 DEF Passed, Denying, Denials
    <2>2. CASE \/ Leave(c, AfterNone(c), stored) \/ Leave(c, AfterError(c), at[c].acct)
        <3>1. Forgets(c) BY <1>0, <2>2, Departures
        <3> QED BY <1>5, <1>a, <3>1 DEF Read
    <2> QED BY <1>5, <2>1, <2>2 DEF Read
<1>6. CASE Purge(c)
    <2>1. \E place \in {AfterSuccess(c), AfterError(c)} : Leave(c, place, stored) BY <1>6 DEF Purge
    <2>2. Forgets(c) BY <1>0, <2>1, Departures
    <2> QED BY <1>6, <1>a, <2>2 DEF Purge
<1>7. CASE Unlock(c)
    <2> DEFINE what == [at[c] EXCEPT !.pc = at[c].next, !.next = "idle"]
    <2>1. what \in Caller /\ what.pc = at[c].next /\ what.next = "idle" /\ what.acct = at[c].acct
        BY <1>0
    <2>2. Hold(c, what) BY <1>7 DEF Unlock
    <2> HIDE DEF what
    <2>3. /\ at'[c].pc = at[c].next /\ at'[c].next = "idle" /\ at'[c].acct = at[c].acct
          /\ \A d \in Callers \ {c} : at'[d] = at[d] /\ at[c].next \in After
        BY <1>0, <2>1, <2>2, HoldMoves DEF Moved
    <2>4. UNCHANGED <<stored, status, minted, live, admin, mishaps>> BY <1>7 DEF Unlock
    <2> QED BY <1>0, <2>3, <2>4 DEF Passed, Denying, Denials
<1>8. CASE Sync(c)
    <2>1. Forgets(c) BY <1>8, GoForgets DEF Forgets, Sync
    <2> QED BY <1>8, <1>a, <2>1 DEF Sync
<1>9. CASE Check(c)
    <2>1. \E p \in {"idle", "cache"} : Go(c, p) BY <1>9 DEF Check
    <2>2. Forgets(c) BY <1>9, <2>1, GoForgets DEF Forgets, Check
    <2> QED BY <1>9, <1>a, <2>2 DEF Check
<1>10. CASE Cache(c)
    <2>1. Forgets(c) BY <1>10, GoForgets DEF Forgets, Cache
    <2> QED BY <1>10, <1>a, <2>1 DEF Cache
<1>11. CASE Crash(c)
    <2>1. Forgets(c) BY <1>11, GoForgets DEF Forgets, Crash
    <2> QED BY <1>11, <1>a, <2>1 DEF Crash
<1> QED BY <1>1, <1>2, <1>3, <1>4, <1>5, <1>6, <1>7, <1>8, <1>9, <1>10, <1>11

\* A call keeps nothing to deny, either.
LEMMA CallForgets ==
    ASSUME TypeOK, Denials, NEW c \in Callers, Call(c)
    PROVE  at'[c].next # "deny" /\ (at'[c].pc = "recover" => at'[c].fresh = at[c].fresh)
<1>0. at[c] \in Caller /\ NextPair \in Nat /\ at[c].next # "deny"
    BY DEF TypeOK, Call, Denials
<1>1. CASE Hold(c, [at[c] EXCEPT !.pc = "persist", !.got = NextPair]) /\ minted < MaxMints
    <2> DEFINE what == [at[c] EXCEPT !.pc = "persist", !.got = NextPair]
    <2>0. NextPair \in Pairs BY <1>1 DEF TypeOK
    <2>1. what \in Caller /\ what.pc = "persist" /\ what.next # "deny" BY <1>0, <2>0
    <2>2. Hold(c, what) BY <1>1
    <2> HIDE DEF what
    <2> QED BY <2>1, <2>2, HoldMoves
<1>2. CASE Leave(c, AfterError(c), at[c].acct)
    BY <1>0, <1>2, Departures DEF Forgets
<1>3. CASE Go(c, "recover")
    <2> DEFINE what == [at[c] EXCEPT !.pc = "recover"]
    <2>1. what \in Caller /\ what.pc = "recover" /\ what.next # "deny" /\ what.fresh = at[c].fresh
        BY <1>0
    <2>2. Hold(c, what) BY <1>3 DEF Go
    <2> HIDE DEF what
    <2> QED BY <2>1, <2>2, HoldMoves
<1> QED BY <1>1, <1>2, <1>3 DEF Call

\* So does storing the grant.
LEMMA PersistForgets ==
    ASSUME TypeOK, Denials, NEW c \in Callers, Persist(c)
    PROVE  Forgets(c)
<1>0. at[c] \in Caller /\ stored \in Credentials /\ Renewed(c) \in Credentials /\ at[c].next # "deny"
    BY DEF TypeOK, Persist, Denials, Renewed
<1>1. CASE Hold(c, [at[c] EXCEPT !.pc = "purge", !.acct = Renewed(c)])
    <2> DEFINE what == [at[c] EXCEPT !.pc = "purge", !.acct = Renewed(c)]
    <2>1. what \in Caller /\ what.pc = "purge" /\ what.next # "deny" BY <1>0
    <2>2. Hold(c, what) BY <1>1
    <2> HIDE DEF what
    <2> QED BY <2>1, <2>2, HoldMoves DEF Forgets
<1>2. CASE \/ Leave(c, AfterSuccess(c), Renewed(c)) \/ Leave(c, AfterError(c), at[c].acct)
           \/ Leave(c, AfterNone(c), stored)
    BY <1>0, <1>2, Departures
<1> QED BY <1>1, <1>2 DEF Persist

\* A refusal is denied of the credentials that were presented.
LEMMA RecoverDenies ==
    ASSUME TypeOK, NEW c \in Callers, Recover(c)
    PROVE  /\ at[c].pc = "recover" /\ Moved(c) /\ at'[c].pc = "unlock"
           /\ at'[c].next = "deny" => at'[c].acct = at[c].fresh
           /\ UNCHANGED <<stored, status, minted, live, admin, mishaps>>
<1>0. at[c] \in Caller /\ stored \in Credentials BY DEF TypeOK
<1>1. CASE Leave(c, AfterNone(c), stored) \/ Leave(c, AfterError(c), at[c].acct)
    BY <1>0, <1>1, Departures DEF Forgets, Recover
<1>2. CASE Leave(c, "deny", at[c].fresh)
    BY <1>0, <1>2, LeaveForgets DEF Recover
<1> QED BY <1>1, <1>2 DEF Recover

\* The denial of a token that is not the row's is a mishap.
LEMMA DenyDenies ==
    ASSUME TypeOK, Denials, NEW c \in Callers, Deny(c)
    PROVE  /\ Denying(c) /\ Moved(c) /\ at'[c].pc = "idle" /\ at'[c].next # "deny"
           /\ UNCHANGED <<stored, minted, live, admin>> /\ mishaps \subseteq mishaps'
           /\ \/ status' = status
              \/ stored = at[c].acct \/ "stuck" \in mishaps'
<1>1. Moved(c) /\ at'[c].pc = "idle" /\ at'[c].next # "deny"
    BY GoForgets DEF Deny
<1> QED BY <1>1 DEF Deny, MayDeny, Denying, TypeOK

\* The steps that matter to an account in error.
LEMMA ErrorSteps ==
    ASSUME TypeOK, Denials, [Next]_vars
    PROVE  \/ Passed \/ Administration
           \/ \E c \in Callers : Call(c) \/ Persist(c) \/ Recover(c) \/ Deny(c)
<1>1. ASSUME UNCHANGED <<stored, status, minted, live, admin, at>>, mishaps \subseteq mishaps'
      PROVE  Passed
    BY <1>1 DEF Passed, Denying, Denials
<1>2. CASE LockExpires BY <1>1, <1>2 DEF LockExpires
<1>3. CASE TokenAges BY <1>1, <1>3 DEF TokenAges
<1>4. CASE CacheExpires BY <1>1, <1>4 DEF CacheExpires
<1>5. CASE UNCHANGED vars BY <1>1, <1>5 DEF vars
<1> QED BY <1>2, <1>3, <1>4, <1>5, PassingSteps DEF Next, Refresh

\* A refused token stays refused, and so does a denied one.
LEMMA NextDenials == TypeOK /\ Minting /\ Denials /\ [Next]_vars => Denials'
<1> USE DEF Denials, Denying
<1> SUFFICES ASSUME TypeOK, Minting, Denials, [Next]_vars PROVE Denials'
    OBVIOUS
<1>a. /\ minted \in Nat /\ \A c \in Callers : at[c].fresh.pair \in Nat /\ at[c].fresh.pair <= minted
      /\ \A c \in Callers : at[c].acct.pair \in Nat
    BY Ints DEF Minting, Numbers, TypeOK
<1>1. CASE Passed
    BY <1>1 DEF Passed
<1>2. ASSUME NEW c \in Callers, Call(c) PROVE Denials'
    <2>1. \A d \in Callers \ {c} : at'[d] = at[d] BY <1>2, CallMoves DEF Moved
    <2>2. \/ minted' = minted /\ live' = live
          \/ minted' = minted + 1 /\ live' \subseteq live \cup {minted + 1}
        BY <1>2 DEF Call
    <2>3. at'[c].pc \in {"persist", "unlock", "recover"} BY <1>2, CallMoves
    <2>4. at'[c].pc = "recover" => live' = live /\ at[c].fresh.pair \notin live
        BY <1>2, CallMoves DEF Refused
    <2>5. at'[c].next # "deny" /\ (at'[c].pc = "recover" => at'[c].fresh = at[c].fresh)
        BY <1>2, CallForgets
    <2> QED BY <1>a, <2>1, <2>2, <2>3, <2>4, <2>5
<1>3. ASSUME NEW c \in Callers, Persist(c) PROVE Denials'
    BY <1>3, PersistForgets, PersistStores DEF Forgets, Moved
<1>4. ASSUME NEW c \in Callers, Recover(c) PROVE Denials'
    BY <1>4, <1>a, RecoverDenies DEF Moved
<1>5. ASSUME NEW c \in Callers, Deny(c) PROVE Denials'
    BY <1>5, DenyDenies DEF Moved
<1>6. CASE Administration
    <2>1. at' = at BY <1>6, AdminSteps DEF Administers
    <2>2. \/ minted' = minted /\ live' = live
          \/ minted' = minted + 1 /\ live' \subseteq live \cup {minted + 1}
        BY <1>6, AdminSteps DEF Administration, EditReads, ManualRefresh, Reauthorize, AdminReads,
                                AdminWrites, AdminClears, AdminPurges
    <2> QED BY <1>a, <2>1, <2>2
<1> QED BY <1>1, <1>2, <1>3, <1>4, <1>5, <1>6, ErrorSteps

\* What the administrator's requests do to the status, beside the tokens.
Manages ==
    /\ at' = at /\ mishaps \subseteq mishaps' /\ live \subseteq Nat
    /\ \/ /\ admin'.at \in {"idle", "write", "purge"} /\ ~Refreshing'
          /\ UNCHANGED <<stored, status, minted, live>> /\ admin.at # "clear"
       \/ /\ admin.at = "idle" /\ admin'.at = "read" /\ UNCHANGED <<stored, status>>
          /\ minted' = NextPair /\ live' \subseteq live \cup {NextPair}
          /\ admin'.doing = "refresh" => stored.pair \in live
       \/ /\ admin.at = "read" /\ admin'.at = "write" /\ UNCHANGED <<stored, status, minted, live>>
          /\ admin'.doing = admin.doing
       \/ /\ admin.at = "write" /\ ~Refreshing' /\ UNCHANGED <<minted, live>>
          /\ stored' = admin.creds
          /\ (stored = admin.seen /\ status' = status) \/ Excused'
          /\ admin.doing \in {"edit", "refresh"} \/ admin'.at = "clear"
       \/ /\ admin.at = "clear" /\ ~Refreshing' /\ UNCHANGED <<stored, minted, live>>
          /\ status' = "active" \/ Excused'

\* What the administrator's requests do is one of these.
LEMMA ManagingSteps ==
    ASSUME TypeOK, Administration
    PROVE  Manages
<1> USE DEF Manages, Refreshing, InFlight, Excused
<1>0. live \subseteq Nat BY DEF TypeOK
<1>1. CASE EditReads BY <1>0, <1>1 DEF EditReads, Asks
<1>2. CASE ManualRefresh BY <1>0, <1>2 DEF ManualRefresh, Asks, TypeOK
<1>3. CASE Reauthorize BY <1>0, <1>3 DEF Reauthorize, Asks, TypeOK
<1>4. CASE AdminReads BY <1>0, <1>4 DEF AdminReads, TypeOK
<1>5. CASE AdminWrites
    <2>1. /\ admin.at = "write" /\ UNCHANGED <<minted, live, at>> /\ mishaps \subseteq mishaps'
          /\ admin.doing \in {"edit", "refresh", "reauth"}
        BY <1>5 DEF AdminWrites, TypeOK
    <2>2. CASE admin' = NoRequest /\ UNCHANGED row
        BY <1>0, <2>1, <2>2
    <2>3. ASSUME admin' = CASE admin.doing = "edit" -> NoRequest
                            [] admin.doing = "refresh" -> [NoRequest EXCEPT !.at = "purge"]
                            [] admin.doing = "reauth" -> [NoRequest EXCEPT !.at = "clear"]
          PROVE  /\ admin'.at \in {"idle", "purge", "clear"}
                 /\ admin.doing = "reauth" => admin'.at = "clear"
        BY <2>1, <2>3
    <2>4. ASSUME status' = admin.status, NEW causes,
                 Note(IfSo(stored # admin.seen \/ status # admin.status, "overwritten") \cup causes)
          PROVE  (stored = admin.seen /\ status' = status) \/ Excused'
        BY <2>4
    <2> QED BY <1>0, <1>5, <2>1, <2>2, <2>3, <2>4 DEF AdminWrites
<1>6. CASE AdminClears BY <1>0, <1>6 DEF AdminClears, TypeOK
<1>7. CASE AdminPurges BY <1>0, <1>7 DEF AdminPurges
<1> QED BY <1>1, <1>2, <1>3, <1>4, <1>5, <1>6, <1>7 DEF Administration

\* Nobody denies what another one works on, while the lock excludes.
LEMMA NextAttempts ==
    TypeOK /\ Minting /\ Exclusive /\ Denials /\ Attempts /\ [Next]_vars => Attempts'
<1> USE DEF Attempts, Denying
<1> SUFFICES ASSUME TypeOK, Minting, Exclusive, Denials, Attempts, [Next]_vars, ~Excused'
             PROVE  Attempts'
    OBVIOUS
<1>a. /\ minted \in Nat /\ stored.pair <= minted /\ stored.pair \in Nat
      /\ \A c \in Callers : at[c].acct.pair \in Nat
    BY Ints DEF Minting, Numbers, TypeOK
<1>b. ASSUME mishaps \subseteq mishaps' PROVE ~Excused BY <1>b DEF Excused
<1>c. ASSUME mishaps \subseteq mishaps', NEW c \in Callers, at[c].pc \in Inside, NEW d \in Callers \ {c}
      PROVE  at[d].pc \notin {"call", "persist"}
    BY <1>c DEF Exclusive, Excused
<1>1. CASE Passed
    <2>1. ~Excused BY <1>1, <1>b DEF Passed
    <2>2. ASSUME NEW c \in Callers, In(c, "persist")'
          PROVE  /\ at'[c].fresh = stored' => status' = "active"
                 /\ \A d \in Callers : Denying(d)' => at'[d].acct.pair \notin {at'[c].fresh.pair, at'[c].got}
        BY <1>1, <2>1, <2>2 DEF Passed
    <2>3. ASSUME NEW c \in Callers, In(c, "call")', at'[c].fresh = stored', stored'.pair \in live'
          PROVE  status' = "active"
        BY <1>1, <2>1, <2>3 DEF Passed
    <2> QED BY <2>2, <2>3
<1>2. ASSUME NEW c \in Callers, Call(c) PROVE Attempts'
    <2>1. /\ \A d \in Callers \ {c} : at'[d] = at[d] /\ at[d].pc \notin {"call", "persist"}
          /\ at[c].pc = "call" /\ UNCHANGED <<stored, status>> /\ ~Excused
        <3>1. mishaps \subseteq mishaps' /\ at[c].pc = "call" /\ UNCHANGED <<stored, status>>
            BY <1>2 DEF Call
        <3>2. \A d \in Callers \ {c} : at'[d] = at[d] BY <1>2, CallMoves DEF Moved
        <3> QED BY <1>b, <1>c, <3>1, <3>2
    <2>2. at'[c].next # "deny" BY <1>2, CallForgets
    <2>3. at'[c].pc # "call" BY <1>2, CallMoves
    <2>4. ASSUME In(c, "persist")'
          PROVE  /\ at[c].fresh.pair \in live /\ at'[c].fresh = at[c].fresh /\ at'[c].got = NextPair
        BY <1>2, <2>4, CallMoves DEF Granted
    <2>5. ASSUME In(c, "persist")', NEW d \in Callers, Denying(d)'
          PROVE  at'[d].acct.pair \notin {at'[c].fresh.pair, at'[c].got}
        <3>1. d # c /\ at'[d] = at[d] /\ Denying(d) BY <2>1, <2>2, <2>5
        <3>2. at[d].acct.pair \notin live /\ at[d].acct.pair <= minted BY <3>1 DEF Denials
        <3> QED BY <1>a, <2>4, <2>5, <3>1, <3>2
    <2>6. In(c, "persist")' /\ at'[c].fresh = stored => status = "active"
        BY <2>1, <2>4
    <2> QED BY <2>1, <2>3, <2>5, <2>6
<1>3. ASSUME NEW c \in Callers, Persist(c) PROVE Attempts'
    <2>1. /\ \A d \in Callers \ {c} : at'[d] = at[d] /\ at[d].pc \notin {"call", "persist"}
        BY <1>3, <1>c, PersistForgets, PersistStores DEF Forgets, Moved
    <2>2. at'[c].pc \notin {"call", "persist"} BY <1>3, PersistForgets DEF Forgets
    <2> QED BY <2>1, <2>2
<1>4. ASSUME NEW c \in Callers, Recover(c) PROVE Attempts'
    <2>1. /\ \A d \in Callers \ {c} : at'[d] = at[d] /\ at[d].pc \notin {"call", "persist"}
          /\ at'[c].pc = "unlock"
        BY <1>4, <1>c, RecoverDenies DEF Moved
    <2> QED BY <2>1
<1>5. ASSUME NEW c \in Callers, Deny(c) PROVE Attempts'
    <2>1. /\ \A d \in Callers \ {c} : at'[d] = at[d]
          /\ Denying(c) /\ at'[c].pc = "idle" /\ at'[c].next # "deny"
          /\ UNCHANGED <<stored, live>> /\ ~Excused
          /\ status' = status \/ stored = at[c].acct
        BY <1>5, <1>b, DenyDenies DEF Moved, Excused
    <2>2. CASE status' = status BY <2>1, <2>2
    <2>3. CASE stored = at[c].acct
        <3>1. \A d \in Callers : In(d, "persist") => at[d].fresh # stored BY <2>1, <2>3
        <3>2. stored.pair \notin live BY <2>1, <2>3 DEF Denials
        <3> QED BY <2>1, <3>1, <3>2
    <2> QED BY <2>1, <2>2, <2>3
<1>6. CASE Administration
    <2>1. Manages /\ ~Excused /\ at' = at BY <1>6, <1>b, ManagingSteps DEF Manages
    <2>2. CASE UNCHANGED <<stored, status>> /\ (stored.pair \in live' => stored.pair \in live)
        BY <2>1, <2>2
    <2>3. CASE admin.at = "write" /\ stored' = admin.creds /\ stored = admin.seen /\ status' = status
               /\ UNCHANGED live
        <3>1. admin.doing = "edit" => stored' = stored BY <2>3 DEF Minting, Plain
        <3>2. admin.doing # "edit" => \A c \in Callers : at[c].fresh # stored'
            BY <2>3 DEF Minting, Apart, InFlight
        <3> QED BY <2>1, <2>3, <3>1, <3>2
    <2>4. CASE status' = "active" BY <2>1, <2>4
    <2> QED BY <1>a, <2>1, <2>2, <2>3, <2>4 DEF Manages
<1> QED BY <1>1, <1>2, <1>3, <1>4, <1>5, <1>6, ErrorSteps

\* A manual refresh finds nobody who could put the account in error.
LEMMA NextRefreshed ==
    TypeOK /\ Minting /\ Exclusive /\ EInv /\ [Next]_vars => Refreshed'
<1> USE DEF EInv, Refreshed, Denying
<1> SUFFICES ASSUME TypeOK, Minting, Exclusive, EInv, [Next]_vars, ~Excused', Refreshing'
             PROVE  /\ status' = "active"
                    /\ \A c \in Callers :
                          /\ In(c, "recover")' => at'[c].fresh.pair # stored'.pair
                          /\ Denying(c)' => at'[c].acct.pair # stored'.pair
    OBVIOUS
<1>a. ASSUME mishaps \subseteq mishaps' PROVE ~Excused BY <1>a DEF Excused
<1>b. ASSUME admin' = admin PROVE Refreshing BY <1>b DEF Refreshing, InFlight
<1>1. CASE Passed
    <2>1. ~Excused /\ Refreshing BY <1>1, <1>a, <1>b DEF Passed
    <2> QED BY <1>1, <2>1 DEF Passed
<1>2. ASSUME NEW c \in Callers, Call(c)
      PROVE  /\ status' = "active"
             /\ \A d \in Callers : /\ In(d, "recover")' => at'[d].fresh.pair # stored'.pair
                                   /\ Denying(d)' => at'[d].acct.pair # stored'.pair
    <2>1. ~Excused /\ Refreshing /\ UNCHANGED <<stored, status>>
        BY <1>2, <1>a, <1>b DEF Call
    <2>2. \A d \in Callers \ {c} : at'[d] = at[d] BY <1>2, CallMoves DEF Moved
    <2>3. at'[c].next # "deny" BY <1>2, CallForgets
    <2>4. at'[c].pc \in {"persist", "unlock", "recover"} BY <1>2, CallMoves
    <2>5. at'[c].pc # "recover"
        BY <1>2, <2>1, CallMoves DEF Refused, Refreshing, InFlight, Excused
    <2> QED BY <2>1, <2>2, <2>3, <2>4, <2>5
<1>3. ASSUME NEW c \in Callers, Persist(c)
      PROVE  /\ status' = "active"
             /\ \A d \in Callers : /\ In(d, "recover")' => at'[d].fresh.pair # stored'.pair
                                   /\ Denying(d)' => at'[d].acct.pair # stored'.pair
    <2>1. ~Excused /\ Refreshing /\ status' = status /\ at[c].pc = "persist"
        BY <1>3, <1>a, <1>b, PersistStores
    <2>2. \A d \in Callers \ {c} : at'[d] = at[d] /\ at[d].pc # "recover"
        BY <1>3, <2>1, PersistForgets DEF Forgets, Moved, Exclusive, Excused
    <2>3. ~Denying(c)' /\ ~In(c, "recover")' BY <1>3, PersistForgets DEF Forgets
    <2>4. stored'.pair \in {at[c].got, stored.pair} BY <1>3, PersistStores DEF Renewed
    <2> QED BY <2>1, <2>2, <2>3, <2>4 DEF Attempts
<1>4. ASSUME NEW c \in Callers, Recover(c)
      PROVE  /\ status' = "active"
             /\ \A d \in Callers : /\ In(d, "recover")' => at'[d].fresh.pair # stored'.pair
                                   /\ Denying(d)' => at'[d].acct.pair # stored'.pair
    <2>1. ~Excused /\ Refreshing BY <1>4, <1>a, <1>b, RecoverDenies
    <2>2. \A d \in Callers \ {c} : at'[d] = at[d] BY <1>4, RecoverDenies DEF Moved
    <2>3. /\ UNCHANGED <<stored, status>> /\ at[c].pc = "recover" /\ at'[c].pc = "unlock"
          /\ at'[c].next = "deny" => at'[c].acct = at[c].fresh
        BY <1>4, RecoverDenies
    <2>4. at[c].fresh.pair # stored.pair BY <2>1, <2>3
    <2> QED BY <2>1, <2>2, <2>3, <2>4
<1>5. ASSUME NEW c \in Callers, Deny(c)
      PROVE  /\ status' = "active"
             /\ \A d \in Callers : /\ In(d, "recover")' => at'[d].fresh.pair # stored'.pair
                                   /\ Denying(d)' => at'[d].acct.pair # stored'.pair
    <2>1. ~Excused /\ Refreshing /\ status' = status
        BY <1>5, <1>a, <1>b, DenyDenies DEF Excused
    <2> QED BY <1>5, <2>1, DenyDenies DEF Moved
<1>6. CASE Administration
    <2>1. Manages /\ ~Excused /\ at' = at BY <1>6, <1>a, ManagingSteps DEF Manages
    <2>2. CASE admin.at = "idle" /\ UNCHANGED <<stored, status>> /\ stored.pair \in live
        <3>1. status = "active" BY <2>1, <2>2 DEF ErrorIsDeserved, Excused, TypeOK
        <3> QED BY <2>1, <2>2, <3>1 DEF Denials
    <2>3. CASE admin.at = "read" /\ UNCHANGED <<stored, status>> /\ admin'.doing = admin.doing
        <3>1. Refreshing BY <2>3 DEF Refreshing, InFlight
        <3> QED BY <2>1, <2>3, <3>1
    <2> QED BY <2>1, <2>2, <2>3 DEF Manages, Refreshing
<1> QED BY <1>1, <1>2, <1>3, <1>4, <1>5, <1>6, ErrorSteps

\* What puts an account in error is the denial of the token it holds.
LEMMA NextErrors ==
    TypeOK /\ Minting /\ EInv /\ [Next]_vars => ErrorIsDeserved'
<1> USE DEF EInv, Denying
<1> SUFFICES ASSUME TypeOK, Minting, EInv, [Next]_vars, ~Excused', status' = "error",
                    stored'.pair \in live'
             PROVE  admin'.at = "clear"
    BY DEF ErrorIsDeserved, Excused
<1>a. ASSUME mishaps \subseteq mishaps' PROVE ~Excused BY <1>a DEF Excused
<1>b. ASSUME status = "error", stored.pair \in live, ~Excused PROVE admin.at = "clear"
    BY <1>b DEF ErrorIsDeserved, Excused
<1>c. stored.pair # NextPair BY Ints DEF Minting, Numbers
<1>1. CASE Passed BY <1>1, <1>a, <1>b DEF Passed
<1>2. ASSUME NEW c \in Callers, Call(c) PROVE admin'.at = "clear"
    <2>1. UNCHANGED <<stored, status, admin>> /\ mishaps \subseteq mishaps' BY <1>2 DEF Call
    <2>2. live' \subseteq live \cup {NextPair} BY <1>2 DEF Call
    <2> QED BY <1>a, <1>b, <1>c, <2>1, <2>2
<1>3. ASSUME NEW c \in Callers, Persist(c) PROVE admin'.at = "clear"
    <2>1. ~Excused /\ UNCHANGED <<status, live, admin>> /\ at[c].pc = "persist"
        BY <1>3, <1>a, PersistStores
    <2>2. CASE stored' = stored BY <1>b, <2>1, <2>2
    <2>3. CASE stored = at[c].fresh BY <2>1, <2>3 DEF Attempts
    <2> QED BY <1>3, <2>2, <2>3, PersistStores DEF Excused
<1>4. ASSUME NEW c \in Callers, Recover(c) PROVE admin'.at = "clear"
    BY <1>4, <1>a, <1>b, RecoverDenies
<1>5. ASSUME NEW c \in Callers, Deny(c) PROVE admin'.at = "clear"
    <2>1. UNCHANGED <<stored, live, admin>> /\ ~Excused /\ Denying(c) BY <1>5, <1>a, DenyDenies
    <2>2. CASE status' = status BY <1>b, <2>1, <2>2
    <2>3. CASE stored = at[c].acct BY <2>1, <2>3 DEF Denials
    <2> QED BY <1>5, <2>2, <2>3, DenyDenies DEF Excused
<1>6. CASE Administration
    <2>1. Manages /\ ~Excused BY <1>6, <1>a, ManagingSteps DEF Manages
    <2>2. CASE UNCHANGED <<stored, status>> /\ (stored.pair \in live' => stored.pair \in live)
               /\ admin.at # "clear"
        BY <1>b, <2>1, <2>2
    <2>3. CASE admin.at = "write" /\ stored' = admin.creds /\ stored = admin.seen /\ status' = status
               /\ UNCHANGED live /\ (admin.doing \in {"edit", "refresh"} \/ admin'.at = "clear")
        <3>1. CASE admin.doing = "edit"
            <4>1. stored' = stored BY <2>3, <3>1 DEF Minting, Plain
            <4> QED BY <1>b, <2>1, <2>3, <4>1
        <3>2. CASE admin.doing = "refresh"
            <4>1. Refreshing BY <2>3, <3>2 DEF Refreshing, InFlight
            <4> QED BY <2>1, <2>3, <4>1 DEF Refreshed
        <3> QED BY <2>3, <3>1, <3>2
    <2> QED BY <1>c, <2>1, <2>2, <2>3 DEF Manages
<1> QED BY <1>1, <1>2, <1>3, <1>4, <1>5, <1>6, ErrorSteps

\* What a caller has once it went on.
LEMMA GoKeeps ==
    ASSUME TypeOK, Ways, NEW c \in Callers, NEW place \in Places, Go(c, place),
           at[c].pc # "unlock" \/ place = "idle"
    PROVE  /\ Moved(c) /\ at'[c].pc = place /\ at'[c].next = "idle"
           /\ place # "idle" => at'[c].acct = at[c].acct /\ at'[c].fresh = at[c].fresh
           /\ place = "idle" => at'[c].acct = First /\ at'[c].fresh = First
<1>0. at[c] \in Caller BY DEF TypeOK
<1>1. CASE place = "idle"
    <2>1. Idle \in Caller /\ Idle.next = "idle" /\ Idle.pc = "idle" /\ Idle.acct = First /\ Idle.fresh = First
        OBVIOUS
    <2>2. Hold(c, Idle) BY <1>1 DEF Go
    <2> HIDE DEF Idle
    <2> QED BY <1>1, <2>1, <2>2, HoldMoves
<1>2. CASE place # "idle"
    <2> DEFINE what == [at[c] EXCEPT !.pc = place]
    <2>1. /\ what \in Caller /\ what.pc = place /\ what.next = "idle" /\ what.acct = at[c].acct
          /\ what.fresh = at[c].fresh
        BY <1>0, <1>2 DEF Ways
    <2>2. Hold(c, what) BY <1>2 DEF Go
    <2> HIDE DEF what
    <2> QED BY <1>2, <2>1, <2>2, HoldMoves
<1> QED BY <1>1, <1>2

\* What a caller has on its way out.
LEMMA LeaveKeeps ==
    ASSUME TypeOK, NEW c \in Callers, NEW place \in After, NEW account \in Credentials,
           Leave(c, place, account)
    PROVE  /\ Moved(c) /\ at'[c].pc = "unlock" /\ at'[c].next = place /\ at'[c].fresh = First
           /\ place # "idle" => at'[c].acct = account
           /\ place = "idle" => at'[c].acct = First
<1>1. Idle \in Caller /\ Idle.next = "idle" /\ Idle.acct = First /\ Idle.fresh = First OBVIOUS
<1> HIDE DEF Idle
<1>2. CASE place = "idle"
    <2> DEFINE what == [Idle EXCEPT !.pc = "unlock"]
    <2>1. /\ what \in Caller /\ what.pc = "unlock" /\ what.next = "idle" /\ what.acct = First
          /\ what.fresh = First
        BY <1>1
    <2>2. Hold(c, what) BY <1>2 DEF Leave
    <2> HIDE DEF what
    <2> QED BY <1>2, <2>1, <2>2, HoldMoves
<1>3. CASE place # "idle"
    <2> DEFINE what == [Idle EXCEPT !.pc = "unlock", !.next = place, !.acct = account]
    <2>1. /\ what \in Caller /\ what.pc = "unlock" /\ what.next = place /\ what.acct = account
          /\ what.fresh = First
        BY <1>1
    <2>2. Hold(c, what) BY <1>3 DEF Leave
    <2> HIDE DEF what
    <2> QED BY <1>3, <2>1, <2>2, HoldMoves
<1> QED BY <1>2, <1>3

\* A step of a caller that does not store a grant.
Serves(c) ==
    /\ Moved(c) /\ UNCHANGED <<stored, admin>> /\ mishaps \subseteq mishaps' /\ minted' \in {minted, NextPair}
    /\ at'[c].next # "idle" => at'[c].pc = "unlock"
    /\ Serving(c)' \/ at'[c].pc \in {"lookup", "wait"} => c \in Requests
    /\ at'[c].acct \in {stored, at[c].acct, at[c].fresh, First} /\ at'[c].fresh \in {stored, at[c].fresh, First}
    /\ In(c, "persist")' => at'[c].fresh = at[c].fresh /\ at'[c].got = NextPair /\ minted' = NextPair
    /\ Asking(c)' => at'[c].acct = stored \/ (Asking(c) /\ at'[c].acct = at[c].acct)
    /\ \/ Outdated' \/ ~In(c, "cache")' \/ at'[c].acct = stored
       \/ In(c, "check") /\ ~VersionIsStale(c) /\ at'[c].acct = at[c].acct
    /\ \/ Outdated' \/ cached' = 0
       \/ /\ cached' \in {cached, stored.pair} \/ (In(c, "cache") /\ cached' = at[c].acct.pair)
          /\ Emptying(c) => Emptying(c)'
          /\ Serving(c) => \/ Serving(c)' /\ at'[c].acct = at[c].acct
                           \/ VersionIsStale(c) \/ cached' = at[c].acct.pair

\* Every such step is one of these.
LEMMA ServingSteps ==
    ASSUME TypeOK, Ways, NEW c \in Callers,
           \/ Begin(c) \/ Lookup(c) \/ Acquire(c) \/ Wait(c) \/ Read(c) \/ Call(c) \/ Recover(c)
           \/ Purge(c) \/ Unlock(c) \/ Deny(c) \/ Sync(c) \/ Check(c) \/ Cache(c) \/ Crash(c)
    PROVE  Serves(c)
<1> USE DEF Serves, Serving, Emptying, Asking, Outdated
<1>0. /\ at[c] \in Caller /\ stored \in Credentials /\ (c \in Requests <=> c \notin Background)
      /\ at[c].next # "idle" => at[c].pc = "unlock"
    BY DEF TypeOK, Ways, Callers
<1>1. CASE Begin(c)
    <2>1. ASSUME NEW p \in {"lock", "lookup"}, Hold(c, [Idle EXCEPT !.pc = p, !.acct = stored])
          PROVE  /\ Moved(c) /\ at'[c].pc = p /\ at'[c].next = "idle" /\ at'[c].acct = stored
                 /\ at'[c].fresh = First
        <3> DEFINE what == [Idle EXCEPT !.pc = p, !.acct = stored]
        <3>0. Idle \in Caller /\ Idle.next = "idle" /\ Idle.fresh = First OBVIOUS
        <3> HIDE DEF Idle
        <3>1. /\ what \in Caller /\ what.pc = p /\ what.next = "idle" /\ what.acct = stored
              /\ what.fresh = First
            BY <1>0, <3>0
        <3>2. Hold(c, what) BY <2>1
        <3> HIDE DEF what
        <3> QED BY <3>1, <3>2, HoldMoves
    <2>2. /\ UNCHANGED <<stored, admin, minted, mishaps, cached>>
          /\ at[c].pc = "idle"
        BY <1>1 DEF Begin
    <2>3. \E p \in {"lock", "lookup"} : /\ Hold(c, [Idle EXCEPT !.pc = p, !.acct = stored])
                                        /\ p = "lookup" => c \in Requests
        BY <1>1 DEF Begin
    <2> QED BY <1>0, <2>1, <2>2, <2>3
<1>2. CASE Lookup(c)
    <2>1. \E p \in {"idle", "lock", "check"} : Go(c, p) BY <1>2 DEF Lookup
    <2>2. at[c].pc = "lookup" /\ UNCHANGED <<stored, admin, minted, mishaps, cached>> BY <1>2 DEF Lookup
    <2>3. c \in Requests BY <2>2 DEF Ways
    <2> QED BY <1>0, <2>1, <2>2, <2>3, GoKeeps
<1>3. CASE Acquire(c)
    <2>1. \E p \in {"read", "idle", "wait"} : Go(c, p) /\ (p = "wait" => c \in Requests)
        BY <1>0, <1>3 DEF Acquire
    <2>2. /\ at[c].pc = "lock" /\ UNCHANGED <<stored, admin, minted, cached>> /\ mishaps \subseteq mishaps'
        BY <1>3 DEF Acquire
    <2> QED BY <1>0, <2>1, <2>2, GoKeeps
<1>4. CASE Wait(c)
    <2>1. at[c].pc = "wait" /\ UNCHANGED <<stored, admin, minted, mishaps, cached>>
        BY <1>4 DEF Wait
    <2>2. c \in Requests /\ at[c].next = "idle" BY <1>0, <2>1 DEF Ways
    <2>3. CASE \E p \in {"idle", "check"} : Go(c, p)
        BY <1>0, <2>1, <2>2, <2>3, GoKeeps
    <2>4. CASE Hold(c, [at[c] EXCEPT !.pc = "cache", !.acct = stored])
        BY <1>0, <2>1, <2>2, <2>4, ServingWait DEF Kept
    <2> QED BY <1>4, <2>3, <2>4 DEF Wait
<1>5. CASE Deny(c)
    <2>1. Go(c, "idle") /\ at[c].pc = "deny" BY <1>5 DEF Deny
    <2>2. UNCHANGED <<stored, admin, minted>> /\ mishaps \subseteq mishaps' /\ cached' \in {0, cached}
        BY <1>5 DEF Deny
    <2> QED BY <1>0, <2>1, <2>2, GoKeeps
<1>6. CASE Sync(c)
    <2>1. Go(c, "idle") /\ at[c].pc = "sync" BY <1>6 DEF Sync
    <2>2. UNCHANGED <<stored, admin, minted>> /\ mishaps \subseteq mishaps' /\ (cached' = 0 \/ "stale" \in mishaps')
        BY <1>6 DEF Sync, Invalidated
    <2> QED BY <1>0, <2>1, <2>2, GoKeeps
<1>7. CASE Check(c)
    <2>1. \E p \in {"idle", "cache"} : /\ Go(c, p)
                                       /\ p = "cache" => ~VersionIsStale(c) \/ "stale" \in mishaps'
                                       /\ p = "idle" => VersionIsStale(c)
        BY <1>7 DEF Check
    <2>2. /\ at[c].pc = "check" /\ UNCHANGED <<stored, admin, minted, cached>> /\ mishaps \subseteq mishaps'
        BY <1>7 DEF Check
    <2>3. c \in Requests BY <2>2 DEF Ways, Serving
    <2> QED BY <1>0, <2>1, <2>2, <2>3, GoKeeps
<1>8. CASE Cache(c)
    <2>1. Go(c, "idle") /\ at[c].pc = "cache" BY <1>8 DEF Cache
    <2>2. /\ UNCHANGED <<stored, admin, minted>> /\ mishaps \subseteq mishaps'
          /\ cached' = at[c].acct.pair \/ "stale" \in mishaps'
        BY <1>8 DEF Cache
    <2> QED BY <1>0, <2>1, <2>2, GoKeeps
<1>9. CASE Crash(c)
    <2>1. Go(c, "idle") BY <1>9 DEF Crash
    <2>2. UNCHANGED <<stored, admin, minted, cached>> /\ mishaps \subseteq mishaps' BY <1>9 DEF Crash
    <2>3. Emptying(c) \/ Serving(c) => "stale" \in mishaps' BY <1>9 DEF Crash
    <2> QED BY <1>0, <2>1, <2>2, <2>3, GoKeeps
<1>10. CASE Read(c)
    <2>1. UNCHANGED <<stored, admin, minted, mishaps, cached>> /\ at[c].pc = "read" BY <1>10 DEF Read
    <2>2. CASE Hold(c, [at[c] EXCEPT !.pc = "call", !.fresh = stored])
        <3> DEFINE what == [at[c] EXCEPT !.pc = "call", !.fresh = stored]
        <3>1. /\ what \in Caller /\ what.pc = "call" /\ what.next = "idle" /\ what.acct = at[c].acct
              /\ what.fresh = stored
            BY <1>0, <2>1
        <3>2. Hold(c, what) BY <2>2
        <3> HIDE DEF what
        <3> QED BY <1>0, <2>1, <3>1, <3>2, HoldMoves
    <2>3. CASE Leave(c, AfterNone(c), stored)
        <3>1. AfterNone(c) \in {"check", "idle"} /\ (AfterNone(c) = "check" => c \in Requests)
            BY DEF AfterNone
        <3> QED BY <1>0, <2>1, <2>3, <3>1, LeaveKeeps
    <2>4. CASE Leave(c, AfterError(c), at[c].acct)
        <3>1. AfterError(c) \in {"check", "idle"} /\ (AfterError(c) = "check" => c \in Requests)
            BY DEF AfterError
        <3> QED BY <1>0, <2>1, <2>4, <3>1, LeaveKeeps
    <2> QED BY <1>10, <2>2, <2>3, <2>4 DEF Read
<1>11. CASE Call(c)
    <2>1. /\ UNCHANGED <<stored, admin, cached>> /\ at[c].pc = "call" /\ mishaps \subseteq mishaps'
          /\ minted' \in {minted, NextPair}
        BY <1>11 DEF Call
    <2>2. CASE /\ Hold(c, [at[c] EXCEPT !.pc = "persist", !.got = NextPair]) /\ minted < MaxMints
               /\ minted' = NextPair
        <3> DEFINE what == [at[c] EXCEPT !.pc = "persist", !.got = NextPair]
        <3>0. NextPair \in Pairs BY <2>2 DEF TypeOK
        <3>1. /\ what \in Caller /\ what.pc = "persist" /\ what.next = "idle" /\ what.acct = at[c].acct
              /\ what.fresh = at[c].fresh /\ what.got = NextPair
            BY <1>0, <2>1, <3>0
        <3>2. Hold(c, what) BY <2>2
        <3> HIDE DEF what
        <3> QED BY <1>0, <2>1, <2>2, <3>1, <3>2, HoldMoves
    <2>3. CASE Leave(c, AfterError(c), at[c].acct)
        <3>1. AfterError(c) \in {"check", "idle"} /\ (AfterError(c) = "check" => c \in Requests)
            BY DEF AfterError
        <3> QED BY <1>0, <2>1, <2>3, <3>1, LeaveKeeps
    <2>4. CASE Go(c, "recover")
        BY <1>0, <2>1, <2>4, GoKeeps
    <2> QED BY <1>11, <2>2, <2>3, <2>4 DEF Call
<1>12. CASE Recover(c)
    <2>1. UNCHANGED <<stored, admin, minted, mishaps, cached>> /\ at[c].pc = "recover" BY <1>12 DEF Recover
    <2>2. CASE Leave(c, AfterNone(c), stored)
        <3>1. AfterNone(c) \in {"check", "idle"} /\ (AfterNone(c) = "check" => c \in Requests)
            BY DEF AfterNone
        <3> QED BY <1>0, <2>1, <2>2, <3>1, LeaveKeeps
    <2>3. CASE c \in Background /\ Leave(c, "deny", at[c].fresh)
        BY <1>0, <2>1, <2>3, LeaveKeeps
    <2>4. CASE Leave(c, AfterError(c), at[c].acct)
        <3>1. AfterError(c) \in {"check", "idle"} /\ (AfterError(c) = "check" => c \in Requests)
            BY DEF AfterError
        <3> QED BY <1>0, <2>1, <2>4, <3>1, LeaveKeeps
    <2> QED BY <1>12, <2>2, <2>3, <2>4 DEF Recover
<1>13. CASE Purge(c)
    <2>1. /\ UNCHANGED <<stored, admin, minted>> /\ mishaps \subseteq mishaps' /\ at[c].pc = "purge"
          /\ cached' = 0 \/ "stale" \in mishaps'
        BY <1>13 DEF Purge
    <2>2. PICK place \in {AfterSuccess(c), AfterError(c)} : Leave(c, place, stored)
        BY <1>13 DEF Purge
    <2>3. place \in {"sync", "check", "idle"} /\ (place = "check" => c \in Requests)
        BY DEF AfterSuccess, AfterNone, AfterError
    <2>4. /\ Moved(c) /\ at'[c].pc = "unlock" /\ at'[c].next = place /\ at'[c].fresh = First
          /\ at'[c].acct \in {stored, First} /\ (place # "idle" => at'[c].acct = stored)
        BY <1>0, <2>2, <2>3, LeaveKeeps
    <2> QED BY <1>0, <2>1, <2>3, <2>4
<1>14. CASE Unlock(c)
    <2>1. UNCHANGED <<stored, admin, minted, mishaps, cached>> /\ at[c].pc = "unlock" BY <1>14 DEF Unlock
    <2> DEFINE what == [at[c] EXCEPT !.pc = at[c].next, !.next = "idle"]
    <2>2. /\ what \in Caller /\ what.pc = at[c].next /\ what.next = "idle" /\ what.acct = at[c].acct
          /\ what.fresh = at[c].fresh
        BY <1>0
    <2>3. Hold(c, what) BY <1>14 DEF Unlock
    <2> HIDE DEF what
    <2>4. /\ Moved(c) /\ at'[c].pc = at[c].next /\ at'[c].next = "idle" /\ at'[c].acct = at[c].acct
          /\ at'[c].fresh = at[c].fresh /\ at[c].next \in After
        BY <1>0, <2>2, <2>3, HoldMoves
    <2>5. at[c].next = "check" => c \in Requests BY DEF Ways
    <2> QED BY <1>0, <2>1, <2>4, <2>5
<1> QED
    BY <1>1, <1>2, <1>3, <1>4, <1>5, <1>6, <1>7, <1>8, <1>9, <1>10, <1>11, <1>12, <1>13, <1>14

\* Whoever stores a grant is about to empty the cache or to serve the grant.
Replaces(c) ==
    /\ at[c].pc = "persist" /\ Moved(c) /\ UNCHANGED <<minted, cached, admin>> /\ mishaps \subseteq mishaps'
    /\ at'[c].pc \in {"purge", "unlock"} /\ (at'[c].next # "idle" => at'[c].pc = "unlock")
    /\ (Serving(c)' => c \in Requests) /\ at'[c].fresh \in {at[c].fresh, First}
    /\ Asking(c)' => at'[c].acct = stored' \/ (Asking(c) /\ at'[c].acct = at[c].acct)
    /\ at'[c].acct \in {stored', stored, at[c].acct, First}
    /\ \/ stored' = stored
       \/ /\ stored' = Renewed(c) /\ (stored = at[c].fresh \/ Outdated')
          /\ Outdated' \/ Emptying(c)' \/ (Serving(c)' /\ at'[c].acct = stored')
          /\ Outdated' \/ \A r \in Requests : ~In(r, "cache")

\* That is what storing does.
LEMMA ReplacingSteps ==
    ASSUME TypeOK, Ways, NEW c \in Callers, Persist(c)
    PROVE  Replaces(c)
<1> USE DEF Serving, Emptying, Asking, Outdated
<1>0. /\ at[c] \in Caller /\ Renewed(c) \in Credentials /\ stored \in Credentials
      /\ (c \in Requests <=> c \notin Background) /\ at[c].pc = "persist" /\ at[c].next = "idle"
    BY DEF TypeOK, Ways, Renewed, Callers, Persist
<1>a. /\ AfterSuccess(c) \in {"sync", "check", "idle"} /\ AfterNone(c) \in {"check", "idle"}
      /\ AfterError(c) \in {"check", "idle"} /\ (AfterSuccess(c) = "check" => c \in Requests)
      /\ (AfterNone(c) = "check" => c \in Requests) /\ (AfterError(c) = "check" => c \in Requests)
    BY DEF AfterSuccess, AfterNone, AfterError
<1>b. UNCHANGED <<minted, cached, admin>> /\ mishaps \subseteq mishaps' BY DEF Persist
<1>c. ASSUME NEW place \in {"sync", "check", "idle"}, NEW account \in Credentials, Leave(c, place, account)
      PROVE  /\ Moved(c) /\ at'[c].pc = "unlock" /\ at'[c].next = place /\ at'[c].fresh = First
             /\ at'[c].acct = (IF place = "idle" THEN First ELSE account)
    BY <1>c, LeaveKeeps
<1>1. ASSUME MayStore(c), stored' = Renewed(c),
             LET causes == IfSo(platform = "other" /\ stored # at[c].fresh, "overwritten")
                           \cup IfSo(\E r \in Requests : In(r, "cache"), "stale")
             IN \/ /\ Note(causes)
                   /\ IF platform = "grok" THEN Hold(c, [at[c] EXCEPT !.pc = "purge", !.acct = Renewed(c)])
                      ELSE Leave(c, AfterSuccess(c), Renewed(c))
                \/ Note(causes \cup {"stale"}) /\ Leave(c, AfterError(c), at[c].acct)
      PROVE  Replaces(c)
    <2>1. /\ stored = at[c].fresh \/ Outdated'
          /\ Outdated' \/ \A r \in Requests : ~In(r, "cache")
        <3>1. platform \in {"grok", "other"} BY DEF TypeOK
        <3> HIDE DEF Leave, AfterSuccess, AfterError
        <3> QED BY <1>1, <3>1 DEF MayStore
    <2>2. CASE Hold(c, [at[c] EXCEPT !.pc = "purge", !.acct = Renewed(c)])
        <3> DEFINE what == [at[c] EXCEPT !.pc = "purge", !.acct = Renewed(c)]
        <3>1. /\ what \in Caller /\ what.pc = "purge" /\ what.next = "idle" /\ what.acct = Renewed(c)
              /\ what.fresh = at[c].fresh
            BY <1>0
        <3>2. Hold(c, what) BY <2>2
        <3> HIDE DEF what
        <3> QED BY <1>0, <1>1, <1>b, <2>1, <3>1, <3>2, HoldMoves DEF Replaces
    <2>3. CASE platform # "grok" /\ Leave(c, AfterSuccess(c), Renewed(c))
        <3>1. AfterSuccess(c) # "idle" BY <1>0, <2>3 DEF AfterSuccess, AfterNone
        <3> QED BY <1>0, <1>1, <1>a, <1>b, <1>c, <2>1, <2>3, <3>1 DEF Replaces
    <2>4. CASE Leave(c, AfterError(c), at[c].acct) /\ "stale" \in mishaps'
        BY <1>0, <1>1, <1>a, <1>b, <1>c, <2>1, <2>4 DEF Replaces
    <2> QED BY <1>1, <2>2, <2>3, <2>4
<1>2. CASE stored' = stored /\ Leave(c, AfterNone(c), stored)
    BY <1>0, <1>2, <1>a, <1>b, <1>c DEF Replaces
<1>3. CASE stored' = stored /\ Leave(c, AfterError(c), at[c].acct)
    BY <1>0, <1>3, <1>a, <1>b, <1>c DEF Replaces
<1> QED BY <1>1, <1>2, <1>3 DEF Persist

\* What the administrator's requests do to the cache and to the versions.
Rewrites ==
    /\ at' = at /\ mishaps \subseteq mishaps' /\ minted' \in {minted, NextPair} /\ cached' \in {0, cached}
    /\ stored' \in {stored, admin.creds}
    /\ admin'.creds.version \in {stored.version, admin.creds.version, 0}
    /\ \/ Outdated' \/ stored' = stored
       \/ (\A r \in Requests : In(r, "idle")) /\ admin'.at \in {"clear", "purge"}
    /\ admin.at \in {"clear", "purge"} => admin'.at \in {"clear", "purge"} \/ cached' = 0 \/ Outdated'

\* That is what they do.
LEMMA RewritingSteps ==
    ASSUME TypeOK, Minting, Administration
    PROVE  Rewrites
<1> USE DEF Rewrites, Outdated
<1>1. CASE EditReads BY <1>1 DEF EditReads, Asks
<1>2. CASE ManualRefresh BY <1>2 DEF ManualRefresh, Asks, TypeOK
<1>3. CASE Reauthorize BY <1>3 DEF Reauthorize, Asks, TypeOK
<1>4. CASE AdminReads BY <1>4 DEF AdminReads, TypeOK
<1>5. CASE AdminWrites
    <2>1. /\ admin.at = "write" /\ UNCHANGED <<minted, at, cached>> /\ mishaps \subseteq mishaps'
          /\ admin.doing \in {"edit", "refresh", "reauth"} /\ stored' \in {stored, admin.creds}
        BY <1>5 DEF AdminWrites, TypeOK
    <2>2. ASSUME admin' = CASE admin.doing = "edit" -> NoRequest
                            [] admin.doing = "refresh" -> [NoRequest EXCEPT !.at = "purge"]
                            [] admin.doing = "reauth" -> [NoRequest EXCEPT !.at = "clear"]
          PROVE  admin'.creds = First /\ (admin.doing # "edit" => admin'.at \in {"clear", "purge"})
        BY <2>1, <2>2
    <2>3. admin' = NoRequest => admin'.creds = First OBVIOUS
    <2>4. admin'.creds = First BY <1>5, <2>2, <2>3 DEF AdminWrites
    <2>5. CASE stored' = stored BY <2>1, <2>4, <2>5
    <2>6. CASE stored' # stored
        <3>1. CASE admin.doing = "edit"
            <4>1. stored # admin.seen BY <2>1, <2>6, <3>1 DEF Minting, Plain
            <4>2. "overwritten" \in mishaps' BY <1>5, <2>6, <4>1 DEF AdminWrites
            <4> QED BY <2>1, <2>4, <4>2
        <3>2. CASE admin.doing # "edit"
            <4>1. admin'.at \in {"clear", "purge"} BY <1>5, <2>2, <2>6, <3>2 DEF AdminWrites
            <4>2. "stale" \in mishaps' \/ \A r \in Requests : In(r, "idle")
                BY <1>5, <2>6, <3>2 DEF AdminWrites
            <4> QED BY <2>1, <2>4, <4>1, <4>2
        <3> QED BY <3>1, <3>2
    <2> QED BY <2>5, <2>6
<1>6. CASE AdminClears BY <1>6 DEF AdminClears, TypeOK
<1>7. CASE AdminPurges BY <1>7 DEF AdminPurges
<1> QED BY <1>1, <1>2, <1>3, <1>4, <1>5, <1>6, <1>7 DEF Administration

\* Every step is one of these; time is like a request that only empties the cache.
LEMMA CacheSteps ==
    ASSUME TypeOK, Minting, Ways, [Next]_vars
    PROVE  (\E c \in Callers : Serves(c) \/ Replaces(c)) \/ Rewrites
<1>1. ASSUME UNCHANGED <<stored, minted, admin, at>>, mishaps \subseteq mishaps', cached' \in {0, cached}
      PROVE  Rewrites
    BY <1>1 DEF Rewrites
<1>2. CASE LockExpires BY <1>1, <1>2 DEF LockExpires
<1>3. CASE TokenAges BY <1>1, <1>3 DEF TokenAges
<1>4. CASE CacheExpires BY <1>1, <1>4 DEF CacheExpires
<1>5. CASE UNCHANGED vars BY <1>1, <1>5 DEF vars
<1>6. CASE Administration BY <1>6, RewritingSteps
<1> QED BY <1>2, <1>3, <1>4, <1>5, <1>6, ServingSteps, ReplacingSteps DEF Next, Refresh

\* Whoever goes on keeps to the ways of its kind.
LEMMA NextWays == TypeOK /\ Minting /\ Ways /\ [Next]_vars => Ways'
<1> USE DEF Ways
<1> SUFFICES ASSUME TypeOK, Minting, Ways, [Next]_vars PROVE Ways'
    OBVIOUS
<1>1. ASSUME NEW c \in Callers, Serves(c) PROVE Ways'
    BY <1>1 DEF Serves, Moved, Serving
<1>2. ASSUME NEW c \in Callers, Replaces(c) PROVE Ways'
    BY <1>2 DEF Replaces, Moved, Serving
<1>3. CASE Rewrites BY <1>3 DEF Rewrites, Serving
<1> QED BY <1>1, <1>2, <1>3, CacheSteps

\* A grant is the newest there is, and nobody else has it.
LEMMA NextAges == TypeOK /\ Minting /\ Granting /\ Ways /\ Ages /\ [Next]_vars => Ages'
<1> USE DEF Ages, Asking
<1> SUFFICES ASSUME TypeOK, Minting, Granting, Ways, Ages, [Next]_vars PROVE Ages'
    OBVIOUS
<1>a. /\ minted \in Nat /\ 1 <= minted /\ stored.pair <= minted /\ stored.pair \in Nat
      /\ \A c \in Callers : at[c].got \in Nat /\ at[c].got <= minted
      /\ First.pair = 1 /\ First.version = 0
    BY Ints DEF Minting, Numbers
<1>b. /\ stored.version \in Nat /\ admin.creds.version \in Nat
      /\ \A c \in Callers : /\ at[c].acct.pair \in Nat /\ at[c].fresh.version \in Nat
                            /\ at[c].fresh.pair \in Nat /\ at[c].fresh.pair <= minted
    BY Ints DEF Minting, Numbers, TypeOK
<1> HIDE DEF First
<1>1. ASSUME NEW c \in Callers, Serves(c) PROVE Ages'
    <2>1. /\ \A d \in Callers \ {c} : at'[d] = at[d]
          /\ UNCHANGED <<stored, admin>> /\ minted' \in {minted, NextPair}
        BY <1>1 DEF Serves, Moved
    <2>2. at'[c].acct.pair <= minted /\ at'[c].fresh.version <= minted
        BY <1>1, <1>a, <1>b DEF Serves
    <2>3. ASSUME NEW d \in Callers, In(d, "persist")'
          PROVE  /\ at'[d].fresh.version < at'[d].got
                 /\ \A r \in Callers : Asking(r)' => at'[r].acct.pair # at'[d].got
        <3>1. CASE d = c
            <4>1. at'[c].fresh = at[c].fresh /\ at'[c].got = NextPair BY <1>1, <2>3, <3>1 DEF Serves
            <4>2. \A r \in Callers : at'[r].acct.pair <= minted BY <2>1, <2>2
            <4>3. \A r \in Callers : at'[r].acct.pair # NextPair BY <1>a, <1>b, <4>2
            <4> QED BY <1>a, <1>b, <3>1, <4>1, <4>3
        <3>2. CASE d # c
            <4>1. at'[d] = at[d] /\ In(d, "persist") BY <2>1, <2>3, <3>2
            <4>2. Asking(c)' => at'[c].acct.pair # at[d].got
                BY <1>1, <4>1 DEF Serves, Granting
            <4>3. \A r \in Callers \ {c} : Asking(r)' => at'[r].acct.pair # at[d].got
                BY <2>1, <4>1
            <4> QED BY <4>1, <4>2, <4>3
        <3> QED BY <3>1, <3>2
    <2>4. \A d \in Callers : at'[d].acct.pair <= minted' /\ at'[d].fresh.version <= minted'
        <3>1. at'[c].acct.pair \in Nat /\ at'[c].fresh.version \in Nat
            BY <1>1, <1>a, <1>b DEF Serves
        <3>2. at'[c].acct.pair <= minted' /\ at'[c].fresh.version <= minted'
            BY <1>a, <2>1, <2>2, <3>1
        <3>3. \A d \in Callers \ {c} : at[d].acct.pair <= minted' /\ at[d].fresh.version <= minted'
            BY <1>a, <1>b, <2>1
        <3> QED BY <2>1, <3>2, <3>3
    <2>5. stored'.version <= minted' /\ admin'.creds.version <= minted'
        BY <1>a, <1>b, <2>1
    <2> QED BY <2>3, <2>4, <2>5
<1>2. ASSUME NEW c \in Callers, Replaces(c) PROVE Ages'
    <2>1. /\ In(c, "persist") /\ UNCHANGED <<minted, admin>> /\ at'[c].pc # "persist"
          /\ stored' \in {stored, Renewed(c)}
          /\ \A d \in Callers \ {c} : at'[d] = at[d]
        BY <1>2 DEF Replaces, Moved
    <2>2. Renewed(c).pair = at[c].got /\ Renewed(c).version = at[c].got BY DEF Renewed
    <2>3. /\ at'[c].acct.pair <= minted /\ at'[c].fresh.version <= minted
          /\ stored'.version <= minted
        BY <1>2, <1>a, <1>b, <2>1, <2>2 DEF Replaces
    <2>4. ASSUME NEW d \in Callers, In(d, "persist")'
          PROVE  /\ at'[d].fresh.version < at'[d].got
                 /\ \A r \in Callers : Asking(r)' => at'[r].acct.pair # at'[d].got
        <3>1. d # c /\ at'[d] = at[d] /\ In(d, "persist") BY <2>1, <2>4
        <3>2. at[d].got # stored.pair /\ at[d].got # at[c].got BY <2>1, <3>1 DEF Granting
        <3>3. Asking(c)' => at'[c].acct.pair # at[d].got
            BY <1>2, <2>1, <2>2, <3>1, <3>2 DEF Replaces
        <3>4. ASSUME NEW r \in Callers \ {c}, Asking(r)' PROVE at'[r].acct.pair # at[d].got
            <4>1. at'[r] = at[r] BY <2>1
            <4>2. Asking(r) BY <3>4, <4>1
            <4> QED BY <3>1, <4>1, <4>2
        <3>5. at[d].fresh.version < at[d].got BY <3>1
        <3> HIDE DEF Asking
        <3> QED BY <3>1, <3>3, <3>4, <3>5
    <2> QED BY <2>1, <2>3, <2>4
<1>3. CASE Rewrites
    <2>1. at' = at /\ minted' \in {minted, NextPair} BY <1>3 DEF Rewrites
    <2>2. stored'.version <= minted /\ admin'.creds.version <= minted
        BY <1>3, <1>a, <1>b DEF Rewrites
    <2>3. stored'.version \in Nat /\ admin'.creds.version \in Nat
        BY <1>3, <1>b DEF Rewrites
    <2>4. stored'.version <= minted' /\ admin'.creds.version <= minted'
        BY <1>a, <2>1, <2>2, <2>3
    <2>5. \A c \in Callers : at[c].acct.pair <= minted' /\ at[c].fresh.version <= minted'
        BY <1>a, <1>b, <2>1
    <2> QED BY <2>1, <2>4, <2>5
<1> QED BY <1>1, <1>2, <1>3, CacheSteps

\* A new row is newer than the accounts in hand.
LEMMA NextAccounts == TypeOK /\ Minting /\ Ways /\ Ages /\ Accounts /\ [Next]_vars => Accounts'
<1> USE DEF Accounts, Asking
<1> SUFFICES ASSUME TypeOK, Minting, Ways, Ages, Accounts, [Next]_vars, ~Outdated'
             PROVE  \A r \in Callers : Asking(r)' =>
                        /\ \/ at'[r].acct = stored'
                           \/ at'[r].acct.version < stored'.version /\ at'[r].acct.pair # stored'.pair
                        /\ In(r, "cache")' => at'[r].acct = stored'
    OBVIOUS
<1>a. ASSUME mishaps \subseteq mishaps' PROVE ~Outdated BY <1>a DEF Outdated
<1>b. /\ stored.version \in Nat
      /\ \A c \in Callers : /\ at[c].acct.version \in Nat /\ at[c].fresh.version \in Nat
                            /\ at[c].got \in Nat /\ at[c].acct.pair \in Nat
    BY DEF TypeOK
<1>1. ASSUME NEW c \in Callers, Serves(c), NEW r \in Callers, Asking(r)'
      PROVE  /\ \/ at'[r].acct = stored'
                \/ at'[r].acct.version < stored'.version /\ at'[r].acct.pair # stored'.pair
             /\ In(r, "cache")' => at'[r].acct = stored'
    <2>1. stored' = stored /\ ~Outdated /\ \A d \in Callers \ {c} : at'[d] = at[d]
        BY <1>1, <1>a DEF Serves, Moved
    <2>2. CASE r # c BY <1>1, <2>1, <2>2
    <2>3. CASE r = c
        <3>1. \/ at'[c].acct = stored
              \/ Asking(c) /\ at'[c].acct = at[c].acct
            BY <1>1, <2>3 DEF Serves
        <3>2. \/ at'[c].acct = stored
              \/ at'[c].acct.version < stored.version /\ at'[c].acct.pair # stored.pair
            BY <2>1, <3>1
        <3>3. ASSUME In(c, "cache")' PROVE at'[c].acct = stored
            <4>1. \/ at'[c].acct = stored
                  \/ In(c, "check") /\ ~VersionIsStale(c) /\ at'[c].acct = at[c].acct
                BY <1>1, <3>3 DEF Serves
            <4>2. CASE In(c, "check") /\ ~VersionIsStale(c) /\ at'[c].acct = at[c].acct
                <5>1. ~(at[c].acct.version < stored.version) BY <1>b, <4>2 DEF VersionIsStale
                <5> QED BY <3>2, <4>2, <5>1
            <4> QED BY <4>1, <4>2
        <3> QED BY <2>1, <2>3, <3>2, <3>3
    <2> QED BY <2>2, <2>3
<1>2. ASSUME NEW c \in Callers, Replaces(c), NEW r \in Callers, Asking(r)'
      PROVE  /\ \/ at'[r].acct = stored'
                \/ at'[r].acct.version < stored'.version /\ at'[r].acct.pair # stored'.pair
             /\ In(r, "cache")' => at'[r].acct = stored'
    <2>1. /\ ~Outdated /\ \A d \in Callers \ {c} : at'[d] = at[d]
          /\ at'[c].pc # "cache" /\ In(c, "persist") /\ stored' \in {stored, Renewed(c)}
        BY <1>2, <1>a DEF Replaces, Moved
    <2>2. at'[r].acct = stored' \/ (Asking(r) /\ at'[r].acct = at[r].acct)
        BY <1>2, <2>1 DEF Replaces
    <2>3. CASE stored' = stored BY <1>2, <2>1, <2>2, <2>3
    <2>4. CASE stored' = Renewed(c) /\ stored' # stored
        <3>1. /\ stored = at[c].fresh /\ \A d \in Requests : ~In(d, "cache")
              /\ stored'.pair = at[c].got /\ stored'.version = at[c].got
            BY <1>2, <2>4 DEF Replaces, Renewed
        <3>2. ~In(r, "cache")' BY <1>2, <2>1, <3>1 DEF Asking
        <3>3. ASSUME Asking(r), at'[r].acct = at[r].acct
              PROVE  at'[r].acct.version < stored'.version /\ at'[r].acct.pair # stored'.pair
            <4>1. stored.version < at[c].got /\ at[r].acct.pair # at[c].got
                BY <2>1, <3>1, <3>3 DEF Ages
            <4>2. at[r].acct = stored \/ at[r].acct.version < stored.version BY <2>1, <3>3
            <4> QED BY <1>b, <3>1, <3>3, <4>1, <4>2
        <3> QED BY <2>2, <3>2, <3>3
    <2> QED BY <2>1, <2>3, <2>4
<1>3. ASSUME Rewrites, NEW r \in Callers, Asking(r)'
      PROVE  /\ \/ at'[r].acct = stored'
                \/ at'[r].acct.version < stored'.version /\ at'[r].acct.pair # stored'.pair
             /\ In(r, "cache")' => at'[r].acct = stored'
    <2>1. ~Outdated /\ at' = at /\ Asking(r) BY <1>3, <1>a DEF Rewrites
    <2>2. stored' = stored BY <1>3, <2>1 DEF Rewrites
    <2> QED BY <2>1, <2>2
<1> QED BY <1>1, <1>2, <1>3, CacheSteps

\* The cache has the row's token, or whoever will empty or replace it is on its way.
LEMMA NextCached == TypeOK /\ Minting /\ CInv /\ [Next]_vars => CachedIsCurrent'
<1> USE DEF CInv
<1> SUFFICES ASSUME TypeOK, Minting, CInv, [Next]_vars, ~Outdated', cached' \notin {0, stored'.pair}
             PROVE  \/ \E c \in Callers : Emptying(c)' \/ (Serving(c)' /\ at'[c].acct.pair = stored'.pair)
                    \/ admin'.at \in {"clear", "purge"}
    BY DEF CachedIsCurrent, PurgeIsPending, Emptying, Serving, Outdated
<1>a. ASSUME mishaps \subseteq mishaps' PROVE ~Outdated BY <1>a DEF Outdated
<1>b. ASSUME ~Outdated, cached \notin {0, stored.pair}
      PROVE  \/ \E c \in Callers : Emptying(c) \/ (Serving(c) /\ at[c].acct.pair = stored.pair)
             \/ admin.at \in {"clear", "purge"}
    BY <1>b DEF CachedIsCurrent, PurgeIsPending, Emptying, Serving, Outdated
<1>c. /\ stored.version \in Nat /\ \A c \in Callers : at[c].acct.version \in Nat
    BY DEF TypeOK
<1>d. ASSUME NEW c \in Callers, Serving(c), ~Outdated, at[c].acct.pair = stored.pair
      PROVE  ~VersionIsStale(c)
    <2>1. Asking(c) BY <1>d DEF Ways, Serving, Asking
    <2>2. at[c].acct = stored BY <1>d, <2>1 DEF Accounts
    <2> QED BY <1>c, <2>2 DEF VersionIsStale
<1>1. ASSUME NEW c \in Callers, Serves(c)
      PROVE  \/ \E d \in Callers : Emptying(d)' \/ (Serving(d)' /\ at'[d].acct.pair = stored'.pair)
             \/ admin'.at \in {"clear", "purge"}
    <2>1. UNCHANGED <<stored, admin>> /\ ~Outdated /\ \A d \in Callers \ {c} : at'[d] = at[d]
        BY <1>1, <1>a DEF Serves, Moved
    <2>2. ~(In(c, "cache") /\ cached' = at[c].acct.pair)
        <3>1. In(c, "cache") => Asking(c) BY DEF Ways, Serving, Asking
        <3> QED BY <2>1, <3>1 DEF Accounts
    <2>3. /\ cached' = cached
          /\ Emptying(c) => Emptying(c)'
          /\ Serving(c) => \/ Serving(c)' /\ at'[c].acct = at[c].acct
                           \/ VersionIsStale(c) \/ cached' = at[c].acct.pair
        BY <1>1, <2>1, <2>2 DEF Serves
    <2>4. CASE admin.at \in {"clear", "purge"} BY <2>1, <2>4
    <2>5. ASSUME NEW d \in Callers, Emptying(d) PROVE Emptying(d)'
        BY <2>1, <2>3, <2>5 DEF Emptying
    <2>6. ASSUME NEW d \in Callers, Serving(d), at[d].acct.pair = stored.pair
          PROVE  Serving(d)' /\ at'[d].acct.pair = stored'.pair
        <3>1. CASE d # c BY <2>1, <2>6, <3>1 DEF Serving
        <3>2. CASE d = c BY <1>d, <2>1, <2>3, <2>6, <3>2
        <3> QED BY <3>1, <3>2
    <2> QED BY <1>b, <2>1, <2>3, <2>4, <2>5, <2>6
<1>2. ASSUME NEW c \in Callers, Replaces(c)
      PROVE  \/ \E d \in Callers : Emptying(d)' \/ (Serving(d)' /\ at'[d].acct.pair = stored'.pair)
             \/ admin'.at \in {"clear", "purge"}
    <2>1. /\ UNCHANGED <<cached, admin>> /\ ~Outdated /\ \A d \in Callers \ {c} : at'[d] = at[d]
          /\ ~Emptying(c) /\ ~Serving(c)
        BY <1>2, <1>a DEF Replaces, Moved, Emptying, Serving, Ways
    <2>2. CASE stored' = stored
        <3>1. ASSUME NEW d \in Callers, Emptying(d) PROVE Emptying(d)'
            BY <2>1, <3>1 DEF Emptying
        <3>2. ASSUME NEW d \in Callers, Serving(d) PROVE Serving(d)' /\ at'[d].acct = at[d].acct
            BY <2>1, <3>2 DEF Serving
        <3> QED BY <1>b, <2>1, <2>2, <3>1, <3>2
    <2>3. CASE stored' # stored
        BY <1>2, <2>3 DEF Replaces
    <2> QED BY <2>2, <2>3
<1>3. ASSUME Rewrites
      PROVE  \/ \E d \in Callers : Emptying(d)' \/ (Serving(d)' /\ at'[d].acct.pair = stored'.pair)
             \/ admin'.at \in {"clear", "purge"}
    <2>1. ~Outdated /\ at' = at /\ cached' = cached BY <1>3, <1>a DEF Rewrites
    <2>2. CASE stored' = stored
        BY <1>3, <1>b, <2>1, <2>2 DEF Rewrites, Emptying, Serving
    <2> QED BY <1>3, <2>2 DEF Rewrites
<1> QED BY <1>1, <1>2, <1>3, CacheSteps DEF CInv

-----------------------------------------------------------------------------

\* The invariant of every run of the system (service/oauth_refresh_api.go).
THEOREM Invariance == Spec => []IInv
<1>1. IInv /\ [Next]_vars => IInv'
    BY NextTypeOK, NextMinting, NextExclusive, NextCurrent, NextSuccession, NextSpent DEF IInv
<1> QED BY InitIInv, <1>1, PTL DEF Spec

\* Row, cache, lock and callers stay what the code can write.
THEOREM TypeCorrect == Spec => []TypeOK
<1> IInv => TypeOK BY DEF IInv
<1> QED BY Invariance, PTL

\* Nobody presents a spent refresh token, unless a grant was lost, overwritten or revoked,
\* or someone refreshed beside the lock.
THEOREM TokensAreSpentOnce == Spec => []SpentOnce
<1> IInv => SpentOnce BY DEF IInv
<1> QED BY Invariance, PTL

\* What bears any race.
THEOREM Descending == Spec => []DInv
<1>1. Init => DInv
    BY DEF Init, DInv, Granting, OneVersion, Descent, Working
<1>2. IInv /\ DInv /\ [Next]_vars => DInv'
    BY NextGranting, NextOneVersion, NextDescent DEF IInv, DInv
<1> QED BY Invariance, <1>1, <1>2, PTL DEF Spec

\* The stored refresh token is alive or its successor is on its way, also when someone
\* refreshes beside the lock or a reauthorization revokes what was granted before.
THEOREM TokensStayAlive == Spec => []StoredIsAlive
<1> IInv /\ DInv => StoredIsAlive
    BY DEF IInv, DInv, Minting, Apart, InFlight, Descent, Unspoiled, StoredIsAlive
<1> QED BY Invariance, Descending, PTL

\* An account in error holds a token the provider refuses, unless someone refreshed beside
\* the lock, a status was not cleared, or the row was overwritten.
THEOREM ErrorsAreDeserved == Spec => []ErrorIsDeserved
<1>1. Init => EInv
    BY DEF Init, EInv, Denials, Attempts, Refreshed, ErrorIsDeserved, Denying, Refreshing, InFlight
<1>2. IInv /\ EInv /\ [Next]_vars => EInv'
    BY NextDenials, NextAttempts, NextRefreshed, NextErrors DEF IInv, EInv
<1>3. EInv => ErrorIsDeserved BY DEF EInv
<1> QED BY Invariance, <1>1, <1>2, <1>3, PTL DEF Spec

\* A cached access token is the row's, or someone is on the way to empty or replace it,
\* unless a failure, a crash, a lost update or a write decided before the update kept the old one.
THEOREM CacheStaysCurrent == Spec => []CachedIsCurrent
<1>1. Init => CInv
    BY DEF Init, CInv, Ways, Ages, Accounts, CachedIsCurrent, Serving, Asking
<1>2. IInv /\ DInv /\ CInv /\ [Next]_vars => CInv'
    BY NextWays, NextAges, NextAccounts, NextCached DEF IInv, DInv, CInv
<1>3. CInv => CachedIsCurrent BY DEF CInv
<1> QED BY Invariance, Descending, <1>1, <1>2, <1>3, PTL DEF Spec

-----------------------------------------------------------------------------
(* TokenRefresh implements TokenChain.                                     *)

\* What is on its way, element by element.
LEMMA ComingMembers ==
    /\ \A g : g \in Coming <=>
                 \/ \E c \in Callers : In(c, "persist") /\ g = Mine(c)
                 \/ InFlight /\ g = Theirs
    /\ \A n : n \in Promise!Pairs(Coming) <=>
                 \/ \E c \in Callers : In(c, "persist") /\ n = at[c].got
                 \/ InFlight /\ n = admin.creds.pair
<1>1. \A g : g \in Coming <=>
                 \/ \E c \in Callers : In(c, "persist") /\ g = Mine(c)
                 \/ InFlight /\ g = Theirs
    BY DEF Coming
<1>2. /\ \A c \in Callers : Mine(c).pair = at[c].got
      /\ Theirs.pair = admin.creds.pair
    BY DEF Mine, Theirs
<1>3. \A n : n \in Promise!Pairs(Coming) <=> \E g \in Coming : n = g.pair
    BY DEF Promise!Pairs
<1> QED BY <1>1, <1>2, <1>3

\* A caller's step that has nothing to do with a grant in hand.
LEMMA ComingKeeps ==
    ASSUME NEW c \in Callers, Moved(c), at[c].pc # "persist", at'[c].pc # "persist", UNCHANGED admin
    PROVE  Coming' = Coming
<1>1. \A d \in Callers : /\ In(d, "persist")' <=> In(d, "persist")
                         /\ In(d, "persist") => Mine(d)' = Mine(d)
    BY DEF Moved, Mine
<1>2. (InFlight' <=> InFlight) /\ Theirs' = Theirs
    BY DEF InFlight, Theirs
<1> QED BY <1>1, <1>2 DEF Coming

LEMMA ComingGains ==
    ASSUME NEW c \in Callers, Moved(c), at[c].pc # "persist", at'[c].pc = "persist", UNCHANGED admin
    PROVE  Coming' = Coming \cup {Mine(c)'}
<1>1. \A d \in Callers \ {c} : /\ In(d, "persist")' <=> In(d, "persist")
                               /\ Mine(d)' = Mine(d)
    BY DEF Moved, Mine
<1>2. (InFlight' <=> InFlight) /\ Theirs' = Theirs
    BY DEF InFlight, Theirs
<1> QED BY <1>1, <1>2 DEF Coming

\* Grants are told apart by their numbers.
LEMMA ComingDrops ==
    ASSUME Minting, Granting,
           NEW c \in Callers, Moved(c), at[c].pc = "persist", at'[c].pc # "persist", UNCHANGED admin
    PROVE  Mine(c) \in Coming /\ Coming' = Coming \ {Mine(c)}
<1>1. \A d \in Callers \ {c} : /\ In(d, "persist")' <=> In(d, "persist")
                               /\ Mine(d)' = Mine(d)
    BY DEF Moved, Mine
<1>2. (InFlight' <=> InFlight) /\ Theirs' = Theirs
    BY DEF InFlight, Theirs
<1>3. \A d \in Callers \ {c} : In(d, "persist") => Mine(d) # Mine(c)
    <2>1. \A d \in Callers : Mine(d).pair = at[d].got BY DEF Mine
    <2> QED BY <2>1 DEF Granting
<1>4. InFlight => Theirs # Mine(c)
    <2>1. Mine(c).pair = at[c].got /\ Theirs.pair = admin.creds.pair BY DEF Mine, Theirs
    <2> QED BY <2>1 DEF Minting, Apart
<1> QED BY <1>1, <1>2, <1>3, <1>4 DEF Coming

\* Grants that replace any pair are the administrator's.
LEMMA NobodyElse ==
    ASSUME TypeOK
    PROVE  ~InFlight => ~Promise!Administered
<1>1. \A c \in Callers : Mine(c).from # 0
    BY DEF Mine, TypeOK
<1> QED BY <1>1, ComingMembers DEF Promise!Administered

\* At first nothing is on its way.
LEMMA ChainInit == Init => Promise!Init
<1> SUFFICES ASSUME Init PROVE Promise!Init
    OBVIOUS
<1>1. \A c \in Callers : ~In(c, "persist")
    BY DEF Init
<1>2. ~InFlight
    BY DEF Init, InFlight
<1>3. Coming = {}
    BY <1>1, <1>2 DEF Coming
<1>4. mishaps \cap {"lost", "overlap", "revoked", "overwritten"} = {}
    BY DEF Init
<1> QED BY <1>3, <1>4 DEF Init, Promise!Init

\* A step that leaves the row, the provider and all grants alone.
LEMMA StaysInChain ==
    ASSUME UNCHANGED <<stored, minted, live>>, Coming' = Coming, mishaps \subseteq mishaps'
    PROVE  Promise!Next
BY DEF Promise!Next, Promise!Trouble

\* A grant that leaves a caller's hands unstored is lost, or the row has moved on.
LEMMA DropsInChain ==
    ASSUME NEW g \in Coming, Coming' = Coming \ {g},
           UNCHANGED <<stored, minted, live>>, mishaps \subseteq mishaps',
           g.from \notin {0, stored.pair} \/ mishaps' \cap {"lost", "overwritten"} # {}
    PROVE  Promise!Next
<1>1. Promise!Drop
    <2>1. \/ g.from \notin {0, stored.pair}
          \/ (mishaps' \cap {"lost", "overlap", "revoked", "overwritten"}) \cap {"lost", "overwritten"} # {}
        OBVIOUS
    <2> QED BY <2>1 DEF Promise!Drop
<1> QED BY <1>1 DEF Promise!Next

LEMMA StoresInChain ==
    ASSUME NEW g \in Coming, Coming' = Coming \ {g}, stored'.pair = g.pair,
           UNCHANGED <<minted, live>>, mishaps \subseteq mishaps',
           g.from \in {0, stored.pair} \/ "overwritten" \in mishaps'
    PROVE  Promise!Next
<1>1. Promise!Store
    BY DEF Promise!Store
<1> QED BY <1>1 DEF Promise!Next

\* The provider's answer: the row's pair is spent, or another beside the lock.
LEMMA CallsInChain ==
    ASSUME TypeOK, Minting, Granting, Current, NEW c \in Callers, Calls(c)
    PROVE  Promise!Next
<1>0. Moved(c) /\ at[c].pc # "persist" /\ UNCHANGED <<stored, admin>> /\ mishaps \subseteq mishaps'
    BY DEF Calls, Refused
<1>1. CASE Granted(c)
    <2> DEFINE p == at[c].fresh.pair
    <2>1. p \in live \ Promise!Pairs(Coming)
        <3>1. \A d \in Callers : In(d, "persist") => at[d].got # p
            BY <1>0 DEF Granting, Working, Calls
        <3>2. InFlight => admin.creds.pair # p
            BY DEF Minting, Apart
        <3> QED BY <1>1, <3>1, <3>2, ComingMembers DEF Granted
    <2>2. p = stored.pair \/ mishaps \cap {"lost", "overlap", "revoked", "overwritten"} # {}
        BY DEF Current, Calm, Bad, Calls
    <2>3. minted' = minted + 1 /\ live' = (live \ {p}) \cup {minted + 1}
        BY <1>1 DEF Granted
    <2>4. \/ Coming' = Coming \cup {[pair |-> minted + 1, from |-> p]}
          \/ "lost" \in mishaps' /\ Coming' = Coming
        <3>1. CASE at'[c].pc = "persist"
            <4>1. at'[c].fresh = at[c].fresh /\ at'[c].got = minted + 1
                BY <3>1 DEF Calls
            <4>2. Mine(c)' = [pair |-> minted + 1, from |-> p]
                BY <4>1 DEF Mine
            <4> QED BY <1>0, <3>1, <4>2, ComingGains
        <3>2. CASE at'[c].pc # "persist"
            <4>1. "lost" \in mishaps'
                BY <1>1, <3>2 DEF Calls, Granted, Refused, TypeOK
            <4> QED BY <1>0, <3>2, <4>1, ComingKeeps
        <3> QED BY <3>1, <3>2
    <2> HIDE DEF p
    <2>5. Promise!Grant
        BY <1>0, <2>1, <2>2, <2>3, <2>4 DEF Promise!Grant, Promise!New
    <2> QED BY <1>0, <2>5 DEF Promise!Next
<1>2. CASE ~Granted(c)
    <2>1. at'[c].pc # "persist" /\ UNCHANGED <<minted, live>>
        BY <1>2 DEF Calls, Refused
    <2> QED BY <1>0, <2>1, ComingKeeps, StaysInChain
<1> QED BY <1>1, <1>2

\* A grant is stored over the pair it came for; where it is refused, that pair is gone.
LEMMA PersistsInChain ==
    ASSUME TypeOK, Minting, Granting, OneVersion, NEW c \in Callers, Persists(c)
    PROVE  Promise!Next
<1>1. Mine(c) \in Coming /\ Coming' = Coming \ {Mine(c)}
    <2>1. Moved(c) /\ at[c].pc = "persist" /\ at'[c].pc # "persist" /\ UNCHANGED admin
        BY DEF Persists
    <2> QED BY <2>1, ComingDrops
<1>2. Mine(c).pair = at[c].got /\ Mine(c).from = at[c].fresh.pair /\ Mine(c).from # 0
    BY DEF Mine, TypeOK
<1>3. CASE stored'.pair = at[c].got /\ (stored = at[c].fresh \/ "overwritten" \in mishaps')
    BY <1>1, <1>2, <1>3, StoresInChain DEF Persists
<1>4. CASE stored' = stored /\ (stored # at[c].fresh \/ "lost" \in mishaps')
    <2>1. Mine(c).from # stored.pair \/ mishaps' \cap {"lost", "overwritten"} # {}
        <3>1. CASE Unspoiled
            BY <1>2, <1>4, <3>1 DEF OneVersion, Working, Persists
        <3>2. CASE ~Unspoiled
            BY <3>2 DEF Unspoiled, Persists
        <3> QED BY <3>1, <3>2
    <2> QED BY <1>1, <1>2, <1>4, <2>1, DropsInChain DEF Persists
<1> QED BY <1>3, <1>4 DEF Persists

\* Of the other steps only a death drops a grant, and notes it.
LEMMA OthersInChain ==
    ASSUME Minting, Granting,
           NEW c \in Callers, Quiet(c) \/ Acquires(c) \/ Reads(c) \/ Unlocks(c)
    PROVE  Promise!Next
<1>1. Moved(c) /\ UNCHANGED <<stored, minted, live, admin>> /\ mishaps \subseteq mishaps'
    BY DEF Quiet, Acquires, Reads, Unlocks
<1>2. at'[c].pc # "persist"
    BY DEF Quiet, Acquires, Reads, Unlocks
<1>3. CASE at[c].pc # "persist"
    BY <1>1, <1>2, <1>3, ComingKeeps, StaysInChain
<1>4. CASE at[c].pc = "persist"
    <2>1. "lost" \in mishaps'
        BY <1>4 DEF Quiet, Acquires, Reads, Unlocks
    <2>2. Mine(c) \in Coming /\ Coming' = Coming \ {Mine(c)}
        BY <1>1, <1>2, <1>4, ComingDrops
    <2> QED BY <1>1, <2>1, <2>2, DropsInChain
<1> QED BY <1>3, <1>4

\* What is on its way, while the callers do nothing.
LEMMA ComingOfAdmin ==
    ASSUME Minting, UNCHANGED at
    PROVE  /\ InFlight /\ InFlight' /\ admin'.creds.pair = admin.creds.pair => Coming' = Coming
           /\ ~InFlight /\ ~InFlight' => Coming' = Coming
           /\ ~InFlight /\ InFlight' => Coming' = Coming \cup {[pair |-> admin'.creds.pair, from |-> 0]}
           /\ InFlight => Theirs \in Coming
           /\ InFlight /\ ~InFlight' => Coming' = Coming \ {Theirs}
<1>1. \A d \in Callers : (In(d, "persist")' <=> In(d, "persist")) /\ Mine(d)' = Mine(d)
    BY DEF Mine
<1>2. InFlight => \A d \in Callers : Mine(d) # Theirs
    <2>1. \A d \in Callers : Mine(d).pair = at[d].got /\ Theirs.pair = admin.creds.pair
        BY DEF Mine, Theirs
    <2> QED BY <2>1 DEF Minting, Apart
<1>3. Theirs' = [pair |-> admin'.creds.pair, from |-> 0]
    BY DEF Theirs
<1>4. admin'.creds.pair = admin.creds.pair => Theirs' = Theirs
    BY DEF Theirs
<1> USE DEF Coming
<1>5. InFlight /\ InFlight' /\ admin'.creds.pair = admin.creds.pair => Coming' = Coming
    BY <1>1, <1>4
<1>6. ~InFlight /\ ~InFlight' => Coming' = Coming
    BY <1>1
<1>7. ~InFlight /\ InFlight' => Coming' = Coming \cup {[pair |-> admin'.creds.pair, from |-> 0]}
    BY <1>1, <1>3
<1>8. InFlight => Theirs \in Coming
    OBVIOUS
<1>9. InFlight /\ ~InFlight' => Coming' = Coming \ {Theirs}
    BY <1>1, <1>2
<1> QED BY <1>5, <1>6, <1>7, <1>8, <1>9

\* The administrator's requests: a manual refresh spends the row's pair, and what it or a
\* new authorization brought is stored or noted as lost; an edit that writes another pair
\* than the row holds is noted.
LEMMA AdminInChain ==
    ASSUME TypeOK, Minting, Granting, Administration
    PROVE  Promise!Next
<1>1. at' = at /\ mishaps \subseteq mishaps'
    BY DEF Administration, EditReads, ManualRefresh, Reauthorize, AdminReads, AdminWrites, AdminClears, AdminPurges
<1>2. CASE EditReads \/ AdminClears \/ AdminPurges
    <2>1. ~InFlight /\ ~InFlight' /\ UNCHANGED <<stored, minted, live>>
        BY <1>2 DEF EditReads, Asks, AdminClears, AdminPurges, InFlight, TypeOK
    <2> QED BY <1>1, <2>1, ComingOfAdmin, StaysInChain
<1>3. CASE ManualRefresh
    <2>1. /\ stored.pair \in live /\ stored' = stored
          /\ minted' = minted + 1 /\ live' = (live \ {stored.pair}) \cup {minted + 1}
        BY <1>3 DEF ManualRefresh
    <2>2. ~InFlight /\ InFlight' /\ admin'.creds.pair = minted + 1
        BY <1>3 DEF ManualRefresh, Asks, InFlight, TypeOK
    <2>3. Coming' = Coming \cup {[pair |-> minted + 1, from |-> 0]}
        BY <1>1, <2>2, ComingOfAdmin
    <2>4. stored.pair \notin Promise!Pairs(Coming)
        BY <2>2, ComingMembers DEF Granting
    <2>5. Promise!Grant
        BY <2>1, <2>2, <2>3, <2>4, NobodyElse DEF Promise!Grant, Promise!New
    <2> QED BY <1>1, <2>5 DEF Promise!Next
<1>4. CASE Reauthorize
    <2>1. /\ stored' = stored /\ minted' = minted + 1
          /\ live' \in {{minted + 1}, live \cup {minted + 1}}
        BY <1>4 DEF Reauthorize
    <2>2. ~InFlight /\ InFlight' /\ admin'.creds.pair = minted + 1
        BY <1>4 DEF Reauthorize, Asks, InFlight, TypeOK
    <2>3. Coming' = Coming \cup {[pair |-> minted + 1, from |-> 0]}
        BY <1>1, <2>2, ComingOfAdmin
    <2>4. Promise!Authorize
        BY <2>1, <2>2, <2>3, NobodyElse DEF Promise!Authorize, Promise!New
    <2> QED BY <1>1, <2>4 DEF Promise!Next
<1>5. CASE AdminReads
    <2>1. /\ InFlight /\ InFlight' /\ admin'.creds.pair = admin.creds.pair
          /\ UNCHANGED <<stored, minted, live>>
        BY <1>5 DEF AdminReads, InFlight, Minting, Plain, TypeOK
    <2> QED BY <1>1, <2>1, ComingOfAdmin, StaysInChain
<1>6. CASE AdminWrites
    <2>1. admin.at = "write" /\ UNCHANGED <<minted, live>>
        BY <1>6 DEF AdminWrites
    <2>2. ~InFlight'
        <3>1. admin.doing \in {"edit", "refresh", "reauth"} BY DEF TypeOK
        <3> QED BY <1>6, <3>1 DEF AdminWrites, InFlight
    <2>3. Theirs.pair = admin.creds.pair /\ Theirs.from = 0
        BY DEF Theirs
    <2>4. CASE admin.doing # "edit"
        <3>1. InFlight BY <2>1, <2>4 DEF InFlight
        <3>2. Theirs \in Coming /\ Coming' = Coming \ {Theirs}
            BY <1>1, <2>2, <3>1, ComingOfAdmin
        <3>3. CASE stored' = admin.creds
            BY <1>1, <2>1, <2>3, <3>2, <3>3, StoresInChain
        <3>4. CASE stored' = stored /\ "lost" \in mishaps'
            BY <1>1, <2>1, <2>3, <3>2, <3>4, DropsInChain
        <3> QED BY <1>6, <2>4, <3>3, <3>4 DEF AdminWrites
    <2>5. CASE admin.doing = "edit"
        <3>1. ~InFlight BY <2>5 DEF InFlight
        <3>2. Coming' = Coming
            BY <1>1, <2>2, <3>1, ComingOfAdmin
        <3>3. CASE stored' = stored
            BY <1>1, <2>1, <3>2, <3>3, StaysInChain
        <3>4. CASE stored' = admin.creds /\ (stored = admin.seen \/ "overwritten" \in mishaps')
            <4>1. admin.creds = admin.seen BY <2>1, <2>5 DEF Minting, Plain
            <4>2. admin.creds.pair \in 1 .. minted BY DEF Minting, Numbers, TypeOK
            <4>3. CASE stored' = stored BY <3>3, <4>3
            <4>4. CASE "overwritten" \in mishaps'
                <5>1. Promise!Overwrite
                    BY <2>1, <3>2, <3>4, <4>2, <4>4 DEF Promise!Overwrite
                <5> QED BY <1>1, <5>1 DEF Promise!Next
            <4> QED BY <3>4, <4>1, <4>3, <4>4
        <3> QED BY <1>6, <3>3, <3>4 DEF AdminWrites
    <2> QED BY <2>4, <2>5
<1> QED BY <1>2, <1>3, <1>4, <1>5, <1>6 DEF Administration

LEMMA ChainStep ==
    ASSUME TypeOK, Minting, Granting, OneVersion, Current, [Next]_vars
    PROVE  Promise!Next
<1>1. ASSUME NEW c \in Callers, Quiet(c) \/ Acquires(c) \/ Reads(c) \/ Unlocks(c)
      PROVE  Promise!Next
    BY <1>1, OthersInChain
<1>2. ASSUME NEW c \in Callers, Calls(c) PROVE Promise!Next
    BY <1>2, CallsInChain
<1>3. ASSUME NEW c \in Callers, Persists(c) PROVE Promise!Next
    BY <1>3, PersistsInChain
<1>4. CASE Administration
    BY <1>4, AdminInChain
<1>5. CASE Expires
    <2>1. UNCHANGED <<stored, minted, live, admin, at>> /\ mishaps \subseteq mishaps'
        BY <1>5 DEF Expires
    <2>2. Coming' = Coming
        BY <2>1 DEF Coming, Mine, Theirs, InFlight
    <2> QED BY <2>1, <2>2, StaysInChain
<1> QED BY <1>1, <1>2, <1>3, <1>4, <1>5, Steps

\* KeepsPromise, whoever refreshes and whatever fails: the row goes from a pair to the one
\* that was granted for it; while nothing went wrong only the row's pair is spent; a grant
\* the row waits for is stored, or its loss has one of four names; and no pair comes back
\* unless an edit wrote an old row. (oauth_refresh_api.go:70-353, admin_service.go:2779)
THEOREM PromiseKept == Spec => KeepsPromise
<1>1. Init => Promise!Init
    BY ChainInit
<1>2. IInv /\ DInv /\ [Next]_vars => [Promise!Next]_(Promise!vars)
    BY ChainStep DEF IInv, DInv
<1> QED BY <1>1, <1>2, Invariance, Descending, PTL DEF Spec, KeepsPromise, Promise!Spec

-----------------------------------------------------------------------------
(* What a chain is good for.                                               *)

\* Nothing was granted for a pair that is still to be stored; at most one grant replaces
\* whatever the row holds, and the provider accepts it.
Links ==
    /\ \A g \in Coming : g.pair \in 1 .. minted /\ g.from \in 0 .. minted
    /\ \A g, h \in Coming : h.from # g.pair
    /\ \A g, h \in Coming : g.from = 0 /\ h.from = 0 => g = h
    /\ \A g \in Coming : g.from = 0 => g.pair \in live

\* The row's pair is accepted or has a successor on its way, and the successor is accepted
\* unless the administrator's will replace either.
Follows ==
    Unspoiled =>
        /\ \A g \in Coming : g.from = stored.pair => g.pair \in live \/ Promise!Administered
        /\ stored.pair \in live \/ Promise!Administered \/ \E g \in Coming : g.from = stored.pair

ChainInv == minted \in Nat /\ stored.pair \in 1 .. minted /\ live \subseteq 1 .. minted /\ Links /\ Follows

LEMMA ChainStarts == Promise!Init => ChainInv
<1> SUFFICES ASSUME Promise!Init PROVE ChainInv
    OBVIOUS
<1>1. stored.pair = 1 /\ live = {1} /\ minted = 1 /\ Coming = {}
    BY DEF Promise!Init
<1> QED BY <1>1 DEF ChainInv, Links, Follows

Link(n, p) == [pair |-> n, from |-> p]

LEMMA LinkParts == \A n, p : Link(n, p).pair = n /\ Link(n, p).from = p
BY DEF Link

\* A grant for a pair that is not to be stored is one more link.
LEMMA OneLinkMore ==
    ASSUME ChainInv, NEW p \in 1 .. minted, \A g \in Coming : g.pair # p,
           minted' = minted + 1, live \ {p} \subseteq live',
           \A g \in Coming' : g \in Coming \/ (g.pair = minted + 1 /\ g.from = p)
    PROVE  Links'
<1> USE DEF ChainInv, Links
<1>1. \A g \in Coming' : g.pair \in 1 .. minted' /\ g.from \in 0 .. minted'
    OBVIOUS
<1>2. ASSUME NEW g \in Coming', NEW h \in Coming' PROVE h.from # g.pair
    <2>1. CASE g \in Coming /\ h \in Coming BY <2>1
    <2>2. CASE g \in Coming /\ h \notin Coming BY <2>2
    <2>3. CASE g \notin Coming
        <3>1. g.pair = minted + 1 BY <2>3
        <3>2. h.from <= minted BY <1>1
        <3> QED BY <3>1, <3>2
    <2> QED BY <2>1, <2>2, <2>3
<1>3. \A g \in Coming' : g.from = 0 => g \in Coming
    OBVIOUS
<1> QED BY <1>1, <1>2, <1>3

\* So is one that will replace whatever the row holds, of which there is one at a time.
LEMMA OneReplacement ==
    ASSUME ChainInv, ~Promise!Administered, minted' = minted + 1, minted + 1 \in live',
           Coming' = Coming \cup {Link(minted + 1, 0)}
    PROVE  Links'
<1> DEFINE new == Link(minted + 1, 0)
<1> USE DEF ChainInv, Links
<1>0. /\ new.pair = minted + 1 /\ new.from = 0 /\ \A g \in Coming : g.from # 0
      /\ \A g \in Coming' : g \in Coming \/ g = new
    BY LinkParts DEF Promise!Administered
<1> HIDE DEF new
<1>1. \A g \in Coming' : g.pair \in 1 .. minted' /\ g.from \in 0 .. minted'
    BY <1>0
<1>2. ASSUME NEW g \in Coming', NEW h \in Coming' PROVE h.from # g.pair
    <2>1. CASE g \in Coming /\ h \in Coming BY <2>1
    <2>2. CASE h \notin Coming BY <1>0, <1>1, <2>2
    <2>3. CASE h \in Coming /\ g \notin Coming BY <1>0, <2>3
    <2> QED BY <2>1, <2>2, <2>3
<1>3. \A g \in Coming' : g.from = 0 => g = new
    BY <1>0
<1>4. new.pair \in live'
    BY <1>0
<1> QED BY <1>1, <1>2, <1>3, <1>4

\* A step of the chain keeps the links, whatever goes wrong.
LEMMA ChainLinks == ChainInv /\ [Promise!Next]_(Promise!vars) => ChainInv'
<1> SUFFICES ASSUME ChainInv, [Promise!Next]_(Promise!vars) PROVE ChainInv'
    OBVIOUS
<1> USE DEF ChainInv
<1>1. CASE UNCHANGED Promise!vars
    <2>1. /\ stored'.pair = stored.pair /\ live' = live /\ minted' = minted /\ Coming' = Coming
          /\ Unspoiled' <=> Unspoiled
        BY <1>1 DEF Promise!vars, Unspoiled
    <2> QED BY <2>1 DEF Links, Follows, Promise!Administered
<1>2. Promise!Next => (Unspoiled' => Unspoiled)
    BY DEF Promise!Next, Unspoiled
<1>3. CASE Promise!Next /\ Promise!Grant
    <2>1. PICK p \in live \ Promise!Pairs(Coming) :
              /\ minted' = minted + 1 /\ live' = (live \ {p}) \cup {minted + 1}
              /\ stored'.pair = stored.pair
              /\ \/ Coming' = Coming \cup {Link(minted + 1, p)}
                 \/ /\ p = stored.pair /\ ~Promise!Administered
                    /\ Coming' = Coming \cup {Link(minted + 1, 0)}
                 \/ ~Unspoiled' /\ Coming' = Coming
        BY <1>3 DEF Promise!Grant, Promise!New, Unspoiled, Link
    <2>2. p \in 1 .. minted /\ \A g \in Coming : g.pair # p
        BY <2>1 DEF Promise!Pairs
    <2>3. CASE Coming' = Coming \cup {Link(minted + 1, p)}
        <3>a. Link(minted + 1, p).pair = minted + 1 /\ Link(minted + 1, p).from = p BY LinkParts
        <3>b. \A g \in Coming' : g \in Coming \/ g = Link(minted + 1, p) BY <2>3
        <3>0. \A g \in Coming' : g \in Coming \/ (g.pair = minted + 1 /\ g.from = p) BY <3>a, <3>b
        <3>1. Links' BY <2>1, <2>2, <3>0, OneLinkMore
        <3>2. Follows' BY <1>2, <1>3, <2>1, <2>2, <2>3, LinkParts DEF Follows, Links, Promise!Administered
        <3> QED BY <2>1, <2>2, <3>1, <3>2
    <2>4. CASE /\ p = stored.pair /\ ~Promise!Administered
               /\ Coming' = Coming \cup {Link(minted + 1, 0)}
        <3>1. Links' BY <2>1, <2>4, OneReplacement
        <3>2. Promise!Administered' BY <2>4, LinkParts DEF Promise!Administered
        <3> QED BY <2>1, <2>2, <3>1, <3>2 DEF Follows
    <2>5. CASE ~Unspoiled' /\ Coming' = Coming
        <3>1. Links' BY <2>1, <2>2, <2>5 DEF Links
        <3> QED BY <2>1, <2>2, <2>5, <3>1 DEF Follows
    <2> QED BY <2>1, <2>3, <2>4, <2>5
<1>4. CASE Promise!Authorize
    <2>1. /\ ~Promise!Administered /\ minted' = minted + 1 /\ live' \in {{minted + 1}, live \cup {minted + 1}}
          /\ Coming' = Coming \cup {Link(minted + 1, 0)} /\ stored'.pair = stored.pair
        BY <1>4 DEF Promise!Authorize, Promise!New, Link
    <2>2. Links' BY <2>1, OneReplacement
    <2>3. Promise!Administered' BY <2>1, LinkParts DEF Promise!Administered
    <2> QED BY <2>1, <2>2, <2>3 DEF Follows
<1>5. CASE Promise!Next /\ Promise!Store
    <2>1. PICK g \in Coming : /\ g.from \in {0, stored.pair} \/ ~Unspoiled'
                              /\ stored'.pair = g.pair /\ Coming' = Coming \ {g}
                              /\ live' = live /\ minted' = minted
        BY <1>5 DEF Promise!Store, Unspoiled
    <2>2. Links' BY <2>1 DEF Links
    <2>3. Follows'
        <3> SUFFICES ASSUME Unspoiled' PROVE Follows'
            BY DEF Follows
        <3>1. Unspoiled /\ g.from \in {0, stored.pair} BY <1>2, <1>5, <2>1
        <3>2. \A h \in Coming' : h.from # stored'.pair BY <2>1 DEF Links
        <3>3. CASE g.from = 0
            BY <2>1, <3>2, <3>3 DEF Follows, Links
        <3>4. CASE g.from = stored.pair
            <4>1. g.pair \in live \/ Promise!Administered BY <3>1, <3>4 DEF Follows
            <4>2. g.from # 0 BY <3>4
            <4>3. Promise!Administered => Promise!Administered' BY <2>1, <4>2 DEF Promise!Administered
            <4> QED BY <2>1, <3>2, <4>1, <4>3 DEF Follows
        <3> QED BY <3>1, <3>3, <3>4
    <2> QED BY <2>1, <2>2, <2>3 DEF Links
<1>6. CASE Promise!Next /\ Promise!Drop
    <2>1. PICK g \in Coming : /\ g.from \notin {0, stored.pair} \/ ~Unspoiled'
                              /\ stored'.pair = stored.pair /\ Coming' = Coming \ {g}
                              /\ live' = live /\ minted' = minted
        BY <1>6 DEF Promise!Drop, Unspoiled
    <2>2. Links' BY <2>1 DEF Links
    <2>3. Follows' BY <1>2, <1>6, <2>1 DEF Follows, Promise!Administered
    <2> QED BY <2>1, <2>2, <2>3
<1>7. CASE Promise!Overwrite
    <2>1. /\ ~Unspoiled' /\ stored'.pair \in 1 .. minted
          /\ live' = live /\ minted' = minted /\ Coming' = Coming
        BY <1>7 DEF Promise!Overwrite, Unspoiled
    <2> QED BY <2>1 DEF Links, Follows
<1>8. CASE Promise!Next /\ Promise!Trouble
    <2>1. stored'.pair = stored.pair /\ live' = live /\ minted' = minted /\ Coming' = Coming
        BY <1>8 DEF Promise!Trouble
    <2> QED BY <1>2, <1>8, <2>1 DEF Links, Follows, Promise!Administered
<1> QED BY <1>1, <1>3, <1>4, <1>5, <1>6, <1>7, <1>8 DEF Promise!Next

\* TokenChain is enough: whatever implements it leaves in the row a pair the provider accepts,
\* or has on its way to the row the one that was granted for it, unless a grant was lost or
\* overwritten.
THEOREM ChainsStayAlive == KeepsPromise => []Promise!RowIsAlive
<1>1. ChainInv => Promise!RowIsAlive
    <2> SUFFICES ASSUME ChainInv, Unspoiled
                 PROVE  stored.pair \in live \/ \E g \in Coming : g.from \in {0, stored.pair} /\ g.pair \in live
        BY DEF Promise!RowIsAlive, Unspoiled
    <2>1. Promise!Administered => \E g \in Coming : g.from = 0 /\ g.pair \in live
        BY DEF Promise!Administered, ChainInv, Links
    <2> QED BY <2>1 DEF ChainInv, Follows
<1> QED BY <1>1, ChainStarts, ChainLinks, PTL DEF KeepsPromise, Promise!Spec

=============================================================================
