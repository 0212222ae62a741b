---------------------------- MODULE TokenRefresh ----------------------------
(***************************************************************************)
(* The OAuth credentials of one upstream account, whose refresh tokens the *)
(* provider accepts once: OAuthRefreshAPI.RefreshIfNeeded                  *)
(* (service/oauth_refresh_api.go), called by the background refresh        *)
(* (token_refresh_service.go) and by requests (the token providers), and   *)
(* the administrator's edits of the same row (admin_account.go).           *)
(*                                                                         *)
(* A pair of tokens is the number of its minting.  The row holds a pair    *)
(* and the version of the last refresh stored; the cache in Redis holds an *)
(* access token.  What an account does beside that (cooldowns, proxies,    *)
(* scheduling) is left out.                                                *)
(*                                                                         *)
(* Calls may fail, also after they were carried out; faults counts these.  *)
(* mishaps remembers what the code has no answer to, at the step that      *)
(* does it.                                                                *)
(***************************************************************************)
EXTENDS Integers

CONSTANTS
    Background,  \* refresh workers
    Requests,    \* requests that need the access token
    Home,        \* the process of each
    NoCaller,    \* the refresh lock's key is absent
    MaxMints,    \* bound on the pairs minted; the provider fails from then on
    MaxAsked,    \* bound on the administrator's requests
    MaxFaults    \* bound on failing calls and crashes

Callers == Background \cup Requests

ASSUME CallersAssumption == Background \cap Requests = {} /\ NoCaller \notin Callers
ASSUME BoundsAssumption == MaxMints \in Nat \ {0} /\ MaxAsked \in Nat /\ MaxFaults \in Nat

VARIABLES
    platform,  \* of the account
    stored,    \* the row's pair and _token_version
    status,    \* the row's status
    minted, live,  \* the provider's: pairs so far, and those it still accepts
    due,       \* the pairs that are about to expire
    lock,      \* the refresh lock, and who set it
    cached,    \* the access token in Redis; 0 if none
    at,        \* where each caller is, and what it has in hand
    holds,     \* callers that will release the lock
    admin,     \* the administrator's request
    asked,     \* how many there were
    faults, mishaps

row == <<stored, status>>
provider == <<minted, live>>
vars == <<platform, row, provider, due, lock, cached, at, holds, admin, asked, faults, mishaps>>

Pairs == 1 .. MaxMints
Credentials == [pair : Pairs, version : 0 .. MaxMints]
Inside == {"read", "call", "recover", "persist", "purge", "unlock"}
Places == Inside \cup {"idle", "lookup", "lock", "wait", "deny", "sync", "check", "cache"}
After == {"idle", "lock", "deny", "sync", "check"}
Mishaps == {"lost", "overlap", "revoked", "overwritten", "stuck", "stale"}

\* acct is the account the caller was given or is given back, fresh the one RefreshIfNeeded
\* read, got the pair it was granted, next where the caller goes from there.
Caller == [pc : Places, next : After, acct : Credentials, fresh : Credentials, got : Pairs]

TypeOK ==
    /\ platform \in {"grok", "other"}
    /\ stored \in Credentials /\ status \in {"active", "error"}
    /\ minted \in Pairs /\ live \subseteq Pairs /\ due \in 0 .. MaxMints
    /\ lock \in Callers \cup {NoCaller} /\ cached \in {0} \cup Pairs
    /\ at \in [Callers -> Caller] /\ holds \subseteq Callers
    /\ admin \in [at : {"idle", "read", "write", "clear", "purge"}, doing : {"edit", "refresh", "reauth"},
                  creds : Credentials, status : {"active", "error"}, seen : Credentials]
    /\ asked \in 0 .. MaxAsked /\ faults \in 0 .. MaxFaults /\ mishaps \subseteq Mishaps

First == [pair |-> 1, version |-> 0]
NoRequest == [at |-> "idle", doing |-> "edit", creds |-> First, status |-> "active", seen |-> First]
Idle == [pc |-> "idle", next |-> "idle", acct |-> First, fresh |-> First, got |-> 1]

Init ==
    /\ platform \in {"grok", "other"}
    /\ stored = First /\ status = "active"
    /\ minted = 1 /\ live = {1} /\ due = 0
    /\ lock = NoCaller /\ cached = 0
    /\ at = [c \in Callers |-> Idle] /\ holds = {}
    /\ admin = NoRequest
    /\ asked = 0 /\ faults = 0 /\ mishaps = {}

In(c, place) == at[c].pc = place
Hold(c, what) == at' = [at EXCEPT ![c] = what]
Go(c, place) == Hold(c, IF place = "idle" THEN Idle ELSE [at[c] EXCEPT !.pc = place])
\* RefreshIfNeeded returns: its lock is released, and the caller goes on with an account.
Leave(c, place, account) ==
    Hold(c, IF place = "idle" THEN [Idle EXCEPT !.pc = "unlock"]
            ELSE [Idle EXCEPT !.pc = "unlock", !.next = place, !.acct = account])

CallFails == faults < MaxFaults /\ faults' = faults + 1
Note(causes) == mishaps' = mishaps \cup causes
IfSo(condition, cause) == IF condition THEN {cause} ELSE {}

IsDue(creds) == creds.pair <= due
NextPair == minted + 1

-----------------------------------------------------------------------------
(* A caller comes with the account as it read it.                          *)

\* A page of candidates, or a request's account.  A background attempt that is made
\* again reads everything again, and is a new one here.
Begin(c) ==
    /\ In(c, "idle")
    /\ \/ /\ c \in Background /\ status = "active" /\ IsDue(stored)
          /\ Hold(c, [Idle EXCEPT !.pc = "lock", !.acct = stored])
       \/ c \in Requests /\ Hold(c, [Idle EXCEPT !.pc = "lookup", !.acct = stored])
    /\ UNCHANGED <<platform, row, provider, due, lock, cached, holds, admin, faults, mishaps, asked>>

\* GetAccessToken: Grok serves a cached token only if it is the account's.
Lookup(c) ==
    /\ In(c, "lookup")
    /\ LET mine == at[c].acct
           hit == cached # 0 /\ (platform = "grok" => cached = mine.pair /\ ~IsDue(mine))
       IN \/ hit /\ Go(c, "idle") /\ UNCHANGED faults
          \/ /\ (~hit /\ UNCHANGED faults) \/ CallFails
             /\ Go(c, IF IsDue(mine) THEN "lock" ELSE "check")
    /\ UNCHANGED <<platform, row, provider, due, lock, cached, holds, admin, mishaps, asked>>

AlwaysSet(c) == lock' = c  \* mutant: SET without NX
SetNX(c) == lock = NoCaller /\ lock' = c

LocalLockIsFree(c) == \A d \in Callers : d # c /\ Home[d] = Home[c] => at[d].pc \notin Inside

\* The local mutex and the lock in Redis; when Redis fails the refresh goes on without.
Acquire(c) ==
    /\ In(c, "lock") /\ LocalLockIsFree(c)
    /\ \/ /\ SetNX(c) /\ holds' = holds \cup {c}
          /\ Go(c, "read") /\ UNCHANGED <<faults, mishaps>>
       \/ /\ lock # NoCaller /\ Go(c, IF c \in Background THEN "idle" ELSE "wait")
          /\ UNCHANGED <<lock, holds, faults, mishaps>>
       \/ /\ CallFails /\ (SetNX(c) \/ UNCHANGED lock)
          /\ Go(c, "read") /\ Note({"overlap"}) /\ UNCHANGED holds
    /\ UNCHANGED <<platform, row, provider, due, cached, admin, asked>>

\* LockHeld: wait for the holder's token, in the cache or (Grok) in the row.  Grok's
\* waiter writes the row's token, as it read it, over another that it had seen in the
\* cache before; whether it had is left open.
Wait(c) ==
    /\ In(c, "wait")
    /\ \/ platform = "other" /\ cached # 0 /\ Go(c, "idle")
       \/ platform = "other" /\ Go(c, "check")
       \/ platform = "grok" /\ Go(c, "idle")
       \/ /\ platform = "grok" /\ stored # at[c].acct /\ status = "active"
          /\ Hold(c, [at[c] EXCEPT !.pc = "cache", !.acct = stored])
    /\ UNCHANGED <<platform, row, provider, due, lock, cached, holds, admin, faults, mishaps, asked>>

-----------------------------------------------------------------------------
(* RefreshIfNeeded, under its locks.                                       *)

\* With an error a request goes on with the token it has (not for Grok).
AfterError(c) == IF c \in Requests /\ platform = "other" THEN "check" ELSE "idle"
StartsOver(c) == "lookup"  \* mutant: the caller asks for the token once more
\* With an account that needs no refresh.
AfterNone(c) ==
    IF c \in Requests /\ (platform = "grok" => status = "active") THEN "check" ELSE "idle"
AfterSuccess(c) == IF c \in Background THEN "sync" ELSE AfterNone(c)

\* The row is read again: it may have been refreshed since, or be in error.
Read(c) ==
    /\ In(c, "read")
    /\ \/ /\ status = "active" /\ IsDue(stored)
          /\ Hold(c, [at[c] EXCEPT !.pc = "call", !.fresh = stored]) /\ UNCHANGED faults
       \/ /\ ~(status = "active" /\ IsDue(stored))
          /\ Leave(c, AfterNone(c), stored) /\ UNCHANGED faults
       \/ CallFails /\ Leave(c, AfterError(c), at[c].acct)
    /\ UNCHANGED <<platform, row, provider, due, lock, cached, holds, admin, mishaps, asked>>

\* The provider takes a refresh token once.  What it grants is lost when the answer is,
\* or comes after the attempt's deadline.
Call(c) ==
    /\ In(c, "call")
    /\ LET used == at[c].fresh.pair
       IN \/ /\ used \in live /\ minted < MaxMints
             /\ minted' = NextPair /\ live' = (live \ {used}) \cup {NextPair}
             /\ \/ /\ Hold(c, [at[c] EXCEPT !.pc = "persist", !.got = NextPair])
                   /\ UNCHANGED <<faults, mishaps>>
                \/ CallFails /\ Note({"lost"}) /\ Leave(c, AfterError(c), at[c].acct)
          \/ /\ used \notin live /\ Go(c, "recover") /\ UNCHANGED <<provider, faults>>
             /\ Note(IfSo(admin.at \in {"read", "write"} /\ admin.doing = "refresh", "overlap")
                     \cup IfSo(admin.at \in {"read", "write"} /\ admin.doing = "reauth", "revoked"))
          \/ /\ (minted = MaxMints /\ UNCHANGED faults) \/ CallFails
             /\ Leave(c, AfterError(c), at[c].acct) /\ UNCHANGED <<provider, mishaps>>
    /\ UNCHANGED <<platform, row, due, lock, cached, holds, admin, asked>>

RaceWasLost(c) == stored.pair # at[c].fresh.pair

\* tryRecoverFromRefreshRace: an invalid_grant is forgiven if the row moved on.
Recover(c) ==
    /\ In(c, "recover")
    /\ \/ RaceWasLost(c) /\ Leave(c, AfterNone(c), stored) /\ UNCHANGED faults
       \/ /\ (~RaceWasLost(c) /\ UNCHANGED faults) \/ CallFails
          /\ IF c \in Background THEN Leave(c, "deny", at[c].fresh)
             ELSE Leave(c, AfterError(c), at[c].acct)
    /\ UNCHANGED <<platform, row, provider, due, lock, cached, holds, admin, mishaps, asked>>

StoredAnyway(c) == TRUE  \* mutant: Grok's credentials are stored unconditionally, too
MayStore(c) == platform = "grok" => stored = at[c].fresh

\* Mutant: the credentials are merged the wrong way round, the spent token over the new one.
Unrotated(c) == [pair |-> at[c].fresh.pair, version |-> at[c].got]

\* The version is a time stamp made as the grant arrives.
Renewed(c) == [pair |-> at[c].got, version |-> at[c].got]

\* persistAccountCredentials, and UpdateGrokOAuthCredentialsIfUnchanged.
Persist(c) ==
    /\ In(c, "persist")
    /\ \/ /\ MayStore(c) /\ stored' = Renewed(c)
          /\ LET causes == IfSo(platform = "other" /\ stored # at[c].fresh, "overwritten")
                           \cup IfSo(\E r \in Requests : In(r, "cache"), "stale")
             IN \/ /\ Note(causes) /\ UNCHANGED faults
                   /\ IF platform = "grok" THEN Hold(c, [at[c] EXCEPT !.pc = "purge", !.acct = Renewed(c)])
                      ELSE Leave(c, AfterSuccess(c), Renewed(c))
                \/ CallFails /\ Note(causes \cup {"stale"}) /\ Leave(c, AfterError(c), at[c].acct)
       \/ ~MayStore(c) /\ Leave(c, AfterNone(c), stored) /\ UNCHANGED <<stored, faults, mishaps>>
       \/ CallFails /\ Note({"lost"}) /\ Leave(c, AfterError(c), at[c].acct) /\ UNCHANGED stored
    /\ UNCHANGED <<platform, status, provider, due, lock, cached, holds, admin, asked>>

\* loadGrokDurableAccountAfterPersist: the cached token is deleted, and the row read again.
Purge(c) ==
    /\ In(c, "purge")
    /\ \/ cached' = 0 /\ UNCHANGED <<faults, mishaps>> /\ Leave(c, AfterSuccess(c), stored)
       \/ /\ CallFails
          /\ (cached' = 0 /\ UNCHANGED mishaps) \/ (UNCHANGED cached /\ Note({"stale"}))
          /\ \E place \in {AfterSuccess(c), AfterError(c)} : Leave(c, place, stored)
    /\ UNCHANGED <<platform, row, provider, due, lock, holds, admin, asked>>

\* ReleaseRefreshLock deletes the key, whoever set it.
Unlock(c) ==
    /\ In(c, "unlock") /\ holds' = holds \ {c}
    /\ Hold(c, [at[c] EXCEPT !.pc = at[c].next, !.next = "idle"])
    /\ \/ lock' = (IF c \in holds THEN NoCaller ELSE lock) /\ UNCHANGED faults
       \/ CallFails /\ UNCHANGED lock
    /\ UNCHANGED <<platform, row, provider, due, cached, admin, mishaps, asked>>

-----------------------------------------------------------------------------
(* What the callers do next.                                               *)

DeniedAnyway(c) == TRUE  \* mutant: no look at the credentials that failed
MayDeny(c) == platform = "grok" => stored = at[c].acct /\ status = "active"

\* A refresh token that was refused puts the account in error; only Grok's statement
\* looks whether the row still holds it.
Deny(c) ==
    /\ In(c, "deny") /\ Go(c, "idle")
    /\ \/ /\ MayDeny(c) /\ status' = "error"
          /\ Note(IfSo(platform = "other" /\ stored # at[c].acct, "stuck"))
          /\ \/ cached' = 0 /\ UNCHANGED faults
             \/ CallFails /\ UNCHANGED cached
       \/ /\ (~MayDeny(c) /\ UNCHANGED faults) \/ CallFails
          /\ UNCHANGED <<status, cached, mishaps>>
    /\ UNCHANGED <<platform, stored, provider, due, lock, holds, admin, asked>>

NotInvalidated == cached  \* mutant: the old token stays in the cache
Invalidated == 0

\* postRefreshStateSync.
Sync(c) ==
    /\ In(c, "sync") /\ Go(c, "idle")
    /\ \/ cached' = Invalidated /\ UNCHANGED <<faults, mishaps>>
       \/ CallFails /\ Note({"stale"}) /\ UNCHANGED cached
    /\ UNCHANGED <<platform, row, provider, due, lock, holds, admin, asked>>

VersionIsStale(c) == stored.version > at[c].acct.version

\* CheckTokenVersion: a request with an old account does not write the cache.
Check(c) ==
    /\ In(c, "check")
    /\ \/ VersionIsStale(c) /\ Go(c, "idle") /\ UNCHANGED <<faults, mishaps>>
       \/ ~VersionIsStale(c) /\ Go(c, "cache") /\ UNCHANGED <<faults, mishaps>>
       \/ CallFails /\ Go(c, "cache") /\ Note(IfSo(VersionIsStale(c), "stale"))
    /\ UNCHANGED <<platform, row, provider, due, lock, cached, holds, admin, asked>>

Cache(c) ==
    /\ In(c, "cache") /\ Go(c, "idle")
    /\ \/ cached' = at[c].acct.pair /\ UNCHANGED <<faults, mishaps>>
       \/ CallFails /\ Note({"stale"}) /\ UNCHANGED cached
    /\ UNCHANGED <<platform, row, provider, due, lock, holds, admin, asked>>

\* The process dies.
Crash(c) ==
    /\ ~In(c, "idle") /\ CallFails /\ Go(c, "idle")
    /\ holds' = holds \ {c}
    /\ Note(IfSo(In(c, "persist"), "lost")
            \cup IfSo({at[c].pc, at[c].next} \cap {"purge", "sync", "check", "cache"} # {}, "stale"))
    /\ UNCHANGED <<platform, row, provider, due, lock, cached, admin, asked>>

-----------------------------------------------------------------------------
(* The administrator's requests, none of which takes the lock.             *)

Asks == admin.at = "idle" /\ asked < MaxAsked /\ asked' = asked + 1

\* UpdateAccount writes back the row it read, tokens and status included.
EditReads ==
    /\ Asks
    /\ admin' = [at |-> "write", doing |-> "edit", creds |-> stored, status |-> status, seen |-> stored]
    /\ UNCHANGED <<platform, row, provider, due, lock, cached, at, holds, faults, mishaps>>

\* refreshSingleAccount: the stored token is spent at the provider.
ManualRefresh ==
    /\ Asks /\ stored.pair \in live /\ minted < MaxMints
    /\ minted' = NextPair /\ live' = (live \ {stored.pair}) \cup {NextPair}
    /\ admin' = [admin EXCEPT !.at = "read", !.doing = "refresh",
                              !.creds = [pair |-> NextPair, version |-> stored.version]]
    /\ UNCHANGED <<platform, row, due, lock, cached, at, holds, faults, mishaps>>

\* A new authorization, which may revoke the ones before; it keeps the version.
Reauthorize ==
    /\ Asks /\ minted < MaxMints
    /\ minted' = NextPair /\ live' \in {{NextPair}, live \cup {NextPair}}
    /\ admin' = [admin EXCEPT !.at = "read", !.doing = "reauth",
                              !.creds = [pair |-> NextPair, version |-> stored.version]]
    /\ UNCHANGED <<platform, row, due, lock, cached, at, holds, faults, mishaps>>

AdminReads ==
    /\ admin.at = "read"
    /\ admin' = [admin EXCEPT !.at = "write", !.status = status, !.seen = stored]
    /\ UNCHANGED <<platform, row, provider, due, lock, cached, at, holds, faults, mishaps, asked>>

AdminWrites ==
    /\ admin.at = "write"
    /\ \/ /\ stored' = admin.creds /\ status' = admin.status
          /\ admin' = CASE admin.doing = "edit" -> NoRequest
                         [] admin.doing = "refresh" -> [NoRequest EXCEPT !.at = "purge"]
                         [] admin.doing = "reauth" -> [NoRequest EXCEPT !.at = "clear"]
          /\ LET called == \E c \in Callers : In(c, "call")
             IN Note(IfSo(stored # admin.seen \/ status # admin.status, "overwritten")
                     \cup IfSo(admin.doing = "refresh" /\ called, "overlap")
                     \cup IfSo(admin.doing = "reauth" /\ called, "revoked")
                     \cup IfSo(admin.doing # "edit" /\ \E r \in Requests : ~In(r, "idle"), "stale"))
          /\ UNCHANGED faults
       \/ /\ CallFails /\ admin' = NoRequest
          /\ Note(IfSo(admin.doing # "edit", "lost"))
          /\ UNCHANGED row
    /\ UNCHANGED <<platform, provider, due, lock, cached, at, holds, asked>>

AdminClears ==
    /\ admin.at = "clear" /\ admin' = [admin EXCEPT !.at = "purge"]
    /\ \/ status' = "active" /\ UNCHANGED <<faults, mishaps>>
       \/ CallFails /\ Note({"stuck"}) /\ UNCHANGED status
    /\ UNCHANGED <<platform, stored, provider, due, lock, cached, at, holds, asked>>

AdminPurges ==
    /\ admin.at = "purge" /\ admin' = NoRequest
    /\ \/ cached' = 0 /\ UNCHANGED <<faults, mishaps>>
       \/ CallFails /\ Note({"stale"}) /\ UNCHANGED cached
    /\ UNCHANGED <<platform, row, provider, due, lock, at, holds, asked>>

-----------------------------------------------------------------------------
(* Time.                                                                   *)

\* The lock of a caller that is gone expires.  A refresh is cut off before its lock is,
\* but for requests of platforms other than Grok, which have no deadline.
LockExpires ==
    /\ lock # NoCaller /\ lock' = NoCaller
    /\ \/ lock \notin holds /\ UNCHANGED mishaps
       \/ platform = "other" /\ lock \in holds \cap Requests /\ Note({"overlap"})
    /\ UNCHANGED <<platform, row, provider, due, cached, at, holds, admin, faults, asked>>

TokenAges ==
    /\ ~IsDue(stored) /\ due' = stored.pair
    /\ UNCHANGED <<platform, row, provider, lock, cached, at, holds, admin, faults, mishaps, asked>>

CacheExpires ==
    /\ cached # 0 /\ cached' = 0
    /\ UNCHANGED <<platform, row, provider, due, lock, at, holds, admin, faults, mishaps, asked>>

-----------------------------------------------------------------------------

Refresh(c) ==
    \/ Wait(c) \/ Read(c) \/ Call(c) \/ Recover(c) \/ Persist(c) \/ Purge(c) \/ Unlock(c)
    \/ Deny(c) \/ Sync(c) \/ Lookup(c) \/ Check(c) \/ Cache(c)

Administration == EditReads \/ ManualRefresh \/ Reauthorize \/ AdminReads \/ AdminWrites
                  \/ AdminClears \/ AdminPurges

Next ==
    \/ \E c \in Callers : Begin(c) \/ Acquire(c) \/ Refresh(c) \/ Crash(c)
    \/ Administration \/ LockExpires \/ TokenAges \/ CacheExpires

Spec == Init /\ [][Next]_vars

-----------------------------------------------------------------------------
(* Properties.                                                             *)

\* Nobody presents a refresh token that was spent, unless its successor was lost or
\* overwritten, or someone refreshed without the lock.
SpentOnce ==
    \A c \in Callers : In(c, "recover") =>
        mishaps \cap {"lost", "overlap", "revoked", "overwritten"} # {}

\* The row holds a token the provider accepts, unless its successor is on its way.
StoredIsAlive ==
    \/ stored.pair \in live
    \/ \E c \in Callers : In(c, "persist") /\ at[c].got \in live
    \/ admin.at \in {"read", "write"} /\ admin.creds.pair \in live
    \/ mishaps \cap {"lost", "overwritten"} # {}

\* An account in error is one whose stored refresh token is refused.
ErrorIsDeserved ==
    status = "error" /\ stored.pair \in live =>
        admin.at = "clear" \/ mishaps \cap {"overlap", "stuck", "overwritten"} # {}

\* A refresh was stored, and is about to delete the cached token.
PurgeIsPending ==
    \E c \in Callers : "sync" \in {at[c].pc, at[c].next} \/ In(c, "purge")

\* A cached access token is the row's, unless it is about to be replaced.
CachedIsCurrent ==
    cached \notin {0, stored.pair} =>
        \/ PurgeIsPending
        \/ \E c \in Callers :
              /\ at[c].pc \in {"check", "cache"} \/ at[c].next = "check"
              /\ at[c].acct.pair = stored.pair
        \/ admin.at \in {"clear", "purge"}
        \/ mishaps \cap {"stale", "overwritten"} # {}

\* A manual refresh or reauthorization has a new pair that is not stored yet.
InFlight == admin.at \in {"read", "write"} /\ admin.doing # "edit"

\* The grants under way, to the callers and to the administrator.
Mine(c) == [pair |-> at[c].got, from |-> at[c].fresh.pair]
Theirs == [pair |-> admin.creds.pair, from |-> 0]
Coming == {Mine(c) : c \in {d \in Callers : In(d, "persist")}} \cup {g \in {Theirs} : InFlight}

\* The account's pairs are a chain: whoever refreshes, the row moves from a pair to the one
\* that was granted for it, no grant is lost in silence, and no pair comes back.
Promise == INSTANCE TokenChain
    WITH held <- stored.pair, accepted <- live, coming <- Coming,
         excuses <- mishaps \cap {"lost", "overlap", "revoked", "overwritten"}

KeepsPromise == Promise!Spec

=============================================================================
