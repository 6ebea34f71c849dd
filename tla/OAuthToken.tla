---------------------------- MODULE OAuthToken -----------------------------
(***************************************************************************)
(* The life of one subscription endpoint's OAuth credential: goroutines    *)
(* that take its access token (GetAccessToken), the maintenance sweep that *)
(* refreshes it ahead of time (RefreshIfNeeded), and the handler by which  *)
(* its owner authorizes it anew, over the row in the database, the access  *)
(* token cached in Redis and the refresh lock                              *)
(* (internal/infrastructure/oauthprovider, internal/lock,                  *)
(* internal/application/endpoint/command/oauth_reauth.go).                 *)
(*                                                                         *)
(* A step is what happens between two calls to Redis, the database or the  *)
(* provider: any goroutine, of any instance, may run in between.           *)
(*                                                                         *)
(* Token sets are numbered in the order the provider issues them; number n *)
(* stands for access token n and for refresh token n.  What a caller does  *)
(* with the token is left out, and so are the paths that only return: a    *)
(* cache hit changes nothing.                                              *)
(***************************************************************************)
EXTENDS Integers, FiniteSets

CONSTANTS
    Callers,       \* goroutines in GetAccessToken: requests, quota probes
    Maintainers,   \* goroutines in RefreshIfNeeded: the cron sweep
    Authorizers,   \* goroutines in the reauthorization handler
    NoHolder,      \* the refresh lock is free
    Rotations,     \* may the provider rotate (TRUE) or keep (FALSE) a refresh token
    MaxToken,      \* bound: token sets the provider issues
    MaxFaults      \* bound: crashes, failed calls, lost replies, revocations

Refreshers == Callers \union Maintainers
Procs      == Refreshers \union Authorizers
Token      == 1 .. MaxToken
NoToken    == 0

ASSUME OAuthAssumption ==
    /\ Refreshers \intersect Authorizers = {}
    /\ NoHolder \notin Procs
    /\ Rotations \subseteq BOOLEAN
    /\ MaxToken \in Nat \ {0}
    /\ MaxFaults \in Nat

VARIABLES
    db,        \* the credential row: [access, refresh, active]
    cache,     \* the access token in Redis
    lock,      \* who set the refresh lock's key
    pc,
    cred,      \* the aggregate each goroutine works on
    issued,    \* how many token sets the provider has issued
    life,      \* what is left of each access token, a Life
    family,    \* the first token set of each token set's authorization
    live,      \* refresh tokens the provider accepts
    faults,
    lost       \* history: a token set or an authorization was lost on the way

local    == <<pc, cred>>
provider == <<issued, family, live>>
vars     == <<db, cache, lock, local, provider, life, faults, lost>>

\* Remaining life, in the classes the code tells apart: over 30 minutes, over
\* 3 minutes, over 60 seconds, under 60 seconds, expired.
Life            == 0 .. 4
ProactiveMargin == 4
RefreshMargin   == 3
CacheMargin     == 2

Credential == [access : Token, refresh : Token, active : BOOLEAN]

Locked == {"reread", "refresh", "save", "evict", "saveReauth", "cache", "unlock"}
Labels == Locked \union {"idle", "find", "sweep", "put", "lock",
                         "reauthSave", "reauthEvict"}

Init ==
    /\ db = [access |-> 1, refresh |-> 1, active |-> TRUE]
    /\ cache = NoToken
    /\ lock = NoHolder
    /\ pc = [p \in Procs |-> "idle"]
    /\ cred = [p \in Procs |-> db]
    /\ issued = 1
    /\ life = [t \in Token |-> 4]
    /\ family = [t \in Token |-> 1]
    /\ live = {1}
    /\ faults = 0
    /\ lost = FALSE

Goto(p, label) == pc' = [pc EXCEPT ![p] = label]
Fault          == faults < MaxFaults /\ faults' = faults + 1
NoFault        == UNCHANGED <<faults, lost>>

\* ApplyTokens keeps the refresh token when the provider sent none.
ApplyTokens(c, access, refresh) ==
    [access |-> access,
     refresh |-> IF refresh = NoToken THEN c.refresh ELSE refresh,
     active |-> TRUE]

MarkReauth(c) == [c EXCEPT !.active = FALSE]

-----------------------------------------------------------------------------
(* GetAccessToken and RefreshIfNeeded, before the lock *)

CacheHit == cache # NoToken /\ life[cache] >= CacheMargin

CacheMiss(p) ==
    /\ p \in Callers /\ pc[p] = "idle"
    /\ ~CacheHit
    /\ Goto(p, "find")
    /\ UNCHANGED <<db, cache, lock, cred, provider, life>> /\ NoFault

StartSweep(p) ==
    /\ p \in Maintainers /\ pc[p] = "idle"
    /\ Goto(p, "sweep")
    /\ UNCHANGED <<db, cache, lock, cred, provider, life>> /\ NoFault

FindByEndpointID(p) ==
    /\ pc[p] = "find"
    /\ cred' = [cred EXCEPT ![p] = db]
    /\ Goto(p, IF ~db.active THEN "idle"
               ELSE IF life[db.access] >= RefreshMargin THEN "put" ELSE "lock")
    /\ UNCHANGED <<db, cache, lock, provider, life>> /\ NoFault

SweepFind(p) ==
    /\ pc[p] = "sweep"
    /\ cred' = [cred EXCEPT ![p] = db]
    /\ Goto(p, IF db.active /\ life[db.access] < ProactiveMargin
               THEN "lock" ELSE "idle")
    /\ UNCHANGED <<db, cache, lock, provider, life>> /\ NoFault

\* cacheAccess: a token with less than the cache's margin left is not stored.
CacheAccess(p, next) ==
    /\ cache' = IF life[cred[p].access] >= CacheMargin THEN cred[p].access ELSE cache
    /\ Goto(p, next)
    /\ UNCHANGED <<db, lock, cred, provider, life>> /\ NoFault

PutUnlocked(p) == pc[p] = "put" /\ CacheAccess(p, "idle")

-----------------------------------------------------------------------------
(* refreshWithLock *)

\* Mutation of TakeLock: no second look at the database under the lock.
TakeLockNoDoubleCheck(p) ==
    /\ pc[p] = "lock" /\ lock = NoHolder
    /\ lock' = p
    /\ Goto(p, "refresh")
    /\ UNCHANGED <<db, cache, cred, provider, life>> /\ NoFault

TakeLock(p) ==
    /\ pc[p] = "lock" /\ lock = NoHolder
    /\ lock' = p
    /\ Goto(p, "reread")
    /\ UNCHANGED <<db, cache, cred, provider, life>> /\ NoFault

\* Another goroutine refreshes: the cache or the old token has to do.
LockTaken(p) ==
    /\ pc[p] = "lock" /\ lock # NoHolder
    /\ Goto(p, "idle")
    /\ UNCHANGED <<db, cache, lock, cred, provider, life>> /\ NoFault

\* Mutation of LockFails: refresh without the lock when Redis is down.
LockFailsOpen(p) ==
    /\ pc[p] = "lock" /\ Fault
    /\ Goto(p, "reread")
    /\ UNCHANGED <<db, cache, lock, cred, provider, life, lost>>

LockFails(p) ==
    /\ pc[p] = "lock" /\ Fault
    /\ Goto(p, "idle")
    /\ UNCHANGED <<db, cache, lock, cred, provider, life, lost>>

\* The double check looks at the life of the token, not at the status.
Reread(p) ==
    /\ pc[p] = "reread"
    /\ cred' = [cred EXCEPT ![p] = db]
    /\ Goto(p, IF life[db.access] >= RefreshMargin THEN "cache" ELSE "refresh")
    /\ UNCHANGED <<db, cache, lock, provider, life>> /\ NoFault

\* The provider issues the next token set of authorization f.
Issue(f, accepted) ==
    /\ issued < MaxToken
    /\ issued' = issued + 1
    /\ family' = [family EXCEPT ![issued + 1] = IF f = NoToken THEN issued + 1 ELSE f]
    /\ live' = accepted

\* What the provider does with refresh token r it accepts.
Rotate(r, rotate) ==
    /\ r \in live
    /\ Issue(family[r], IF rotate THEN (live \ {r}) \union {issued + 1} ELSE live)

RefreshSucceeds(p) ==
    /\ pc[p] = "refresh"
    /\ \E rotate \in Rotations :
          /\ Rotate(cred[p].refresh, rotate)
          /\ cred' = [cred EXCEPT ![p] = ApplyTokens(@, issued + 1,
                                     IF rotate THEN issued + 1 ELSE NoToken)]
    /\ Goto(p, "save")
    /\ UNCHANGED <<db, cache, lock, life>> /\ NoFault

\* The reply is lost or late: the provider has rotated, the program knows nothing.
RefreshReplyLost(p) ==
    /\ pc[p] = "refresh" /\ Fault
    /\ \E rotate \in Rotations : Rotate(cred[p].refresh, rotate)
    /\ lost' = TRUE
    /\ Goto(p, "unlock")
    /\ UNCHANGED <<db, cache, lock, cred, life>>

\* The provider is not reached, or answers 5xx: the credential stays as it is.
\* Past the bound on token sets it always is so.
RefreshFails(p) ==
    /\ pc[p] = "refresh"
    /\ \/ Fault
       \/ issued = MaxToken /\ UNCHANGED faults
    /\ Goto(p, "unlock")
    /\ UNCHANGED <<db, cache, lock, cred, provider, life, lost>>

\* invalid_grant; a provider that rotates then revokes the authorization.
RefreshRefused(p) ==
    /\ pc[p] = "refresh"
    /\ cred[p].refresh \notin live
    /\ live' = {t \in live : family[t] # family[cred[p].refresh]}
    /\ cred' = [cred EXCEPT ![p] = MarkReauth(@)]
    /\ Goto(p, "evict")
    /\ UNCHANGED <<db, cache, lock, issued, family, life>> /\ NoFault

Evict(p) ==
    /\ pc[p] = "evict"
    /\ cache' = NoToken
    /\ Goto(p, "saveReauth")
    /\ UNCHANGED <<db, lock, cred, provider, life>> /\ NoFault

SaveReauth(p) ==
    /\ pc[p] = "saveReauth"
    /\ db' = cred[p]
    /\ Goto(p, "unlock")
    /\ UNCHANGED <<cache, lock, cred, provider, life>> /\ NoFault

SaveTokens(p) ==
    /\ pc[p] = "save"
    /\ db' = cred[p]
    /\ Goto(p, "cache")
    /\ UNCHANGED <<cache, lock, cred, provider, life>> /\ NoFault

\* Mutation of SaveFails: a failed save only degrades, the token is cached.
SaveFailureIgnored(p) ==
    /\ pc[p] = "save" /\ Fault
    /\ lost' = TRUE
    /\ Goto(p, "cache")
    /\ UNCHANGED <<db, cache, lock, cred, provider, life>>

SaveFails(p) ==
    /\ pc[p] = "save" /\ Fault
    /\ lost' = TRUE
    /\ Goto(p, "unlock")
    /\ UNCHANGED <<db, cache, lock, cred, provider, life>>

PutLocked(p) == pc[p] = "cache" /\ CacheAccess(p, "unlock")

\* Unlock deletes the key only while it holds the caller's own value.
Unlock(p) ==
    /\ pc[p] = "unlock"
    /\ lock' = IF lock = p THEN NoHolder ELSE lock
    /\ Goto(p, "idle")
    /\ UNCHANGED <<db, cache, cred, provider, life>> /\ NoFault

-----------------------------------------------------------------------------
(* Calls that fail: an unavailable database or Redis, a cancelled request *)

\* A read of the row, or the save of a refusal, fails.
CallFails(p) ==
    /\ pc[p] \in {"find", "sweep", "reread", "saveReauth"} /\ Fault
    /\ Goto(p, IF pc[p] \in Locked THEN "unlock" ELSE "idle")
    /\ UNCHANGED <<db, cache, lock, cred, provider, life, lost>>

\* Put and Delete on the cache, and the deferred Unlock, ignore their errors.
CallIgnored(p) ==
    /\ pc[p] \in {"put", "cache", "evict", "unlock", "reauthEvict"} /\ Fault
    /\ Goto(p, CASE pc[p] = "cache" -> "unlock"
                 [] pc[p] = "evict" -> "saveReauth"
                 [] OTHER           -> "idle")
    /\ UNCHANGED <<db, cache, lock, cred, provider, life, lost>>

\* The instance dies; a token set not yet saved dies with it.
Crash(p) ==
    /\ pc[p] # "idle" /\ Fault
    /\ lost' = (lost \/ pc[p] = "save")
    /\ Goto(p, "idle")
    /\ UNCHANGED <<db, cache, lock, cred, provider, life>>

-----------------------------------------------------------------------------
(* The reauthorization handler, which does not take the refresh lock *)

ReauthExchange(r) ==
    /\ r \in Authorizers /\ pc[r] = "idle"
    /\ Issue(NoToken, live \union {issued + 1})
    /\ cred' = [cred EXCEPT ![r] = ApplyTokens(db, issued + 1, issued + 1)]
    /\ Goto(r, "reauthSave")
    /\ UNCHANGED <<db, cache, lock, life>> /\ NoFault

\* A failed save ends the handler with an error.
ReauthSave(r) ==
    /\ pc[r] = "reauthSave"
    /\ \/ /\ db' = cred[r]
          /\ Goto(r, "reauthEvict")
          /\ NoFault
       \/ /\ Fault
          /\ Goto(r, "idle")
          /\ UNCHANGED <<db, lost>>
    /\ UNCHANGED <<cache, lock, cred, provider, life>>

ReauthEvict(r) ==
    /\ pc[r] = "reauthEvict"
    /\ cache' = NoToken
    /\ Goto(r, "idle")
    /\ UNCHANGED <<db, lock, cred, provider, life>> /\ NoFault

-----------------------------------------------------------------------------
(* Time and the provider *)

\* Mutation of LockExpires: the key is set without a TTL.
LockNeverExpires ==
    /\ FALSE
    /\ UNCHANGED vars

\* The key's 60 s outlast a refresh and its save, which share a timeout of 15 s:
\* the key expires only when its owner crashed or could not delete it.
LockExpires ==
    /\ lock # NoHolder
    /\ lock \in Procs => pc[lock] \notin Locked
    /\ lock' = NoHolder
    /\ UNCHANGED <<db, cache, local, provider, life>> /\ NoFault

\* Token sets live equally long: an older one never outlives a newer one.
\* Bound: only a token somebody still holds sets the clock.
TimePasses(t) ==
    /\ life[t] > 0
    /\ t \in {db.access, cache} \union {cred[p].access : p \in {q \in Procs : pc[q] # "idle"}}
    /\ life' = [u \in Token |-> IF u <= t /\ life[u] >= life[t] THEN life[t] - 1 ELSE life[u]]
    /\ UNCHANGED <<db, cache, lock, local, provider>> /\ NoFault

\* The owner or the provider withdraws the authorization of token set t.
Revoke(t) ==
    /\ t \in live /\ Fault
    /\ live' = {u \in live : family[u] # family[t]}
    /\ lost' = TRUE
    /\ UNCHANGED <<db, cache, lock, local, issued, family, life>>

Refresh(p) ==
    \/ CacheMiss(p) \/ StartSweep(p) \/ FindByEndpointID(p) \/ SweepFind(p) \/ PutUnlocked(p)
    \/ TakeLock(p) \/ LockTaken(p) \/ Reread(p)
    \/ RefreshSucceeds(p) \/ RefreshRefused(p) \/ Evict(p) \/ SaveReauth(p)
    \/ SaveTokens(p) \/ PutLocked(p) \/ Unlock(p)

Failure(p) ==
    \/ LockFails(p) \/ RefreshFails(p) \/ RefreshReplyLost(p) \/ SaveFails(p)
    \/ CallFails(p) \/ CallIgnored(p) \/ Crash(p)

Reauth(r) == ReauthExchange(r) \/ ReauthSave(r) \/ ReauthEvict(r)

Next ==
    \/ \E p \in Procs : Refresh(p) \/ Failure(p) \/ Reauth(p)
    \/ LockExpires
    \/ \E t \in Token : TimePasses(t) \/ Revoke(t)

Spec == Init /\ [][Next]_vars

\* Goroutines keep running, requests and sweeps keep coming, keys expire.
Fairness ==
    /\ \A p \in Refreshers : WF_vars(Refresh(p))
    /\ \A r \in Authorizers : WF_vars(ReauthSave(r)) /\ WF_vars(ReauthEvict(r))
    /\ WF_vars(LockExpires)

FairSpec == Spec /\ Fairness

-----------------------------------------------------------------------------
(* Properties *)

\* Every variable keeps its type.
TypeOK ==
    /\ db \in Credential
    /\ cache \in Token \union {NoToken}
    /\ lock \in Procs \union {NoHolder}
    /\ pc \in [Procs -> Labels]
    /\ cred \in [Procs -> Credential]
    /\ issued \in Token
    /\ life \in [Token -> Life]
    /\ family \in [Token -> Token]
    /\ live \subseteq 1 .. issued
    /\ faults \in 0 .. MaxFaults
    /\ lost \in BOOLEAN

\* No two goroutines are in the refresh section at once, whatever crashes and
\* whichever calls to Redis fail: a failing lock never becomes no lock
\* (token_provider.go, the branch on lockErr).
OneRefresher ==
    \A p, q \in Refreshers : pc[p] \in Locked /\ pc[q] \in Locked => p = q

\* The program itself never costs the owner an authorization: the provider
\* refuses a refresh, and the row turns reauth_required, only after a token set
\* was lost between provider and database or the authorization was withdrawn.
\* In particular no refresh token is presented twice.
OnlyLossCostsGrant ==
    ~db.active \/ (\E p \in Procs : pc[p] \in {"evict", "saveReauth"}) => lost

\* Strengthening: who is in the refresh section has the key; a token set is known
\* only once issued; the token set of a reauthorization is its own until saved;
\* and as long as nothing was lost, the refresh token that the next refresh will
\* present is one the provider accepts.
LockOwned == \A p \in Procs : pc[p] \in Locked => lock = p

TokensIssued ==
    /\ db.access <= issued /\ db.refresh <= issued
    /\ \A p \in Procs : cred[p].access <= issued /\ cred[p].refresh <= issued

Presenting == {"refresh", "save", "evict", "saveReauth", "reauthSave"}

ReauthUnshared ==
    \A r \in Procs : pc[r] = "reauthSave" =>
        /\ cred[r].refresh # db.refresh
        /\ \A p \in Procs \ {r} : pc[p] \in Presenting => cred[p].refresh # cred[r].refresh

GrantKept ==
    ~lost =>
        /\ db.active
        /\ \A p \in Procs : pc[p] \notin {"evict", "saveReauth"}
        /\ \A p \in Procs : pc[p] \in {"refresh", "save", "reauthSave"} =>
                cred[p].refresh \in live
        /\ \A p \in Procs : pc[p] \in {"save", "reauthSave"} => cred[p].active
        /\ db.refresh \in live \/ \E p \in Procs : pc[p] = "save"

OAuthInv == TypeOK /\ LockOwned /\ TokensIssued /\ ReauthUnshared /\ GrantKept

\* No owner has been given a new login yet.
Unreauthorized == \A t \in 1 .. issued : family[t] = 1

\* While nobody reauthorizes, Redis never holds an access token whose token set
\* the database has not seen: a crash cannot leave requests on a token whose
\* refresh token is gone.
CacheNeverAhead == Unreauthorized => cache <= db.access

\* While nobody reauthorizes, no save puts back an older token set.
CredentialNeverRegresses == [][Unreauthorized' => db'.access >= db.access]_vars

\* What the two need: until the first new login no handler is at work, whoever is
\* about to cache a token has one the row has seen, and whoever is about to write
\* the row has one at least as new.
InOrder ==
    Unreauthorized =>
        /\ \A p \in Procs : pc[p] \notin {"reauthSave", "reauthEvict"}
        /\ cache <= db.access
        /\ \A p \in Procs : pc[p] \in {"put", "cache"} => cred[p].access <= db.access
        /\ \A p \in Procs : pc[p] \in {"refresh", "save", "evict", "saveReauth"} =>
                cred[p].access >= db.access

\* An active credential whose access token has expired does not stay so: it is
\* refreshed or found dead, although holders of the lock crash.
ExpiryResolved ==
    db.active /\ life[db.access] = 0
        ~> ~db.active \/ life[db.access] > 0 \/ issued = MaxToken

\* What an owner's reauthorization stored is not put back to an older
\* authorization's token set (oauth_reauth.go:31).
ReauthNotOverwritten == [][family[db'.access] >= family[db.access]]_vars
=============================================================================
