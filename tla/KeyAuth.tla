------------------------------ MODULE KeyAuth ------------------------------
(***************************************************************************)
(* API keys: issue and revocation (apikey/command), the rows, and the      *)
(* cache of owners by which a request's key is accepted                    *)
(* (middleware/apikey.go).  A revocation evicts nothing: the entry ends    *)
(* with its TTL.  What the owner may do is decided afterwards, by Account. *)
(*                                                                         *)
(* singleflight lets the requests of one process share a load; here each   *)
(* loads for itself, as the requests of different instances do.            *)
(***************************************************************************)
EXTENDS Naturals, FiniteSets

CONSTANTS Users, Keys, Actors, None,
          Quota   \* APIKeyMaxCount

ASSUME KeyAuthAssumption ==
    /\ None \notin Users
    /\ IsFiniteSet(Actors)
    /\ Quota \in Nat \ {0}

VARIABLES
    deleted,   \* users that are deleted
    owner,     \* ProxyAPIKey.user_id, None for a key not yet issued
    revoked,   \* keys with deleted_at set
    cached,    \* keys with an entry in Redis
    act        \* what each request is at

kaVars == <<deleted, owner, revoked, cached, act>>

Idle == [at |-> "idle"]
Valid(k) == owner[k] # None /\ k \notin revoked
KeysOf(u) == {k \in Keys : owner[k] = u /\ k \notin revoked}

At(a, step) == act[a].at = step
Become(a, r) == act' = [act EXCEPT ![a] = r]

KAInit ==
    /\ deleted = {} /\ owner = [k \in Keys |-> None] /\ revoked = {}
    /\ cached = {} /\ act = [a \in Actors |-> Idle]

------------------------------------------------------------------------------
(* Issue: the user exists; the keys are counted; the key is inserted *)

Exists(u) == u \notin deleted

IssueCheck(a, u) ==
    /\ At(a, "idle") /\ Exists(u)
    /\ Become(a, [at |-> "count", user |-> u])
    /\ UNCHANGED <<deleted, owner, revoked, cached>>

\* Mutation of QuotaAllows: one key over the limit.
QuotaOneOver(n) == n <= Quota

QuotaAllows(n) == n < Quota

IssueCount(a) ==
    /\ At(a, "count")
    /\ Become(a, IF QuotaAllows(Cardinality(KeysOf(act[a].user)))
                 THEN [at |-> "issue", user |-> act[a].user] ELSE Idle)
    /\ UNCHANGED <<deleted, owner, revoked, cached>>

IssueSave(a, k) ==
    /\ At(a, "issue") /\ owner[k] = None
    /\ owner' = [owner EXCEPT ![k] = act[a].user]
    /\ Become(a, Idle)
    /\ UNCHANGED <<deleted, revoked, cached>>

\* By the owner or an administrator: the row is soft-deleted, nothing else.
RevokeKey(k) ==
    /\ Valid(k)
    /\ revoked' = revoked \cup {k}
    /\ UNCHANGED <<deleted, owner, cached, act>>

\* DeleteCascade soft-deletes the user and all his keys in one transaction.
DeleteUser(u) ==
    /\ u \notin deleted
    /\ deleted' = deleted \cup {u}
    /\ revoked' = revoked \cup {k \in Keys : owner[k] = u}
    /\ UNCHANGED <<owner, cached, act>>

------------------------------------------------------------------------------
(* ResolveAPIKeyAuth *)

Hit(a, k) ==
    /\ At(a, "idle") /\ k \in cached
    /\ Become(a, [at |-> "accepted", key |-> k])
    /\ UNCHANGED <<deleted, owner, revoked, cached>>

\* Mutation of Found: deleted_at is not looked at.
FoundDeletedToo(k) == owner[k] # None

\* A miss reads the row of a key that is not deleted; without one it is a 401.
Found(k) == Valid(k)

Load(a, k) ==
    /\ At(a, "idle") /\ k \notin cached /\ Found(k)
    /\ Become(a, [at |-> "save", key |-> k])
    /\ UNCHANGED <<deleted, owner, revoked, cached>>

\* A failed SET is logged; the request goes on.
Save(a) ==
    /\ At(a, "save")
    /\ cached' = cached \cup {act[a].key} \/ UNCHANGED cached
    /\ Become(a, [at |-> "accepted", key |-> act[a].key])
    /\ UNCHANGED <<deleted, owner, revoked>>

Leave(a) ==
    /\ At(a, "accepted") /\ Become(a, Idle)
    /\ UNCHANGED <<deleted, owner, revoked, cached>>

Expires(k) ==
    /\ k \in cached /\ cached' = cached \ {k}
    /\ UNCHANGED <<deleted, owner, revoked, act>>

KANext ==
    \/ \E a \in Actors :
        \/ \E u \in Users : IssueCheck(a, u)
        \/ IssueCount(a)
        \/ \E k \in Keys : IssueSave(a, k) \/ Hit(a, k) \/ Load(a, k)
        \/ Save(a) \/ Leave(a)
    \/ \E k \in Keys : RevokeKey(k) \/ Expires(k)
    \/ \E u \in Users : DeleteUser(u)

KASpec == KAInit /\ [][KANext]_kaVars

------------------------------------------------------------------------------
(* Properties *)

\* The type of every variable.
Requests == {Idle} \cup [at : {"count", "issue"}, user : Users]
                   \cup [at : {"save", "accepted"}, key : Keys]
KATypeOK ==
    /\ deleted \subseteq Users /\ owner \in [Keys -> Users \cup {None}]
    /\ revoked \subseteq {k \in Keys : owner[k] # None}
    /\ cached \subseteq {k \in Keys : owner[k] # None}
    /\ act \in [Actors -> Requests]

\* A user exceeds the quota by at most one key for every further issue that was
\* under way with his.
QuotaOverrunBounded == \A u \in Users :
    Cardinality(KeysOf(u)) <= Quota + Cardinality(Actors) - 1

Copied(k) == k \in cached \/ \E a \in Actors : At(a, "save") /\ act[a].key = k
Issuing(u) == \E a \in Actors : act[a].at \in {"count", "issue"} /\ act[a].user = u

\* Once the copies made before a revocation are gone, no request makes another,
\* and a deleted user gets no key that was not under way: the key stays out.
RevocationSticks == [][
    /\ \A k \in revoked : ~Copied(k) => ~Copied(k)'
    /\ \A u \in deleted : ~Issuing(u) => KeysOf(u)' \subseteq KeysOf(u)]_kaVars
=============================================================================
