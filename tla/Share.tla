------------------------------- MODULE Share -------------------------------
(***************************************************************************)
(* The share links of one session (infrastructure/cache/share.go).  A link *)
(* is a Redis key of its own; a sorted set per user lists the links he may *)
(* revoke, a set per session says that it is shared.  The key is reserved  *)
(* first and the indexes are written by a pipeline, of which any prefix    *)
(* may have been executed when it reports an error.                        *)
(*                                                                         *)
(* Ids are drawn at random and SET NX refuses one that is taken: an id is  *)
(* used once.  The session's set expires with the link whose pipeline set  *)
(* its EXPIRE last.                                                        *)
(***************************************************************************)
EXTENDS Naturals, FiniteSets

CONSTANTS Users,     \* who may share the session: its owner, administrators
          Requests,  \* requests under way at a time
          Ids, None

VARIABLES
    links,     \* ids whose key exists
    used,      \* ids that were reserved
    listed,    \* user:{id}:shares, per user
    members,   \* session:{id}:shares
    deadline,  \* the id whose EXPIRE counts for members; None: no expiry
    request,
    failed,    \* ids whose pipeline, rollback or process failed half-way
    expired,   \* ids whose key expired by itself
    raced      \* two requests have checked before either was indexed

vars == <<links, used, listed, members, deadline, request, failed, expired, raced>>

Idle == [at |-> "idle"]
At(r, step) == request[r].at = step
Become(r, to) == request' = [request EXCEPT ![r] = to]
Creating == {r \in Requests : request[r].at \in {"reserve", "index", "rollback"}}

Init ==
    /\ links = {} /\ used = {} /\ members = {} /\ deadline = None
    /\ listed = [u \in Users |-> {}]
    /\ request = [r \in Requests |-> Idle]
    /\ failed = {} /\ expired = {} /\ raced = FALSE

\* GetSessionShareID: a session with a member in its set has a share.
Unshared == members = {}

CheckSession(r, u) ==
    /\ At(r, "idle") /\ Unshared
    /\ Become(r, [at |-> "reserve", user |-> u])
    /\ raced' = (raced \/ Creating # {})
    /\ UNCHANGED <<links, used, listed, members, deadline, failed, expired>>

\* reserveShareID; an error of SET NX ends the request.
Reserve(r, id) ==
    /\ At(r, "reserve")
    /\ \/ /\ id \notin used
          /\ links' = links \cup {id} /\ used' = used \cup {id}
          /\ Become(r, [at |-> "index", user |-> request[r].user, id |-> id])
       \/ Become(r, Idle) /\ UNCHANGED <<links, used>>
    /\ UNCHANGED <<listed, members, deadline, failed, raced, expired>>

\* Mutation of IndexPrefix: ZADD is missing.
IndexSessionOnly(r, n) ==
    /\ members' = IF n >= 2 THEN members \cup {request[r].id} ELSE members
    /\ deadline' = IF n >= 3 THEN request[r].id ELSE IF members = {} THEN None ELSE deadline
    /\ UNCHANGED listed

\* ZADD, SADD and EXPIRE: the first n of them take effect.
IndexPrefix(r, n) ==
    LET id == request[r].id IN
    /\ listed' = IF n >= 1 THEN [listed EXCEPT ![request[r].user] = @ \cup {id}] ELSE listed
    /\ members' = IF n >= 2 THEN members \cup {id} ELSE members
    /\ deadline' = IF n >= 3 THEN id ELSE IF members = {} THEN None ELSE deadline

Index(r) ==
    /\ At(r, "index") /\ IndexPrefix(r, 3) /\ Become(r, Idle)
    /\ UNCHANGED <<links, used, failed, raced, expired>>

IndexFails(r, n) ==
    /\ At(r, "index") /\ IndexPrefix(r, n)
    /\ Become(r, [request[r] EXCEPT !.at = "rollback"])
    /\ failed' = failed \cup {request[r].id}
    /\ UNCHANGED <<links, used, raced, expired>>

\* The reserved key is deleted; an error of this DEL is dropped.
Rollback(r) ==
    /\ At(r, "rollback") /\ Become(r, Idle)
    /\ links' = links \ {request[r].id} \/ UNCHANGED links
    /\ UNCHANGED <<used, listed, members, deadline, failed, raced, expired>>

Crash(r) ==
    /\ request[r].at \in {"index", "rollback"} /\ Become(r, Idle)
    /\ failed' = failed \cup {request[r].id}
    /\ UNCHANGED <<links, used, listed, members, deadline, raced, expired>>

\* DeleteShare: the record is looked up in the user's own set ...
FindOwn(r, u, id) ==
    /\ At(r, "idle") /\ id \in listed[u]
    /\ Become(r, [at |-> "delete", user |-> u, id |-> id])
    /\ UNCHANGED <<links, used, listed, members, deadline, failed, raced, expired>>

\* Mutation of Delete: SREM is missing.
DeleteKeepsMember(r, n) ==
    LET id == request[r].id IN
    /\ At(r, "delete") /\ Become(r, Idle)
    /\ links' = IF n >= 1 THEN links \ {id} ELSE links
    /\ listed' = IF n >= 2 THEN [listed EXCEPT ![request[r].user] = @ \ {id}] ELSE listed
    /\ failed' = IF n < 3 THEN failed \cup {id} ELSE failed
    /\ UNCHANGED <<members, used, deadline, raced, expired>>

\* ... then DEL, ZREM and SREM, or a prefix of them and an error.
Delete(r, n) ==
    LET id == request[r].id IN
    /\ At(r, "delete") /\ Become(r, Idle)
    /\ links' = IF n >= 1 THEN links \ {id} ELSE links
    /\ listed' = IF n >= 2 THEN [listed EXCEPT ![request[r].user] = @ \ {id}] ELSE listed
    /\ members' = IF n >= 3 THEN members \ {id} ELSE members
    /\ failed' = IF n < 3 THEN failed \cup {id} ELSE failed
    /\ UNCHANGED <<used, deadline, raced, expired>>

LinkExpires(id) ==
    /\ id \in links /\ links' = links \ {id} /\ expired' = expired \cup {id}
    /\ UNCHANGED <<used, listed, members, deadline, request, failed, raced>>

\* The set got its time after the link and the same length of it.
SetExpires ==
    /\ members # {} /\ deadline # None /\ deadline \notin links
    /\ members' = {} /\ deadline' = None
    /\ UNCHANGED <<links, used, listed, request, failed, raced, expired>>

Next ==
    \/ \E r \in Requests :
        \/ \E u \in Users : CheckSession(r, u) \/ \E id \in Ids : FindOwn(r, u, id)
        \/ \E id \in Ids : Reserve(r, id)
        \/ Index(r) \/ Rollback(r) \/ Crash(r)
        \/ \E n \in 0..3 : IndexFails(r, n) \/ Delete(r, n)
    \/ \E id \in Ids : LinkExpires(id)
    \/ SetExpires

Spec == Init /\ [][Next]_vars

-----------------------------------------------------------------------------
(* Properties *)

\* A link that opens the session can be found and revoked by who made it, unless
\* a failure or a crash left its key behind.
LinksRevocable == \A id \in links \ failed :
    \/ \E u \in Users : id \in listed[u]
    \/ \E r \in Requests : At(r, "index") /\ request[r].id = id

\* Unless two requests checked together or a failure left something behind, a
\* session has one link at a time; and it is refused another only as long as it
\* has one, one is being revoked, or its set is about to expire after its link.
OneLinkAtATime == ~raced /\ failed = {} =>
    /\ Cardinality(links) <= 1
    /\ \/ Unshared
       \/ members \cap links # {}
       \/ \E r \in Requests : At(r, "delete") /\ request[r].id \in members
       \/ deadline \in expired

\* What a request has at hand.
Stages == [at : {"idle"}]
          \cup [at : {"reserve"}, user : Users]
          \cup [at : {"index", "rollback", "delete"}, user : Users, id : Ids]

\* The type of every variable.
TypeOK ==
    /\ links \subseteq Ids /\ used \subseteq Ids /\ members \subseteq Ids
    /\ listed \in [Users -> SUBSET Ids]
    /\ deadline \in Ids \cup {None}
    /\ request \in [Requests -> Stages]
    /\ failed \subseteq Ids /\ expired \subseteq Ids /\ raced \in BOOLEAN

\* The ids somebody can be revoking, now or later.
Revocable == {id \in Ids :
    \/ \E u \in Users : id \in listed[u]
    \/ \E r \in Requests : At(r, "delete") /\ request[r].id = id}

\* Why there is one link: requests that create follow one another, each finds the
\* session's set empty and leaves it with its own id, which sets the expiry; what
\* is not in the set is still to be indexed, out of reach of who revokes, and what
\* left Redis expired.
TakenInTurn == ~raced /\ failed = {} =>
    /\ \A r, q \in Creating : r = q
    /\ Creating # {} => members = {}
    /\ \A r \in Requests : ~At(r, "rollback")
    /\ members \subseteq {deadline}
    /\ members \subseteq links \cup expired
    /\ \A id \in links \ members : \E r \in Requests : At(r, "index") /\ request[r].id = id
    /\ Revocable \subseteq used
    /\ \A r \in Requests : At(r, "index") =>
          request[r].id \in ((links \cup expired) \cap used) \ Revocable
=============================================================================
