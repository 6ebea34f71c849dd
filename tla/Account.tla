------------------------------ MODULE Account ------------------------------
(***************************************************************************)
(* User rows and their permission, changed by administrators and by the    *)
(* users (identity/command), and the cache of permissions that requests    *)
(* are let in by (middleware/jwt.go), evicted after an administrator's     *)
(* change.  Handlers read the whole row, change it and save all of it.     *)
(*                                                                         *)
(* A row is never reused: a deleted account that signs in again gets a new *)
(* one.  API keys are the business of KeyAuth.                             *)
(***************************************************************************)

CONSTANTS Users, Actors, None

VARIABLES
    role,       \* User.permission, "absent" before the first sign-in
    deleted,    \* users with deleted_at set
    userCache,  \* jwt:user:{id}, the permission in it, or None
    act,        \* what each request is at
    excused     \* users whose entry a failed eviction or a race has left stale

vars == <<role, deleted, userCache, act, excused>>
rows == <<role, deleted>>

Roles == {"pending", "user", "demo"}
Idle == [at |-> "idle"]
Live(u) == role[u] # "absent" /\ u \notin deleted

Cached(u) == IF userCache[u] = None THEN {} ELSE {u}

At(a, step) == act[a].at = step
Become(a, r) == act' = [act EXCEPT ![a] = r]

Init ==
    /\ role \in [Users -> {"absent", "user"}] /\ deleted = {}
    /\ userCache = [u \in Users |-> None]
    /\ act = [a \in Actors |-> Idle]
    /\ excused = {}

------------------------------------------------------------------------------
(* The administrator *)

\* FindByID and the check of the permission found: approve, demote, restore.
From(op) == CASE op = "approve" -> {"pending"} [] op = "demote" -> {"user"}
              [] op = "restore" -> {"demo"} [] op = "delete" -> Roles
To(op) == IF op = "demote" THEN "pending" ELSE "user"

ReadForChange(a, op, u) ==
    /\ At(a, "idle") /\ Live(u) /\ role[u] \in From(op)
    /\ Become(a, [at |-> "change", op |-> op, user |-> u])
    /\ UNCHANGED <<rows, userCache, excused>>

\* Save writes the row by id, also one that was deleted meanwhile.
SaveChange(a) ==
    /\ At(a, "change") /\ act[a].op # "delete"
    /\ LET u == act[a].user IN
        /\ role' = [role EXCEPT ![u] = To(act[a].op)]
        /\ Become(a, [at |-> "evict", users |-> {u}])
    /\ UNCHANGED <<deleted, userCache, excused>>

\* DeleteCascade: the user and his keys in one transaction.
DeleteUser(a) ==
    /\ At(a, "change") /\ act[a].op = "delete"
    /\ LET u == act[a].user IN
        /\ deleted' = deleted \cup {u}
        /\ Become(a, [at |-> "evict", users |-> {u}])
    /\ UNCHANGED <<role, userCache, excused>>

\* Mutation of SetDemo: only the new demo user's entry is evicted.
SetDemoEvictsOne(a, u) ==
    /\ At(a, "idle") /\ Live(u) /\ role[u] \in {"pending", "user"}
    /\ LET old == {v \in Users : Live(v) /\ role[v] = "demo"}
           new == [v \in Users |-> IF v = u THEN "demo" ELSE IF v \in old THEN "pending" ELSE role[v]]
       IN /\ role' = new
          /\ Become(a, [at |-> "evict", users |-> {u}])
    /\ UNCHANGED <<deleted, userCache, excused>>

\* ReplaceDemoUser locks both rows in one transaction.
SetDemo(a, u) ==
    /\ At(a, "idle") /\ Live(u) /\ role[u] \in {"pending", "user"}
    /\ LET old == {v \in Users : Live(v) /\ role[v] = "demo"}
           new == [v \in Users |-> IF v = u THEN "demo" ELSE IF v \in old THEN "pending" ELSE role[v]]
       IN /\ role' = new
          /\ Become(a, [at |-> "evict", users |-> old \cup {u}])
    /\ UNCHANGED <<deleted, userCache, excused>>

\* invalidateJWTUserCache, one DEL per user; an error is logged, and a process
\* that dies first does not get to it.
Evict(a, u) ==
    /\ At(a, "evict") /\ u \in act[a].users
    /\ Become(a, IF act[a].users = {u} THEN Idle ELSE [act[a] EXCEPT !.users = @ \ {u}])
    /\ \/ userCache' = [userCache EXCEPT ![u] = None] /\ excused' = excused \ {u}
       \/ excused' = excused \cup Cached(u) /\ UNCHANGED userCache
    /\ UNCHANGED rows

------------------------------------------------------------------------------
(* The user *)

\* HandleCallback finds nobody with the identity and registers a pending user.
Register(u) ==
    /\ role[u] = "absent"
    /\ role' = [role EXCEPT ![u] = "pending"]
    /\ UNCHANGED <<deleted, userCache, act, excused>>

ReadProfile(a, u) ==
    /\ At(a, "idle") /\ Live(u)
    /\ Become(a, [at |-> "profile", user |-> u, role |-> role[u]])
    /\ UNCHANGED <<rows, userCache, excused>>

\* The permission goes back with the name; idx_user_single_demo may refuse it.
DemoIndexAllows(u, r) ==
    r = "demo" /\ Live(u) => \A v \in Users \ {u} : ~(Live(v) /\ role[v] = "demo")

SaveProfile(a) ==
    /\ At(a, "profile") /\ Become(a, Idle)
    /\ LET u == act[a].user IN
        IF DemoIndexAllows(u, act[a].role)
        THEN /\ role' = [role EXCEPT ![u] = act[a].role]
             /\ excused' = IF act[a].role # role[u] THEN excused \cup Cached(u) ELSE excused
        ELSE UNCHANGED <<role, excused>>
    /\ UNCHANGED <<deleted, userCache>>

------------------------------------------------------------------------------
(* Letting a request in *)

\* A token, or a key that KeyAuth has resolved, names the user.
Token(a, u) ==
    /\ At(a, "idle") /\ role[u] # "absent"
    /\ Become(a, [at |-> "user", user |-> u])
    /\ UNCHANGED <<rows, userCache, excused>>

\* resolveJWTUser: the cached permission, the row, or 401.
UserHit(a) ==
    /\ At(a, "user") /\ userCache[act[a].user] # None
    /\ Become(a, [at |-> "in", user |-> act[a].user, role |-> userCache[act[a].user]])
    /\ UNCHANGED <<rows, userCache, excused>>

LoadUser(a) ==
    /\ At(a, "user") /\ userCache[act[a].user] = None
    /\ Become(a, IF Live(act[a].user)
                 THEN [at |-> "saveUser", user |-> act[a].user, role |-> role[act[a].user]]
                 ELSE Idle)
    /\ UNCHANGED <<rows, userCache, excused>>

SaveUser(a) ==
    /\ At(a, "saveUser")
    /\ LET u == act[a].user IN
        \/ /\ userCache' = [userCache EXCEPT ![u] = act[a].role]
           /\ excused' = IF Live(u) /\ role[u] = act[a].role THEN excused \ {u} ELSE excused \cup {u}
        \/ UNCHANGED <<userCache, excused>>
    /\ Become(a, [act[a] EXCEPT !.at = "in"])
    /\ UNCHANGED rows

\* The request is served, or refused because its user is the demo user.
Leave(a) ==
    /\ At(a, "in") /\ Become(a, Idle)
    /\ UNCHANGED <<rows, userCache, excused>>

UserExpires(u) ==
    /\ userCache[u] # None /\ userCache' = [userCache EXCEPT ![u] = None]
    /\ excused' = excused \ {u}
    /\ UNCHANGED <<rows, act>>

Change(a) ==
    \/ \E u \in Users : \/ \E op \in {"approve", "demote", "restore", "delete"} : ReadForChange(a, op, u)
                        \/ SetDemo(a, u) \/ Evict(a, u) \/ ReadProfile(a, u)
    \/ SaveChange(a) \/ DeleteUser(a) \/ SaveProfile(a)

Admit(a) ==
    \/ \E u \in Users : Token(a, u)
    \/ UserHit(a) \/ LoadUser(a) \/ SaveUser(a) \/ Leave(a)

Next ==
    \/ \E a \in Actors : Change(a) \/ Admit(a)
    \/ \E u \in Users : Register(u) \/ UserExpires(u)

Spec == Init /\ [][Next]_vars

------------------------------------------------------------------------------
(* Properties *)

Operations == {"approve", "demote", "restore", "delete"}

\* A request that is past a row or an entry keeps the permission it read there.
TypeOK ==
    /\ role \in [Users -> Roles \cup {"absent"}]
    /\ userCache \in [Users -> Roles \cup {None}]
    /\ deleted \subseteq Users /\ excused \subseteq Users
    /\ act \in [Actors -> {Idle} \cup [at : {"user"}, user : Users]
                     \cup [at : {"change"}, op : Operations, user : Users]
                     \cup [at : {"evict"}, users : SUBSET Users]
                     \cup [at : {"profile", "saveUser", "in"}, user : Users, role : Roles]]

\* A cached permission is the row's, unless a change is just being evicted, its
\* eviction failed, or a load or a profile update overlapped the change; and
\* then only until the entry expires.
CacheFollowsRow == \A u \in Users :
    \/ userCache[u] = None
    \/ Live(u) /\ userCache[u] = role[u]
    \/ u \in excused
    \/ \E a \in Actors : At(a, "evict") /\ u \in act[a].users

\* A user's profile update leaves the permission as it stands: a decision the
\* administrator took meanwhile is not undone (user.go:96).
DecisionStands == [][\A a \in Actors :
    At(a, "profile") /\ act'[a] = Idle => role' = role]_vars
=============================================================================
