---------------------------- MODULE StoredProofs ----------------------------
(***************************************************************************)
(* Proofs about what is kept of a conversation: the links by which a       *)
(* session is shared (Share), the images of its messages (Blob) and the    *)
(* streamed answer in it (Relay), each taken by itself, for every value of *)
(* the constants.  The bounds on faults and events play no part.           *)
(***************************************************************************)
EXTENDS Stored, Integers, Sequences, FiniteSets, FiniteSetTheorems, SequenceTheorems, TLAPS

-----------------------------------------------------------------------------
(* Share links, for any users, requests and ids                              *)

\* What a request has, at each of its stages.
LEMMA StagesHave ==
    ASSUME Shares!TypeOK, NEW r \in Requests
    PROVE  /\ request[r] \in Shares!Stages
           /\ request[r].at \in {"idle", "reserve", "index", "rollback", "delete"}
           /\ request[r].at # "idle" => request[r].user \in Users
           /\ request[r].at \in {"index", "rollback", "delete"} => request[r].id \in Links
BY DEF Shares!TypeOK, Shares!Stages

LEMMA BecomeTyped ==
    ASSUME Shares!TypeOK, NEW r \in Requests, NEW to \in Shares!Stages, Shares!Become(r, to)
    PROVE  /\ request' \in [Requests -> Shares!Stages] /\ request'[r] = to
           /\ \A q \in Requests \ {r} : request'[q] = request[q]
BY DEF Shares!TypeOK, Shares!Become

LEMMA StagesOpen ==
    /\ Shares!Idle \in Shares!Stages
    /\ \A u \in Users : [at |-> "reserve", user |-> u] \in Shares!Stages
    /\ \A u \in Users, id \in Links :
          /\ [at |-> "index", user |-> u, id |-> id] \in Shares!Stages
          /\ [at |-> "delete", user |-> u, id |-> id] \in Shares!Stages
BY DEF Shares!Idle, Shares!Stages

\* The pipeline that indexes a link, cut off anywhere.
LEMMA IndexTyped ==
    ASSUME Shares!TypeOK, NEW r \in Requests, Shares!At(r, "index"), NEW n \in 0 .. 3,
        Shares!IndexPrefix(r, n)
    PROVE  /\ listed' \in [Users -> SUBSET Links] /\ members' \subseteq Links
           /\ deadline' \in Links \cup {None}
           /\ request[r].user \in Users /\ request[r].id \in Links
           /\ \A u \in Users : listed[u] \subseteq listed'[u]
           /\ members \subseteq members' /\ members' \subseteq members \cup {request[r].id}
<1>1. request[r].user \in Users /\ request[r].id \in Links
  BY StagesHave DEF Shares!At
<1>2. QED
  BY <1>1 DEF Shares!IndexPrefix, Shares!TypeOK

\* Every variable keeps its type.
LEMMA ShareTyped == Shares!TypeOK /\ [Shares!Next]_Shares!vars => Shares!TypeOK'
<1> SUFFICES ASSUME Shares!TypeOK, [Shares!Next]_Shares!vars PROVE Shares!TypeOK'
  OBVIOUS
<1>1. ASSUME NEW r \in Requests, NEW u \in Users, Shares!CheckSession(r, u) PROVE Shares!TypeOK'
  BY <1>1, BecomeTyped, StagesOpen DEF Shares!CheckSession, Shares!TypeOK
<1>2. ASSUME NEW r \in Requests, NEW u \in Users, NEW id \in Links, Shares!FindOwn(r, u, id)
      PROVE Shares!TypeOK'
  BY <1>2, BecomeTyped, StagesOpen DEF Shares!FindOwn, Shares!TypeOK
<1>3. ASSUME NEW r \in Requests, NEW id \in Links, Shares!Reserve(r, id) PROVE Shares!TypeOK'
  <2>1. request[r].user \in Users
    BY <1>3, StagesHave DEF Shares!Reserve, Shares!At
  <2>2. request' \in [Requests -> Shares!Stages]
    BY <1>3, <2>1, BecomeTyped, StagesOpen DEF Shares!Reserve
  <2>3. QED
    BY <1>3, <2>2 DEF Shares!Reserve, Shares!TypeOK
<1>4. ASSUME NEW r \in Requests, Shares!Index(r) PROVE Shares!TypeOK'
  <2>1. request' \in [Requests -> Shares!Stages]
    BY <1>4, BecomeTyped, StagesOpen DEF Shares!Index
  <2>2. QED
    BY <1>4, <2>1, IndexTyped DEF Shares!Index, Shares!TypeOK
<1>5. ASSUME NEW r \in Requests, Shares!Rollback(r) PROVE Shares!TypeOK'
  BY <1>5, BecomeTyped, StagesOpen DEF Shares!Rollback, Shares!TypeOK
<1>6. ASSUME NEW r \in Requests, Shares!Crash(r) PROVE Shares!TypeOK'
  <2>1. request' \in [Requests -> Shares!Stages] /\ request[r].id \in Links
    BY <1>6, BecomeTyped, StagesOpen, StagesHave DEF Shares!Crash
  <2>2. QED
    BY <1>6, <2>1 DEF Shares!Crash, Shares!TypeOK
<1>7. ASSUME NEW r \in Requests, NEW n \in 0 .. 3, Shares!IndexFails(r, n) PROVE Shares!TypeOK'
  <2>1. request[r] \in Shares!Stages /\ request[r].at = "index"
    BY <1>7, StagesHave DEF Shares!IndexFails, Shares!At
  <2>2. [request[r] EXCEPT !.at = "rollback"] \in Shares!Stages
    BY <2>1 DEF Shares!Stages
  <2>3. request' \in [Requests -> Shares!Stages]
    BY <1>7, <2>2, BecomeTyped DEF Shares!IndexFails
  <2>4. QED
    BY <1>7, <2>3, IndexTyped DEF Shares!IndexFails, Shares!TypeOK
<1>8. ASSUME NEW r \in Requests, NEW n \in 0 .. 3, Shares!Delete(r, n) PROVE Shares!TypeOK'
  <2>1. request[r].user \in Users /\ request[r].id \in Links
    BY <1>8, StagesHave DEF Shares!Delete, Shares!At
  <2>2. request' \in [Requests -> Shares!Stages]
    BY <1>8, BecomeTyped, StagesOpen DEF Shares!Delete
  <2>3. links' \subseteq Links /\ members' \subseteq Links /\ failed' \subseteq Links
    BY <1>8, <2>1 DEF Shares!Delete, Shares!TypeOK
  <2>4. listed' \in [Users -> SUBSET Links]
    BY <1>8, <2>1 DEF Shares!Delete, Shares!TypeOK
  <2>5. QED
    BY <1>8, <2>2, <2>3, <2>4 DEF Shares!Delete, Shares!TypeOK
<1>9. CASE \E id \in Links : Shares!LinkExpires(id)
  BY <1>9 DEF Shares!LinkExpires, Shares!TypeOK
<1>10. CASE Shares!SetExpires
  BY <1>10 DEF Shares!SetExpires, Shares!TypeOK
<1>11. CASE UNCHANGED Shares!vars
  BY <1>11 DEF Shares!vars, Shares!TypeOK
<1>12. QED
  BY <1>1, <1>2, <1>3, <1>4, <1>5, <1>6, <1>7, <1>8, <1>9, <1>10, <1>11 DEF Shares!Next

\* A link stays in its maker's list until its key is deleted, unless a failure
\* comes between the two.
LEMMA RevocableStep == Shares!TypeOK /\ Shares!LinksRevocable /\ [Shares!Next]_Shares!vars
    => Shares!LinksRevocable'
<1> SUFFICES ASSUME Shares!TypeOK, Shares!LinksRevocable, [Shares!Next]_Shares!vars,
    NEW id \in (links \ failed)'
             PROVE  \/ \E u \in Users : id \in listed'[u]
                    \/ \E r \in Requests : request'[r].at = "index" /\ request'[r].id = id
  BY DEF Shares!LinksRevocable, Shares!At
<1> DEFINE Kept == \/ \E u \in Users : id \in listed'[u]
                   \/ \E r \in Requests : request'[r].at = "index" /\ request'[r].id = id
<1>0. id \in links \ failed =>
         \/ \E u \in Users : id \in listed[u]
         \/ \E r \in Requests : request[r].at = "index" /\ request[r].id = id
  BY DEF Shares!LinksRevocable, Shares!At
<1>1. ASSUME NEW r \in Requests, request[r].at # "index", id \in links \ failed,
             \A q \in Requests \ {r} : request'[q] = request[q],
             \A u \in Users : listed[u] \subseteq listed'[u]
      PROVE  Kept
  BY <1>0, <1>1
<1>2. ASSUME NEW r \in Requests, NEW u \in Users, Shares!CheckSession(r, u) PROVE Kept
  BY <1>0, <1>1, <1>2, BecomeTyped, StagesOpen DEF Shares!CheckSession, Shares!At
<1>3. ASSUME NEW r \in Requests, NEW u \in Users, NEW i \in Links, Shares!FindOwn(r, u, i)
      PROVE Kept
  BY <1>0, <1>1, <1>3, BecomeTyped, StagesOpen DEF Shares!FindOwn, Shares!At
<1>4. ASSUME NEW r \in Requests, NEW i \in Links, Shares!Reserve(r, i) PROVE Kept
  <2>1. request[r].at = "reserve" /\ request[r].user \in Users
    BY <1>4, StagesHave DEF Shares!Reserve, Shares!At
  <2>2. CASE links' = links
    <3>1. Shares!Become(r, [at |-> "index", user |-> request[r].user, id |-> i]) \/ Shares!Become(r, Shares!Idle)
      BY <1>4 DEF Shares!Reserve
    <3>2. \A q \in Requests \ {r} : request'[q] = request[q]
      BY <2>1, <3>1, BecomeTyped, StagesOpen
    <3>3. QED
      BY <1>1, <1>4, <2>1, <2>2, <3>2 DEF Shares!Reserve
  <2>3. CASE /\ links' = links \cup {i}
             /\ Shares!Become(r, [at |-> "index", user |-> request[r].user, id |-> i])
    <3>1. /\ request'[r] = [at |-> "index", user |-> request[r].user, id |-> i]
          /\ \A q \in Requests \ {r} : request'[q] = request[q]
      BY <2>1, <2>3, BecomeTyped, StagesOpen
    <3>2. CASE id = i
      BY <3>1, <3>2
    <3>3. CASE id # i
      BY <1>1, <1>4, <2>1, <2>3, <3>1, <3>3 DEF Shares!Reserve
    <3>4. QED
      BY <3>2, <3>3
  <2>4. QED
    BY <1>4, <2>2, <2>3 DEF Shares!Reserve
<1>5. ASSUME NEW r \in Requests, Shares!Index(r) PROVE Kept
  <2>1. /\ request[r].user \in Users /\ \A u \in Users : listed[u] \subseteq listed'[u]
        /\ \A q \in Requests \ {r} : request'[q] = request[q]
    BY <1>5, IndexTyped, BecomeTyped, StagesOpen DEF Shares!Index
  <2>2. request[r].id \in listed'[request[r].user]
    BY <1>5, <2>1 DEF Shares!Index, Shares!IndexPrefix, Shares!TypeOK
  <2>3. CASE id = request[r].id
    BY <2>1, <2>2, <2>3
  <2>4. CASE id # request[r].id
    BY <1>0, <1>5, <2>1, <2>4 DEF Shares!Index
  <2>5. QED
    BY <2>3, <2>4
<1>6. ASSUME NEW r \in Requests, Shares!Rollback(r) PROVE Kept
  BY <1>1, <1>6, BecomeTyped, StagesOpen DEF Shares!Rollback, Shares!At
<1>7. ASSUME NEW r \in Requests, Shares!Crash(r) PROVE Kept
  <2>1. /\ \A q \in Requests \ {r} : request'[q] = request[q]
        /\ id # request[r].id /\ listed' = listed /\ id \in links \ failed
    BY <1>7, BecomeTyped, StagesOpen DEF Shares!Crash
  <2>2. QED
    BY <1>0, <2>1
<1>8. ASSUME NEW r \in Requests, NEW n \in 0 .. 3, Shares!IndexFails(r, n) PROVE Kept
  <2>1. request[r] \in Shares!Stages /\ request[r].at = "index"
    BY <1>8, StagesHave DEF Shares!IndexFails, Shares!At
  <2>2. [request[r] EXCEPT !.at = "rollback"] \in Shares!Stages
    BY <2>1 DEF Shares!Stages
  <2>3. /\ \A q \in Requests \ {r} : request'[q] = request[q]
        /\ id # request[r].id /\ id \in links \ failed
        /\ \A u \in Users : listed[u] \subseteq listed'[u]
    BY <1>8, <2>2, BecomeTyped, IndexTyped DEF Shares!IndexFails
  <2>4. QED
    BY <1>0, <2>3
<1>9. ASSUME NEW r \in Requests, NEW n \in 0 .. 3, Shares!Delete(r, n) PROVE Kept
  <2>1. /\ request[r].at = "delete" /\ request[r].user \in Users
        /\ \A q \in Requests \ {r} : request'[q] = request[q]
    BY <1>9, StagesHave, BecomeTyped, StagesOpen DEF Shares!Delete, Shares!At
  <2>2. id \in links \ failed
    BY <1>9 DEF Shares!Delete
  <2>3. CASE n < 2
    BY <1>1, <1>9, <2>1, <2>2, <2>3 DEF Shares!Delete
  <2>4. CASE n >= 2
    <3>1. /\ id # request[r].id
          /\ listed' = [listed EXCEPT ![request[r].user] = @ \ {request[r].id}]
      BY <1>9, <2>4 DEF Shares!Delete
    <3>2. \A u \in Users : id \in listed[u] => id \in listed'[u]
      BY <3>1 DEF Shares!TypeOK
    <3>3. QED
      BY <1>0, <2>1, <2>2, <3>2
  <2>5. QED
    BY <2>3, <2>4
<1>10. CASE \E i \in Links : Shares!LinkExpires(i)
  BY <1>0, <1>10 DEF Shares!LinkExpires
<1>11. CASE Shares!SetExpires
  BY <1>0, <1>11 DEF Shares!SetExpires
<1>12. CASE UNCHANGED Shares!vars
  BY <1>0, <1>12 DEF Shares!vars
<1>13. QED
  BY <1>2, <1>3, <1>4, <1>5, <1>6, <1>7, <1>8, <1>9, <1>10, <1>11, <1>12 DEF Shares!Next

\* Whoever made a link that opens the session can find and revoke it, unless a
\* failure left its key behind: for any users, requests and ids.
THEOREM MadeLinksRevocable == Shares!Spec => []LinksRevocable
<1>1. Shares!Init => Shares!TypeOK /\ Shares!LinksRevocable
  <2> SUFFICES ASSUME Shares!Init PROVE Shares!TypeOK /\ Shares!LinksRevocable
    OBVIOUS
  <2>1. Shares!TypeOK
    BY DEF Shares!Init, Shares!TypeOK, Shares!Idle, Shares!Stages
  <2>2. Shares!LinksRevocable
    BY DEF Shares!Init, Shares!LinksRevocable
  <2>3. QED
    BY <2>1, <2>2
<1>2. QED
  BY <1>1, ShareTyped, RevocableStep, PTL DEF Shares!Spec, LinksRevocable

\* Requests create one after another as long as no two of them checked together.
LEMMA InTurnStep == Shares!TypeOK /\ Shares!TakenInTurn /\ [Shares!Next]_Shares!vars
    => Shares!TakenInTurn'
<1> SUFFICES ASSUME Shares!TypeOK, Shares!TakenInTurn, [Shares!Next]_Shares!vars, ~raced',
    failed' = {}
             PROVE  /\ \A r, q \in Shares!Creating' : r = q
                    /\ Shares!Creating' # {} => members' = {}
                    /\ \A r \in Requests : ~Shares!At(r, "rollback")'
                    /\ members' \subseteq {deadline'}
                    /\ members' \subseteq links' \cup expired'
                    /\ \A id \in links' \ members' :
                          \E r \in Requests : (Shares!At(r, "index") /\ request[r].id = id)'
                    /\ Shares!Revocable' \subseteq used'
                    /\ \A r \in Requests : Shares!At(r, "index")' =>
                          (request[r].id \in ((links \cup expired) \cap used) \ Shares!Revocable)'
  BY DEF Shares!TakenInTurn
<1> USE DEF Shares!At
<1>0. ~raced /\ failed = {} /\ \A r \in Requests : ~(\E n \in 0..3 : Shares!IndexFails(r, n)) /\ ~Shares!Crash(r)
  <2>1. \A r \in Requests : ~(\E n \in 0..3 : Shares!IndexFails(r, n)) /\ ~Shares!Crash(r)
    BY DEF Shares!IndexFails, Shares!Crash
  <2>2. failed \subseteq failed'
    BY <2>1 DEF Shares!Next, Shares!vars, Shares!CheckSession, Shares!Reserve, Shares!Index,
                Shares!Rollback, Shares!FindOwn, Shares!Delete, Shares!LinkExpires,
                    Shares!SetExpires
  <2>3. (\E r \in Requests, u \in Users : Shares!CheckSession(r, u)) => ~raced
    BY DEF Shares!CheckSession
  <2>4. raced' = raced => ~raced
    OBVIOUS
  <2>5. raced' = raced \/ \E r \in Requests, u \in Users : Shares!CheckSession(r, u)
    BY <2>1 DEF Shares!Next, Shares!vars, Shares!Reserve, Shares!Index,
                Shares!Rollback, Shares!FindOwn, Shares!Delete, Shares!LinkExpires,
                    Shares!SetExpires
  <2>6. QED
    BY <2>1, <2>2, <2>3, <2>4, <2>5
<1>1. /\ \A r, q \in Shares!Creating : r = q
      /\ Shares!Creating # {} => members = {}
      /\ \A r \in Requests : request[r].at # "rollback"
      /\ members \subseteq {deadline}
      /\ \A id \in links \ members : \E r \in Requests : request[r].at = "index" /\ request[r].id = id
      /\ members \subseteq links \cup expired
      /\ Shares!Revocable \subseteq used
      /\ \A r \in Requests : request[r].at = "index" =>
            request[r].id \in ((links \cup expired) \cap used) \ Shares!Revocable
  BY <1>0 DEF Shares!TakenInTurn
<1>2. ASSUME NEW r \in Requests, NEW u \in Users, Shares!CheckSession(r, u)
      PROVE  /\ Shares!Creating' = {r} /\ Shares!Creating = {} /\ request'[r].at = "reserve" /\ request[r].at = "idle"
             /\ \A q \in Requests \ {r} : request'[q] = request[q]
             /\ UNCHANGED <<links, used, members, deadline, expired>> /\ members = {}
             /\ Shares!Revocable' = Shares!Revocable
  <2>1. /\ request'[r] = [at |-> "reserve", user |-> u] /\ request[r].at = "idle"
        /\ \A q \in Requests \ {r} : request'[q] = request[q]
    BY <1>2, BecomeTyped, StagesOpen DEF Shares!CheckSession
  <2>2. Shares!Creating = {} /\ UNCHANGED <<links, used, listed, members, deadline, expired>> /\ members = {}
    BY <1>2 DEF Shares!CheckSession, Shares!Unshared
  <2>3. Shares!Revocable' = Shares!Revocable
    BY <2>1, <2>2 DEF Shares!Revocable
  <2>4. QED
    BY <2>1, <2>2, <2>3 DEF Shares!Creating
<1>3. ASSUME NEW r \in Requests, NEW id \in Links, Shares!Reserve(r, id)
      PROVE  /\ Shares!Creating = {r} /\ Shares!Creating' \subseteq {r} /\ UNCHANGED <<members, deadline, expired>>
             /\ request[r].at = "reserve"
             /\ \A q \in Requests \ {r} : request'[q] = request[q]
             /\ Shares!Revocable' = Shares!Revocable
             /\ \/ links' = links /\ used' = used /\ request'[r].at = "idle"
                \/ /\ id \notin used /\ links' = links \cup {id} /\ used' = used \cup {id}
                   /\ request'[r].at = "index" /\ request'[r].id = id
  <2>1. request[r].at = "reserve" /\ request[r].user \in Users
    BY <1>3, StagesHave DEF Shares!Reserve
  <2>2. Shares!Creating = {r}
    BY <1>1, <2>1 DEF Shares!Creating
  <2>3. /\ \A q \in Requests \ {r} : request'[q] = request[q]
        /\ \/ links' = links /\ used' = used /\ request'[r].at = "idle"
           \/ /\ id \notin used /\ links' = links \cup {id} /\ used' = used \cup {id}
              /\ request'[r].at = "index" /\ request'[r].id = id
    <3>1. CASE Shares!Become(r, Shares!Idle) /\ links' = links /\ used' = used
      BY <3>1, BecomeTyped, StagesOpen DEF Shares!Idle
    <3>2. CASE /\ id \notin used /\ links' = links \cup {id} /\ used' = used \cup {id}
               /\ Shares!Become(r, [at |-> "index", user |-> request[r].user, id |-> id])
      <4>1. [at |-> "index", user |-> request[r].user, id |-> id] \in Shares!Stages
        BY <2>1, StagesOpen
      <4>2. /\ request'[r] = [at |-> "index", user |-> request[r].user, id |-> id]
            /\ \A q \in Requests \ {r} : request'[q] = request[q]
        BY <3>2, <4>1, BecomeTyped
      <4>3. QED
        BY <3>2, <4>2
    <3>3. QED
      BY <1>3, <3>1, <3>2 DEF Shares!Reserve
  <2>4. Shares!Creating' \subseteq {r}
    BY <2>2, <2>3 DEF Shares!Creating
  <2>5. Shares!Revocable' = Shares!Revocable
    BY <1>3, <2>1, <2>3 DEF Shares!Reserve, Shares!Revocable
  <2>6. QED
    BY <1>3, <2>1, <2>2, <2>3, <2>4, <2>5 DEF Shares!Reserve
<1>4. ASSUME NEW r \in Requests, Shares!Index(r)
      PROVE  /\ Shares!Creating = {r} /\ Shares!Creating' = {} /\ members = {}
             /\ UNCHANGED <<links, used, expired>>
             /\ Shares!Revocable' \subseteq Shares!Revocable \cup {request[r].id} /\ request[r].at = "index"
             /\ members' = {request[r].id} /\ deadline' = request[r].id
             /\ \A q \in Requests \ {r} : request'[q] = request[q]
             /\ request'[r].at = "idle"
  <2>1. Shares!Creating = {r}
    BY <1>1, <1>4 DEF Shares!Creating, Shares!Index
  <2>2. request'[r] = Shares!Idle /\ \A q \in Requests \ {r} : request'[q] = request[q]
    BY <1>4, BecomeTyped, StagesOpen DEF Shares!Index
  <2>3. Shares!Creating' = {}
    BY <2>1, <2>2 DEF Shares!Creating, Shares!Idle
  <2>4. Shares!Revocable' \subseteq Shares!Revocable \cup {request[r].id}
    <3>1. \A u \in Users : listed'[u] \subseteq listed[u] \cup {request[r].id}
      BY <1>4 DEF Shares!Index, Shares!IndexPrefix, Shares!TypeOK
    <3>2. QED
      BY <2>2, <3>1 DEF Shares!Revocable, Shares!Idle
  <2>5. QED
    BY <1>1, <1>4, <2>1, <2>2, <2>3, <2>4 DEF Shares!Index, Shares!IndexPrefix, Shares!Idle
<1>5. ASSUME NEW r \in Requests, NEW n \in 0 .. 3, Shares!Delete(r, n)
      PROVE  /\ n = 3 /\ UNCHANGED <<used, deadline, expired>> /\ request[r].at = "delete"
             /\ Shares!Revocable' \subseteq Shares!Revocable /\ request[r].id \in Shares!Revocable
             /\ links' = links \ {request[r].id} /\ members' = members \ {request[r].id}
             /\ \A q \in Requests \ {r} : request'[q] = request[q]
             /\ request'[r].at = "idle"
  <2>1. n = 3 /\ request[r].at = "delete"
    BY <1>5 DEF Shares!Delete
  <2>2. request'[r] = Shares!Idle /\ \A q \in Requests \ {r} : request'[q] = request[q]
    BY <1>5, BecomeTyped, StagesOpen DEF Shares!Delete
  <2>3. request[r].id \in Shares!Revocable
    BY <2>1, StagesHave DEF Shares!Revocable
  <2>4. Shares!Revocable' \subseteq Shares!Revocable
    <3>1. \A u \in Users : listed'[u] \subseteq listed[u]
      BY <1>5 DEF Shares!Delete, Shares!TypeOK
    <3>2. QED
      BY <2>2, <3>1 DEF Shares!Revocable, Shares!Idle
  <2>5. QED
    BY <1>5, <2>1, <2>2, <2>3, <2>4 DEF Shares!Delete, Shares!Idle
<1>6. ASSUME NEW r \in Requests, NEW u \in Users, NEW id \in Links, Shares!FindOwn(r, u, id)
      PROVE  /\ UNCHANGED <<links, used, members, deadline, expired>>
             /\ request[r].at = "idle" /\ request'[r].at = "delete"
             /\ \A q \in Requests \ {r} : request'[q] = request[q]
             /\ Shares!Revocable' = Shares!Revocable
  <2>1. /\ request'[r] = [at |-> "delete", user |-> u, id |-> id] /\ id \in listed[u]
        /\ \A q \in Requests \ {r} : request'[q] = request[q]
        /\ request[r].at = "idle" /\ listed' = listed
    BY <1>6, BecomeTyped, StagesOpen DEF Shares!FindOwn
  <2>2. Shares!Revocable' = Shares!Revocable
    BY <2>1 DEF Shares!Revocable
  <2>3. QED
    BY <1>6, <2>1, <2>2 DEF Shares!FindOwn
<1>7. CASE \E r \in Requests : \E u \in Users : Shares!CheckSession(r, u)
  <2>1. PICK r \in Requests, u \in Users : Shares!CheckSession(r, u)
    BY <1>7
  <2>2. links' \ members' = {}
    BY <1>1, <1>2, <2>1 DEF Shares!Creating
  <2>3. QED
    BY <1>1, <1>2, <2>1, <2>2
<1>8. CASE \E r \in Requests : \E id \in Links : Shares!Reserve(r, id)
  <2>1. PICK r \in Requests, id \in Links : Shares!Reserve(r, id)
    BY <1>8
  <2>2. members = {} /\ members' = {} /\ links = {}
    BY <1>1, <1>3, <2>1 DEF Shares!Creating
  <2>3. QED
    BY <1>1, <1>3, <2>1, <2>2
<1>9. CASE \E r \in Requests : Shares!Index(r)
  <2>1. PICK r \in Requests : Shares!Index(r)
    BY <1>9
  <2>2. links \subseteq {request[r].id}
    BY <1>1, <1>4, <2>1 DEF Shares!Creating
  <2>3. \A q \in Requests : request'[q].at # "rollback"
    BY <1>1, <1>4, <2>1
  <2>4. request[r].id \in (links \cup expired) \cap used
    BY <1>1, <1>4, <2>1
  <2>5. \A q \in Requests : request'[q].at # "index"
    BY <1>4, <2>1 DEF Shares!Creating
  <2>6. QED
    BY <1>1, <1>4, <2>1, <2>2, <2>3, <2>4, <2>5
<1>10. CASE \E r \in Requests : \E n \in 0 .. 3 : Shares!Delete(r, n)
  <2>1. PICK r \in Requests, n \in 0 .. 3 : Shares!Delete(r, n)
    BY <1>10
  <2>2. Shares!Creating' = Shares!Creating
    BY <1>5, <2>1 DEF Shares!Creating
  <2>3. QED
    BY <1>1, <1>5, <2>1, <2>2
<1>11. CASE \E r \in Requests, u \in Users, id \in Links : Shares!FindOwn(r, u, id)
  <2>1. PICK r \in Requests, u \in Users, id \in Links : Shares!FindOwn(r, u, id)
    BY <1>11
  <2>2. Shares!Creating' = Shares!Creating
    BY <1>6, <2>1 DEF Shares!Creating
  <2>3. QED
    BY <1>1, <1>6, <2>1, <2>2
<1>12. ASSUME NEW r \in Requests, Shares!Rollback(r) PROVE FALSE
  BY <1>1, <1>12 DEF Shares!Rollback
<1>13. CASE \E id \in Links : Shares!LinkExpires(id)
  BY <1>1, <1>13 DEF Shares!LinkExpires, Shares!Creating, Shares!Revocable
<1>14. CASE Shares!SetExpires
  BY <1>1, <1>14 DEF Shares!SetExpires, Shares!Creating, Shares!Revocable
<1>15. CASE UNCHANGED Shares!vars
  BY <1>1, <1>15 DEF Shares!vars, Shares!Creating, Shares!Revocable
<1>16. QED
  BY <1>0, <1>7, <1>8, <1>9, <1>10, <1>11, <1>12, <1>13, <1>14, <1>15 DEF Shares!Next

\* The module's Cardinality is the one of the library's theorems.
LEMMA SameSize == Shares!Cardinality(links) = Cardinality(links)
BY DEF Shares!Cardinality, Cardinality

\* Of a session shared by one request after another there is one link; and it is
\* refused another only while it has one or after one expired: for any users,
\* requests and ids.
THEOREM SharedOnce == Shares!Spec => []OneLinkAtATime
<1>1. Shares!Init => Shares!TypeOK /\ Shares!TakenInTurn
  <2> SUFFICES ASSUME Shares!Init PROVE Shares!TypeOK /\ Shares!TakenInTurn
    OBVIOUS
  <2>1. Shares!TypeOK
    BY DEF Shares!Init, Shares!TypeOK, Shares!Idle, Shares!Stages
  <2>2. Shares!Creating = {} /\ Shares!Revocable = {} /\ \A r \in Requests : request[r].at = "idle"
    BY DEF Shares!Init, Shares!Creating, Shares!Revocable, Shares!Idle, Shares!At
  <2>3. QED
    BY <2>1, <2>2 DEF Shares!Init, Shares!TakenInTurn, Shares!At
<1>2. Shares!TypeOK /\ Shares!TakenInTurn => Shares!OneLinkAtATime
  <2>1. ASSUME Shares!TypeOK, Shares!TakenInTurn, ~raced, failed = {}
        PROVE  Cardinality(links) <= 1 /\ (Shares!Unshared \/ members \cap links # {} \/ deadline \in expired)
    <3>1. \E x : links \subseteq {x}
      <4>1. CASE Shares!Creating = {}
        <5>1. links \subseteq members /\ members \subseteq {deadline}
          BY <2>1, <4>1 DEF Shares!TakenInTurn, Shares!Creating, Shares!At
        <5>2. QED
          BY <5>1
      <4>2. CASE Shares!Creating # {}
        <5>1. PICK r \in Shares!Creating : TRUE
          BY <4>2
        <5>2. members = {} /\ \A q \in Shares!Creating : q = r
          BY <2>1, <4>2 DEF Shares!TakenInTurn
        <5>3. links \subseteq {request[r].id}
          BY <2>1, <5>2 DEF Shares!TakenInTurn, Shares!Creating, Shares!At
        <5>4. QED
          BY <5>3
      <4>3. QED
        BY <4>1, <4>2
    <3>2. Cardinality(links) <= 1
      <4>1. PICK x : links \subseteq {x}
        BY <3>1
      <4>2. IsFiniteSet({x}) /\ Cardinality({x}) = 1
        BY FS_Singleton
      <4>3. Cardinality(links) <= Cardinality({x})
        BY <4>1, <4>2, FS_Subset
      <4>4. QED
        BY <4>2, <4>3
    <3>3. Shares!Unshared \/ members \cap links # {} \/ deadline \in expired
      BY <2>1 DEF Shares!TakenInTurn, Shares!Unshared
    <3>4. QED
      BY <3>2, <3>3
  <2>2. QED
    BY <2>1, SameSize DEF Shares!OneLinkAtATime
<1>3. QED
  BY <1>1, <1>2, ShareTyped, InTurnStep, PTL DEF Shares!Spec, OneLinkAtATime

-----------------------------------------------------------------------------
(* Images, for any instances, writers, attempts and faults                   *)

\* The rows there are, and those that are none.
LEMMA Rows ==
    /\ Images!NoRow.status = "none"
    /\ \A n \in Nat : \A s \in {"pending", "failed", "uploaded", "unprocessable"} :
          /\ Images!Row(s, n) \in [status : {"pending", "failed", "uploaded", "unprocessable"}, attempts : Nat]
          /\ Images!Row(s, n).status = s /\ Images!Row(s, n) # Images!NoRow
    /\ Images!TypeOK => row.attempts \in Nat /\ (row = Images!NoRow <=> row.status = "none")
    /\ Images!TypeOK => row.status \in {"none", "pending", "failed", "uploaded", "unprocessable"}
BY DEF Images!NoRow, Images!Row, Images!TypeOK

Recordable == [status : {"pending", "failed", "uploaded", "unprocessable"}, attempts : Nat]

\* An insert leaves a row that is there, a mark one that is not.
LEMMA InsertTyped ==
    ASSUME Images!TypeOK, NEW r \in Recordable, Images!Insert(r)
    PROVE  /\ row' \in {Images!NoRow} \cup Recordable /\ row' # Images!NoRow
           /\ row # Images!NoRow => row' = row
           /\ row = Images!NoRow => row' = r
BY DEF Images!TypeOK, Images!Insert, Recordable, Images!NoRow

LEMMA MarkTyped ==
    ASSUME Images!TypeOK, NEW r \in Recordable, Images!Mark(r)
    PROVE  /\ row' \in {Images!NoRow} \cup Recordable /\ (row' = Images!NoRow <=> row = Images!NoRow)
           /\ row' = r \/ row' = row
           /\ row.status \in {"pending", "failed"} => row' = r
           /\ row.status \notin {"pending", "failed"} => row' = row
BY Rows DEF Images!TypeOK, Images!Mark, Images!Retryable, Recordable

LEMMA FaultTyped == Images!TypeOK /\ (Images!Fault \/ UNCHANGED faults) => faults' \in Nat
BY DEF Images!TypeOK, Images!Fault

\* What an upload ends with.
LEMMA JobRowTyped ==
    ASSUME NEW p \in Pods, job[p] \in {"raw", "put", "unput", "tooLarge"}
    PROVE  /\ Images!JobRow(p) \in Recordable /\ Images!JobRow(p) # Images!NoRow
           /\ Images!JobRow(p).status = "uploaded" <=> job[p] = "put"
           /\ Images!JobRow(p).status = "unprocessable" <=> job[p] = "tooLarge"
BY Rows DEF Images!JobRow, Recordable

\* Every variable keeps its type.
LEMMA BlobTyped == Images!TypeOK /\ [Images!Next]_Images!vars => Images!TypeOK'
<1> SUFFICES ASSUME Images!TypeOK, [Images!Next]_Images!vars PROVE Images!TypeOK'
  OBVIOUS
<1> USE DEF Images!jobs, Images!given
<1>1. ASSUME NEW w \in ImageWriters, Images!LookUp(w) PROVE Images!TypeOK'
  BY <1>1, FaultTyped DEF Images!LookUp, Images!Goto, Images!TypeOK
<1>2. ASSUME NEW w \in ImageWriters, Images!Submit(w) PROVE Images!TypeOK'
  <2>1. imageWriter' \in [ImageWriters -> {"idle", "submit", "raw", "ref", "inline"}]
    BY <1>2 DEF Images!Submit, Images!Goto, Images!TypeOK
  <2>2. inflight' \in [Pods -> {"none", "job"} \cup ImageWriters]
    BY <1>2 DEF Images!Submit, Images!TypeOK
  <2>3. job' \in [Pods -> {"none", "queued", "raw", "put", "unput", "tooLarge"}]
    BY <1>2 DEF Images!Submit, Images!TypeOK
  <2>4. QED
    BY <1>2, <2>1, <2>2, <2>3 DEF Images!Submit, Images!TypeOK
<1>3. ASSUME NEW w \in ImageWriters, Images!PersistRaw(w) PROVE Images!TypeOK'
  <2>1. Images!Row("pending", 0) \in Recordable
    BY Rows DEF Recordable
  <2>2. row' \in {Images!NoRow} \cup Recordable
    BY <1>3, <2>1, InsertTyped DEF Images!PersistRaw, Images!TypeOK, Recordable
  <2>3. imageWriter' \in [ImageWriters -> {"idle", "submit", "raw", "ref", "inline"}]
        /\ inflight' \in [Pods -> {"none", "job"} \cup ImageWriters]
    BY <1>3 DEF Images!PersistRaw, Images!Goto, Images!TypeOK
  <2>4. faults' \in Nat
    BY <1>3, FaultTyped DEF Images!PersistRaw
  <2>5. lost' \subseteq {"crash", "insert", "purge", "reply", "rowKept", "ignored"}
    BY <1>3 DEF Images!PersistRaw, Images!TypeOK
  <2>6. QED
    BY <1>3, <2>2, <2>3, <2>4, <2>5 DEF Images!PersistRaw, Images!TypeOK, Recordable
<1>4. ASSUME NEW w \in ImageWriters, Images!StoreMessage(w) PROVE Images!TypeOK'
  BY <1>4 DEF Images!StoreMessage, Images!Goto, Images!Unless, Images!TypeOK
<1>5. ASSUME NEW w \in ImageWriters, Images!DeleteMessage(w) PROVE Images!TypeOK'
  BY <1>5 DEF Images!DeleteMessage, Images!TypeOK
<1>6. ASSUME NEW p \in Pods, Images!JobPut(p) PROVE Images!TypeOK'
  <2>1. job' \in [Pods -> {"none", "queued", "raw", "put", "unput", "tooLarge"}]
    BY <1>6 DEF Images!JobPut, Images!JobIs, Images!TypeOK
  <2>2. faults' \in Nat
    BY <1>6, FaultTyped DEF Images!JobPut, Images!PutFails
  <2>3. object' \in BOOLEAN
    BY <1>6 DEF Images!JobPut, Images!PutFails, Images!TypeOK
  <2>4. lost' \subseteq {"crash", "insert", "purge", "reply", "rowKept", "ignored"}
    BY <1>6 DEF Images!JobPut, Images!PutFails, Images!Unless, Images!TypeOK
  <2>5. QED
    BY <1>6, <2>1, <2>2, <2>3, <2>4 DEF Images!JobPut, Images!TypeOK
<1>7. ASSUME NEW p \in Pods, Images!JobInsert(p) PROVE Images!TypeOK'
  <2>1. row' \in {Images!NoRow} \cup Recordable
    BY <1>7, InsertTyped, JobRowTyped DEF Images!JobInsert, Images!TypeOK, Recordable
  <2>2. faults' \in Nat
    BY <1>7, FaultTyped DEF Images!JobInsert
  <2>3. lost' \subseteq {"crash", "insert", "purge", "reply", "rowKept", "ignored"}
    BY <1>7 DEF Images!JobInsert, Images!Unless, Images!TypeOK
  <2>4. QED
    BY <1>7, <2>1, <2>2, <2>3 DEF Images!JobInsert, Images!TypeOK, Recordable
<1>8. ASSUME NEW p \in Pods, Images!Drain(p) \/ Images!Replaced(p) PROVE Images!TypeOK'
  BY <1>8 DEF Images!Drain, Images!Replaced, Images!TypeOK
<1>9. ASSUME NEW p \in Pods, Images!Crash(p) PROVE Images!TypeOK'
  BY <1>9, FaultTyped DEF Images!Crash, Images!Unless, Images!TypeOK
<1>10. CASE Images!RetryLoad
  BY <1>10 DEF Images!RetryLoad, Images!Unless, Images!TypeOK
<1>11. CASE Images!RetryPut
  <2>1. row' \in {Images!NoRow} \cup Recordable
    <3>0. row.attempts \in Nat
      BY Rows
    <3>1. row.attempts \in Nat /\ row.attempts + 1 \in Nat
      BY <3>0
    <3>2. /\ Images!Row("failed", row.attempts + 1) \in Recordable
          /\ Images!Row("pending", row.attempts + 1) \in Recordable
          /\ Images!Row("unprocessable", row.attempts) \in Recordable
      BY <3>1, Rows DEF Recordable
    <3>3. (\E r \in Recordable : Images!Mark(r)) \/ row' = row
      BY <1>11, <3>2 DEF Images!RetryPut
    <3>4. QED
      BY <3>3, MarkTyped DEF Images!TypeOK, Recordable
  <2>2. faults' \in Nat /\ retry' \in {"idle", "loaded", "put"} /\ object' \in BOOLEAN
    BY <1>11, FaultTyped DEF Images!RetryPut, Images!PutFails, Images!TypeOK
  <2>3. lost' \subseteq {"crash", "insert", "purge", "reply", "rowKept", "ignored"}
    BY <1>11 DEF Images!RetryPut, Images!PutFails, Images!TypeOK
  <2>4. QED
    BY <1>11, <2>1, <2>2, <2>3 DEF Images!RetryPut, Images!TypeOK, Recordable
<1>12. CASE Images!RetryMark
  <2>1. Images!Row("uploaded", row.attempts) \in Recordable
    BY Rows DEF Recordable
  <2>2. row' \in {Images!NoRow} \cup Recordable
    BY <1>12, <2>1, MarkTyped DEF Images!RetryMark, Images!TypeOK, Recordable
  <2>3. faults' \in Nat
    BY <1>12, FaultTyped DEF Images!RetryMark
  <2>4. QED
    BY <1>12, <2>2, <2>3 DEF Images!RetryMark, Images!TypeOK, Recordable
<1>13. CASE Images!ResetFailed
  <2>1. row' \in Recordable
    BY <1>13, Rows DEF Images!ResetFailed, Recordable
  <2>2. QED
    BY <1>13, <2>1 DEF Images!ResetFailed, Images!TypeOK, Recordable
<1>14. CASE Images!PurgeMessages
  BY <1>14 DEF Images!PurgeMessages, Images!TypeOK
<1>15. CASE Images!PurgeScan
  BY <1>15, FaultTyped DEF Images!PurgeScan, Images!TypeOK
<1>16. CASE Images!PurgeObject
  <2>1. faults' \in Nat /\ object' \in BOOLEAN /\ imagePurge' \in {"idle", "collected", "scanned", "deleting"}
    BY <1>16, FaultTyped DEF Images!PurgeObject, Images!TypeOK
  <2>2. lost' \subseteq {"crash", "insert", "purge", "reply", "rowKept", "ignored"}
    BY <1>16 DEF Images!PurgeObject, Images!Unless, Images!TypeOK
  <2>3. QED
    BY <1>16, <2>1, <2>2 DEF Images!PurgeObject, Images!TypeOK
<1>17. CASE Images!PurgeRow
  <2>1. faults' \in Nat
    BY <1>17, FaultTyped DEF Images!PurgeRow
  <2>2. lost' \subseteq {"crash", "insert", "purge", "reply", "rowKept", "ignored"}
    BY <1>17 DEF Images!PurgeRow, Images!Unless, Images!TypeOK
  <2>3. QED
    BY <1>17, <2>1, <2>2 DEF Images!PurgeRow, Images!TypeOK
<1>18. CASE UNCHANGED Images!vars
  BY <1>18 DEF Images!vars, Images!TypeOK
<1>19. QED
  BY <1>1, <1>2, <1>3, <1>4, <1>5, <1>6, <1>7, <1>8, <1>9, <1>10, <1>11, <1>12, <1>13,
     <1>14, <1>15, <1>16, <1>17, <1>18 DEF Images!Next

\* The steps of the retry job and of the purge touch no pool and no writer.
Elsewhere == Images!RetryLoad \/ Images!RetryPut \/ Images!RetryMark \/ Images!ResetFailed
             \/ Images!PurgeMessages \/ Images!PurgeScan \/ Images!PurgeObject \/ Images!PurgeRow \/ UNCHANGED Images!vars

LEMMA ElsewhereStep == Elsewhere => UNCHANGED <<imageWriter, inflight, job, fits, home>>
BY DEF Elsewhere, Images!RetryLoad, Images!RetryPut, Images!RetryMark, Images!ResetFailed,
    Images!PurgeMessages, Images!PurgeScan,
       Images!PurgeObject, Images!PurgeRow, Images!vars, Images!jobs, Images!given

\* A pool or a writer takes the image in hand only where nobody has it.
LEMMA HandsStep ==
    ASSUME {"none", "job"} \cap ImageWriters = {}, Images!TypeOK, Images!HandsFull,
        [Images!Next]_Images!vars
    PROVE  Images!HandsFull'
<1> USE DEF Images!HandsFull, Images!jobs, Images!given
<1>1. ASSUME NEW w \in ImageWriters, Images!LookUp(w) \/ Images!StoreMessage(w) PROVE Images!HandsFull'
  BY <1>1 DEF Images!LookUp, Images!StoreMessage, Images!Goto, Images!TypeOK
<1>2. ASSUME NEW w \in ImageWriters, Images!DeleteMessage(w) PROVE Images!HandsFull'
  BY <1>2 DEF Images!DeleteMessage
<1>3. ASSUME NEW w \in ImageWriters, Images!Submit(w) PROVE Images!HandsFull'
  <2>1. CASE Images!Goto(w, "ref") /\ UNCHANGED <<inflight, job>>
    BY <1>3, <2>1 DEF Images!Submit, Images!Goto, Images!TypeOK
  <2>2. CASE /\ inflight[home[w]] = "none" /\ job[home[w]] = "none"
             /\ inflight' = [inflight EXCEPT ![home[w]] = "job"]
             /\ job' = [job EXCEPT ![home[w]] = "queued"] /\ Images!Goto(w, "ref")
    <3>1. \A v \in ImageWriters : imageWriter'[v] = "raw" => imageWriter[v] = "raw" /\ home[v] # home[w]
      BY <1>3, <2>2 DEF Images!Submit, Images!Goto, Images!TypeOK
    <3>2. QED
      BY <1>3, <2>2, <3>1 DEF Images!Submit, Images!TypeOK
  <2>3. CASE /\ inflight[home[w]] = "none"
             /\ inflight' = [inflight EXCEPT ![home[w]] = w] /\ Images!Goto(w, "raw") /\ UNCHANGED job
    <3>1. \A v \in ImageWriters : imageWriter'[v] = "raw" => v = w \/ (imageWriter[v] = "raw" /\ home[v] # home[w])
      BY <1>3, <2>3 DEF Images!Submit, Images!Goto, Images!TypeOK
    <3>2. job[home[w]] = "none"
      BY <2>3 DEF Images!TypeOK
    <3>3. QED
      BY <1>3, <2>3, <3>1, <3>2 DEF Images!Submit, Images!TypeOK
  <2>4. QED
    BY <1>3, <2>1, <2>2, <2>3 DEF Images!Submit
<1>4. ASSUME NEW w \in ImageWriters, Images!PersistRaw(w) PROVE Images!HandsFull'
  <2>1. /\ inflight[home[w]] = w /\ inflight' = [inflight EXCEPT ![home[w]] = "none"]
        /\ \A v \in ImageWriters : imageWriter'[v] = "raw" => v # w /\ imageWriter[v] = "raw"
        /\ UNCHANGED <<job, home>>
    BY <1>4 DEF Images!PersistRaw, Images!Goto, Images!TypeOK
  <2>2. \A v \in ImageWriters : imageWriter'[v] = "raw" => home[v] # home[w]
    BY <2>1
  <2>3. QED
    BY <2>1, <2>2 DEF Images!TypeOK
<1>5. ASSUME NEW p \in Pods, Images!JobPut(p) PROVE Images!HandsFull'
  BY <1>5 DEF Images!JobPut, Images!JobIs, Images!TypeOK
<1>6. ASSUME NEW p \in Pods, Images!JobInsert(p) PROVE Images!HandsFull'
  <2>1. \A v \in ImageWriters : imageWriter[v] = "raw" => home[v] # p
    BY <1>6 DEF Images!JobInsert
  <2>2. QED
    BY <1>6, <2>1 DEF Images!JobInsert, Images!TypeOK
<1>7. ASSUME NEW p \in Pods, Images!Drain(p) \/ Images!Replaced(p) PROVE Images!HandsFull'
  BY <1>7 DEF Images!Drain, Images!Replaced
<1>8. ASSUME NEW p \in Pods, Images!Crash(p) PROVE Images!HandsFull'
  BY <1>8 DEF Images!Crash, Images!TypeOK
<1>9. CASE Elsewhere
  BY <1>9, ElsewhereStep
<1>10. QED
  BY <1>1, <1>2, <1>3, <1>4, <1>5, <1>6, <1>7, <1>8, <1>9 DEF Images!Next, Elsewhere

\* How each step treats the row: what a step writes to it, and when.
LEMMA RowStep ==
    ASSUME Images!TypeOK, [Images!Next]_Images!vars
    PROVE  \/ row' = row
           \/ \E w \in ImageWriters : Images!PersistRaw(w) /\ row = Images!NoRow /\ row' = Images!Row("pending", 0)
           \/ \E p \in Pods : Images!JobInsert(p) /\ row = Images!NoRow /\ row' = Images!JobRow(p)
           \/ Images!RetryPut /\ row # Images!NoRow /\ row' # Images!NoRow /\ ~(row'.status = "uploaded")
              /\ (row'.status = "unprocessable" => ~fits) /\ row.status # "uploaded"
           \/ Images!RetryMark /\ Images!Retryable /\ row' = Images!Row("uploaded", row.attempts)
           \/ Images!ResetFailed /\ row.status = "failed" /\ row' = Images!Row("pending", 0)
           \/ Images!PurgeRow /\ row' = Images!NoRow
<1>1. ASSUME NEW w \in ImageWriters, Images!PersistRaw(w)
      PROVE  row' = row \/ (row = Images!NoRow /\ row' = Images!Row("pending", 0))
  BY <1>1 DEF Images!PersistRaw, Images!Insert
<1>2. ASSUME NEW p \in Pods, Images!JobInsert(p)
      PROVE  row' = row \/ (row = Images!NoRow /\ row' = Images!JobRow(p))
  BY <1>2 DEF Images!JobInsert, Images!Insert
<1>3. CASE Images!RetryPut
  <2>0. row.attempts \in Nat
    BY Rows
  <2>1. row.attempts + 1 \in Nat
    BY <2>0
  <2> DEFINE again == IF row.attempts + 1 >= MaxAttempts THEN Images!Row("failed", row.attempts + 1)
                      ELSE Images!Row("pending", row.attempts + 1)
             never == Images!Row("unprocessable", row.attempts)
  <2>2. again.status \in {"failed", "pending"} /\ again # Images!NoRow
    BY <2>1, Rows
  <2>3. never.status = "unprocessable" /\ never # Images!NoRow
    BY <2>0, Rows
  <2>4. row' = row \/ Images!Mark(again) \/ (~fits /\ Images!Mark(never))
    BY <1>3 DEF Images!RetryPut
  <2>5. Images!Retryable => row # Images!NoRow /\ row.status # "uploaded"
    BY Rows DEF Images!Retryable
  <2> HIDE DEF again, never
  <2>6. QED
    BY <1>3, <2>2, <2>3, <2>4, <2>5 DEF Images!Mark
<1>4. CASE Images!RetryMark
  BY <1>4 DEF Images!RetryMark, Images!Mark
<1>5. CASE Images!ResetFailed
  BY <1>5 DEF Images!ResetFailed
<1>6. CASE Images!PurgeRow
  BY <1>6 DEF Images!PurgeRow
<1>7. ASSUME NEW w \in ImageWriters,
    Images!LookUp(w) \/ Images!Submit(w) \/ Images!StoreMessage(w) \/ Images!DeleteMessage(w)
      PROVE  row' = row
  BY <1>7 DEF Images!LookUp, Images!Submit, Images!StoreMessage, Images!DeleteMessage
<1>8. ASSUME NEW p \in Pods,
    Images!JobPut(p) \/ Images!Drain(p) \/ Images!Replaced(p) \/ Images!Crash(p)
      PROVE  row' = row
  BY <1>8 DEF Images!JobPut, Images!Drain, Images!Replaced, Images!Crash
<1>9. CASE Images!RetryLoad \/ Images!PurgeMessages \/ Images!PurgeScan \/ Images!PurgeObject \/ UNCHANGED Images!vars
  BY <1>9 DEF Images!RetryLoad, Images!PurgeMessages, Images!PurgeScan, Images!PurgeObject,
      Images!vars
<1>10. QED
  BY <1>1, <1>2, <1>3, <1>4, <1>5, <1>6, <1>7, <1>8, <1>9 DEF Images!Next

\* What was lost stays on record.
LEMMA LostGrows == [Images!Next]_Images!vars => lost \subseteq lost'
BY DEF Images!Next, Images!vars, Images!LookUp, Images!Submit, Images!PersistRaw,
    Images!StoreMessage, Images!DeleteMessage, Images!JobPut, Images!PutFails,
       Images!JobInsert, Images!Drain, Images!Replaced, Images!Crash, Images!RetryLoad,
           Images!RetryPut, Images!RetryMark, Images!ResetFailed,
       Images!PurgeMessages, Images!PurgeScan, Images!PurgeObject, Images!PurgeRow, Images!Unless

\* An image goes out of hand only with its row in place, or with a loss.
LEMMA HandOver ==
    ASSUME Images!TypeOK, [Images!Next]_Images!vars, lost' \cap {"crash", "insert"} = {},
        row # Images!NoRow \/ Images!InHand, ~Images!PurgeRow
    PROVE  row' # Images!NoRow \/ Images!InHand'
<1>1. row # Images!NoRow => row' # Images!NoRow
  <2>1. \A p \in Pods : Images!JobInsert(p) => Images!JobRow(p) # Images!NoRow
    BY JobRowTyped DEF Images!JobInsert
  <2>2. row.attempts \in Nat
    BY Rows
  <2>3. Images!Row("pending", 0) # Images!NoRow /\ Images!Row("uploaded", row.attempts) # Images!NoRow
    BY <2>2, Rows
  <2>4. QED
    BY RowStep, <2>1, <2>3
<1>2. ASSUME NEW w \in ImageWriters, Images!PersistRaw(w) PROVE row' # Images!NoRow
  BY <1>2, Rows DEF Images!PersistRaw, Images!Insert
<1>3. ASSUME NEW p \in Pods, Images!JobInsert(p) PROVE row' # Images!NoRow
  BY <1>3, JobRowTyped DEF Images!JobInsert, Images!Insert
<1>4. ASSUME NEW p \in Pods, Images!Crash(p), Images!InHand PROVE Images!InHand'
  <2>1. inflight[p] = "none"
    BY <1>4 DEF Images!Crash, Images!Unless
  <2>2. QED
    BY <1>4, <2>1 DEF Images!Crash, Images!InHand, Images!TypeOK
<1>5. ASSUME NEW w \in ImageWriters, Images!Submit(w), Images!InHand PROVE Images!InHand'
  <2>1. \A p \in Pods : inflight[p] # "none" => inflight'[p] = inflight[p]
    BY <1>5 DEF Images!Submit, Images!TypeOK
  <2>2. QED
    BY <1>5, <2>1 DEF Images!InHand
<1>6. ASSUME NEW w \in ImageWriters,
    Images!LookUp(w) \/ Images!StoreMessage(w) \/ Images!DeleteMessage(w)
        PROVE inflight' = inflight
  BY <1>6 DEF Images!LookUp, Images!StoreMessage, Images!DeleteMessage, Images!jobs
<1>7. ASSUME NEW p \in Pods, Images!JobPut(p) \/ Images!Drain(p) \/ Images!Replaced(p)
      PROVE inflight' = inflight
  BY <1>7 DEF Images!JobPut, Images!Drain, Images!Replaced
<1>8. Elsewhere => inflight' = inflight
  BY ElsewhereStep
<1>9. inflight' = inflight => Images!InHand' = Images!InHand
  BY DEF Images!InHand
<1>10. QED
  BY <1>1, <1>2, <1>3, <1>4, <1>5, <1>6, <1>7, <1>8, <1>9 DEF Images!Next, Elsewhere

Named == Images!Referenced \/ \E w \in ImageWriters : imageWriter[w] = "ref"

\* A writer comes to a reference only by the row or the image in hand, and a
\* message to its reference only by its writer.
LEMMA NamedStep ==
    ASSUME Images!TypeOK, [Images!Next]_Images!vars, Named', ~Named
    PROVE  row' # Images!NoRow \/ Images!InHand'
<1>0. /\ \A w \in ImageWriters : message[w] \notin {"ref", "deleted"} /\ imageWriter[w] # "ref"
      /\ \E w \in ImageWriters : message'[w] \in {"ref", "deleted"} \/ imageWriter'[w] = "ref"
  BY DEF Named, Images!Referenced
<1>1. ASSUME NEW w \in ImageWriters, Images!LookUp(w) PROVE row' # Images!NoRow
  BY <1>0, <1>1 DEF Images!LookUp, Images!Goto, Images!TypeOK
<1>2. ASSUME NEW w \in ImageWriters, Images!Submit(w) PROVE Images!InHand'
  <2>1. inflight'[home[w]] # "none" \/ (Images!Goto(w, "raw") /\ message' = message)
    BY <1>2 DEF Images!Submit, Images!TypeOK
  <2>2. ~(Images!Goto(w, "raw") /\ message' = message)
    BY <1>0 DEF Images!Goto, Images!TypeOK
  <2>3. home[w] \in Pods
    BY DEF Images!TypeOK
  <2>4. QED
    BY <2>1, <2>2, <2>3 DEF Images!InHand
<1>3. ASSUME NEW w \in ImageWriters, Images!PersistRaw(w) PROVE row' # Images!NoRow
  <2>1. ~(Images!Goto(w, "inline") /\ message' = message)
    BY <1>0 DEF Images!Goto, Images!TypeOK
  <2>2. QED
    BY <1>3, <2>1, Rows DEF Images!PersistRaw, Images!Insert
<1>4. ASSUME NEW w \in ImageWriters, Images!StoreMessage(w) PROVE FALSE
  BY <1>0, <1>4 DEF Images!StoreMessage, Images!Goto, Images!TypeOK
<1>5. ASSUME NEW w \in ImageWriters, Images!DeleteMessage(w) PROVE FALSE
  BY <1>0, <1>5 DEF Images!DeleteMessage
<1>6. ASSUME NEW p \in Pods,
    Images!JobPut(p) \/ Images!JobInsert(p) \/ Images!Drain(p) \/ Images!Replaced(p) PROVE FALSE
  BY <1>0, <1>6 DEF Images!JobPut, Images!JobInsert, Images!Drain, Images!Replaced
<1>7. ASSUME NEW p \in Pods, Images!Crash(p) PROVE FALSE
  BY <1>0, <1>7 DEF Images!Crash
<1>8. CASE Elsewhere
  <2>1. imageWriter' = imageWriter /\ \A w \in ImageWriters : message'[w] \in {message[w], "gone"}
    BY <1>8, ElsewhereStep DEF Elsewhere, Images!RetryLoad, Images!RetryPut, Images!RetryMark,
        Images!ResetFailed, Images!PurgeMessages,
          Images!PurgeScan, Images!PurgeObject, Images!PurgeRow, Images!vars, Images!TypeOK
  <2>2. QED
    BY <1>0, <2>1
<1>9. QED
  BY <1>1, <1>2, <1>3, <1>4, <1>5, <1>6, <1>7, <1>8 DEF Images!Next, Elsewhere

\* Under a purge that has scanned, no message comes to a reference unnoticed.
LEMMA ScanStands ==
    ASSUME Images!TypeOK, [Images!Next]_Images!vars, "purge" \notin lost',
           imagePurge \in {"scanned", "deleting"} => ~Images!Referenced
    PROVE  imagePurge' \in {"scanned", "deleting"} => ~Images!Referenced'
<1>1. ASSUME NEW w \in ImageWriters, Images!StoreMessage(w) PROVE imagePurge' \notin {"scanned", "deleting"}
  BY <1>1 DEF Images!StoreMessage, Images!Unless
<1>2. ASSUME NEW w \in ImageWriters, Images!DeleteMessage(w) PROVE Images!Referenced /\ imagePurge' = imagePurge
  BY <1>2 DEF Images!DeleteMessage, Images!Referenced
<1>3. ASSUME NEW w \in ImageWriters, Images!LookUp(w) \/ Images!Submit(w) \/ Images!PersistRaw(w)
      PROVE  UNCHANGED <<imagePurge, message>>
  BY <1>3 DEF Images!LookUp, Images!Submit, Images!PersistRaw
<1>4. ASSUME NEW p \in Pods,
    Images!JobPut(p) \/ Images!JobInsert(p) \/ Images!Drain(p) \/ Images!Replaced(p) \/ Images!Crash(p)
      PROVE  UNCHANGED <<imagePurge, message>>
  BY <1>4 DEF Images!JobPut, Images!JobInsert, Images!Drain, Images!Replaced, Images!Crash
<1>5. CASE Images!RetryLoad \/ Images!RetryPut \/ Images!RetryMark \/ Images!ResetFailed \/ UNCHANGED Images!vars
  BY <1>5 DEF Images!RetryLoad, Images!RetryPut, Images!RetryMark, Images!ResetFailed,
      Images!vars, Images!Referenced
<1>6. CASE Images!PurgeMessages
  BY <1>6 DEF Images!PurgeMessages
<1>7. CASE Images!PurgeScan
  BY <1>7 DEF Images!PurgeScan, Images!Referenced
<1>8. CASE Images!PurgeObject
  <2>1. message' = message /\ imagePurge = "scanned"
    BY <1>8 DEF Images!PurgeObject
  <2>2. QED
    BY <2>1 DEF Images!Referenced
<1>9. CASE Images!PurgeRow
  BY <1>9 DEF Images!PurgeRow
<1>10. UNCHANGED message => Images!Referenced' = Images!Referenced
  BY DEF Images!Referenced
<1>11. QED
  BY <1>1, <1>2, <1>3, <1>4, <1>5, <1>6, <1>7, <1>8, <1>9, <1>10 DEF Images!Next

LEMMA ResolvableStep ==
    ASSUME Images!TypeOK, Images!Resolvable, [Images!Next]_Images!vars
    PROVE  Images!Resolvable'
<1> SUFFICES ASSUME lost' \cap {"crash", "insert", "purge"} = {}
             PROVE  /\ imagePurge' \in {"scanned", "deleting"} => ~Images!Referenced'
                    /\ Named' => row' # Images!NoRow \/ Images!InHand'
  BY DEF Images!Resolvable, Named
<1>1. /\ imagePurge \in {"scanned", "deleting"} => ~Images!Referenced
      /\ Named => row # Images!NoRow \/ Images!InHand
  BY LostGrows DEF Images!Resolvable, Named
<1>2. imagePurge' \in {"scanned", "deleting"} => ~Images!Referenced'
  BY <1>1, ScanStands
<1>3. Named' => row' # Images!NoRow \/ Images!InHand'
  <2>1. CASE Images!PurgeRow
    <3>1. imagePurge = "deleting" /\ UNCHANGED <<message, imageWriter>>
          /\ ((\A w \in ImageWriters : imageWriter[w] # "ref") \/ (row' = row /\ inflight' = inflight))
      BY <2>1 DEF Images!PurgeRow, Images!Unless, Images!jobs
    <3>2. CASE \A w \in ImageWriters : imageWriter[w] # "ref"
      BY <1>1, <3>1, <3>2 DEF Named, Images!Referenced
    <3>3. CASE row' = row /\ inflight' = inflight
      BY <1>1, <3>1, <3>3 DEF Named, Images!Referenced, Images!InHand
    <3>4. QED
      BY <3>1, <3>2, <3>3
  <2>2. CASE ~Images!PurgeRow /\ Named
    BY <1>1, <2>2, HandOver
  <2>3. CASE ~Named
    BY <2>3, NamedStep
  <2>4. QED
    BY <2>1, <2>2, <2>3
<1>4. QED
  BY <1>2, <1>3

\* A pool is about to record an upload, or a refusal, by its own step only; the
\* retry job likewise; and only the purge takes the object away.
LEMMA JobStep ==
    ASSUME Images!TypeOK, [Images!Next]_Images!vars, NEW p \in Pods,
        job'[p] \in {"put", "tooLarge"}
    PROVE  \/ job'[p] = job[p]
           \/ Images!JobPut(p) /\ job'[p] = "put" /\ fits /\ object'
              /\ (imagePurge = "deleting" => "purge" \in lost')
           \/ Images!JobPut(p) /\ job'[p] = "tooLarge" /\ ~fits
<1>1. ASSUME NEW w \in ImageWriters, Images!Submit(w) PROVE job'[p] = job[p]
  BY <1>1 DEF Images!Submit, Images!TypeOK
<1>2. ASSUME NEW w \in ImageWriters,
    Images!LookUp(w) \/ Images!PersistRaw(w) \/ Images!StoreMessage(w) \/ Images!DeleteMessage(w)
      PROVE  job'[p] = job[p]
  BY <1>2 DEF Images!LookUp, Images!PersistRaw, Images!StoreMessage, Images!DeleteMessage,
      Images!jobs
<1>3. ASSUME NEW q \in Pods, q # p, Images!JobPut(q) PROVE job'[p] = job[p]
  BY <1>3 DEF Images!JobPut, Images!JobIs, Images!TypeOK
<1>4. CASE Images!JobPut(p)
  BY <1>4 DEF Images!JobPut, Images!JobIs, Images!TypeOK, Images!Unless
<1>5. ASSUME NEW q \in Pods,
    Images!JobInsert(q) \/ Images!Drain(q) \/ Images!Replaced(q) \/ Images!Crash(q)
      PROVE  job'[p] = job[p]
  BY <1>5 DEF Images!JobInsert, Images!Drain, Images!Replaced, Images!Crash, Images!TypeOK
<1>6. CASE Elsewhere
  BY <1>6, ElsewhereStep
<1>7. QED
  BY <1>1, <1>2, <1>3, <1>4, <1>5, <1>6 DEF Images!Next, Elsewhere

LEMMA RetryStep ==
    ASSUME [Images!Next]_Images!vars
    PROVE  /\ retry' = "put" => retry = "put" \/ (Images!RetryPut /\ fits /\ object' /\ retry = "loaded")
           /\ retry' # "idle" => retry # "idle" \/ Images!RetryLoad
           /\ retry = "put" => retry' = "put" \/ Images!RetryMark
BY DEF Images!Next, Images!vars, Images!jobs, Images!given, Images!LookUp, Images!Submit,
    Images!PersistRaw, Images!StoreMessage, Images!DeleteMessage, Images!JobPut,
       Images!JobInsert, Images!Drain, Images!Replaced, Images!Crash, Images!RetryLoad,
           Images!RetryPut, Images!RetryMark, Images!ResetFailed,
       Images!PurgeMessages, Images!PurgeScan, Images!PurgeObject, Images!PurgeRow

LEMMA ObjectStep ==
    ASSUME Images!TypeOK, [Images!Next]_Images!vars
    PROVE  \/ object' = object
           \/ object' /\ "reply" \in lost'
           \/ object' /\ Images!RetryPut /\ retry' = "put" /\ retry = "loaded"
           \/ object' /\ \E p \in Pods : Images!JobPut(p) /\ job'[p] = "put"
           \/ /\ Images!PurgeObject /\ ~object' /\ imagePurge' = "deleting" /\ row.status = "uploaded"
<1>1. ASSUME NEW p \in Pods, Images!JobPut(p)
      PROVE  object' = object \/ (object' /\ ("reply" \in lost' \/ job'[p] = "put"))
  BY <1>1 DEF Images!JobPut, Images!PutFails, Images!JobIs, Images!TypeOK
<1>2. CASE Images!RetryPut
  BY <1>2 DEF Images!RetryPut, Images!PutFails
<1>3. CASE Images!PurgeObject
  BY <1>3 DEF Images!PurgeObject
<1>4. ASSUME NEW w \in ImageWriters,
    Images!LookUp(w) \/ Images!Submit(w) \/ Images!PersistRaw(w) \/ Images!StoreMessage(w) \/ Images!DeleteMessage(w)
      PROVE  object' = object
  BY <1>4 DEF Images!LookUp, Images!Submit, Images!PersistRaw, Images!StoreMessage,
      Images!DeleteMessage
<1>5. ASSUME NEW p \in Pods,
    Images!JobInsert(p) \/ Images!Drain(p) \/ Images!Replaced(p) \/ Images!Crash(p)
      PROVE  object' = object
  BY <1>5 DEF Images!JobInsert, Images!Drain, Images!Replaced, Images!Crash
<1>6. CASE Images!RetryLoad \/ Images!RetryMark \/ Images!ResetFailed \/ Images!PurgeMessages \/ Images!PurgeScan \/ Images!PurgeRow \/ UNCHANGED Images!vars
  BY <1>6 DEF Images!RetryLoad, Images!RetryMark, Images!ResetFailed, Images!PurgeMessages,
      Images!PurgeScan, Images!PurgeRow, Images!vars
<1>7. QED
  BY <1>1, <1>2, <1>3, <1>4, <1>5, <1>6 DEF Images!Next

\* The purge of a row: what it may assume, or record as lost.
LEMMA PurgeStep ==
    ASSUME Images!TypeOK, Images!PurgeObject
    PROVE  /\ UNCHANGED <<row, retry, job>> /\ imagePurge = "scanned" /\ imagePurge' \in {"idle", "deleting"}
           /\ imagePurge' = "deleting" /\ "purge" \notin lost' =>
                 retry = "idle" /\ \A p \in Pods : job[p] # "put"
           /\ imagePurge' = "deleting" => object' = IF row.status = "uploaded" THEN FALSE ELSE object
BY Rows DEF Images!PurgeObject, Images!Unless, Images!jobs

LEMMA FitsStands == [Images!Next]_Images!vars => fits' = fits
BY DEF Images!Next, Images!vars, Images!jobs, Images!given, Images!LookUp, Images!Submit,
    Images!PersistRaw, Images!StoreMessage, Images!DeleteMessage, Images!JobPut,
       Images!JobInsert, Images!Drain, Images!Replaced, Images!Crash, Images!RetryLoad,
           Images!RetryPut, Images!RetryMark, Images!ResetFailed,
       Images!PurgeMessages, Images!PurgeScan, Images!PurgeObject, Images!PurgeRow

LEMMA RecordedStep ==
    ASSUME Images!TypeOK, Images!Recorded, [Images!Next]_Images!vars
    PROVE  Images!Recorded'
<1>1. row'.status = "unprocessable" => ~fits'
  <2>1. \A p \in Pods : Images!JobInsert(p) /\ Images!JobRow(p).status = "unprocessable" => ~fits
    BY JobRowTyped DEF Images!JobInsert, Images!Recorded
  <2>2. row.attempts \in Nat
    BY Rows
  <2>3. /\ Images!Row("pending", 0).status = "pending" /\ Images!Row("uploaded", row.attempts).status = "uploaded"
        /\ Images!NoRow.status = "none"
    BY <2>2, Rows
  <2>4. QED
    BY <2>1, <2>3, RowStep, FitsStands DEF Images!Recorded
<1>2. \A p \in Pods : job'[p] = "tooLarge" => ~fits'
  BY JobStep, FitsStands DEF Images!Recorded
<1>3. retry' = "put" => fits'
  BY RetryStep, FitsStands DEF Images!Recorded
<1>4. ASSUME "purge" \notin lost', retry' = "put" \/ \E p \in Pods : job'[p] = "put" PROVE object'
  <2>1. CASE Images!PurgeObject /\ imagePurge' = "deleting"
    BY <1>4, <2>1, PurgeStep
  <2>2. CASE ~(Images!PurgeObject /\ imagePurge' = "deleting")
    <3>1. object => object'
      BY <2>2, ObjectStep
    <3>2. "purge" \notin lost
      BY <1>4, LostGrows
    <3>3. retry = "put" \/ (\E p \in Pods : job[p] = "put") => object
      BY <3>2 DEF Images!Recorded
    <3>4. retry' = "put" => object'
      BY <3>1, <3>3, RetryStep
    <3>5. \A p \in Pods : job'[p] = "put" => object'
      BY <3>1, <3>3, JobStep
    <3>6. QED
      BY <1>4, <3>4, <3>5
  <2>3. QED
    BY <2>1, <2>2
<1>5. QED
  BY <1>1, <1>2, <1>3, <1>4 DEF Images!Recorded

LEMMA AccountedStep ==
    ASSUME Images!TypeOK, Images!HandsFull, Images!Recorded, Images!Accounted,
        [Images!Next]_Images!vars
    PROVE  Images!Accounted'
<1> SUFFICES ASSUME lost' \subseteq {"rowKept"}
             PROVE  /\ object' => \/ row'.status = "uploaded" \/ retry' = "put"
                                  \/ \E p \in Pods : job'[p] = "put"
                    /\ retry' # "idle" => row' # Images!NoRow
                    /\ imagePurge' = "deleting" =>
                          retry' = "idle" /\ ~object' /\ \A p \in Pods : job'[p] # "put"
  BY DEF Images!Accounted
<1>0. lost \subseteq {"rowKept"} /\ "purge" \notin lost' /\ "reply" \notin lost' /\ "crash" \notin lost'
      /\ "ignored" \notin lost' /\ "insert" \notin lost'
  BY LostGrows
<1>1. /\ object => row.status = "uploaded" \/ retry = "put" \/ \E p \in Pods : job[p] = "put"
      /\ retry # "idle" => row # Images!NoRow
      /\ imagePurge = "deleting" => retry = "idle" /\ ~object /\ \A p \in Pods : job[p] # "put"
  BY <1>0 DEF Images!Accounted
<1>2. row.attempts \in Nat
  BY Rows
<1>3. CASE Images!PurgeRow
  <2>1. imagePurge = "deleting" /\ imagePurge' = "idle" /\ UNCHANGED <<object, job, retry>>
    BY <1>3 DEF Images!PurgeRow, Images!jobs
  <2>2. QED
    BY <1>1, <2>1
<1>4. CASE ~Images!PurgeRow
  <2>1. row # Images!NoRow => row' # Images!NoRow
    <3>1. \A p \in Pods : Images!JobInsert(p) => Images!JobRow(p) # Images!NoRow
      BY JobRowTyped DEF Images!JobInsert
    <3>2. Images!Row("pending", 0) # Images!NoRow /\ Images!Row("uploaded", row.attempts) # Images!NoRow
      BY <1>2, Rows
    <3>3. QED
      BY <1>4, RowStep, <3>1, <3>2
  <2>2. row.status = "uploaded" => row' = row
    BY <1>4, RowStep, Rows DEF Images!Retryable
  <2>3. Images!RetryLoad => row' = row /\ row # Images!NoRow /\ imagePurge' = imagePurge /\ imagePurge # "deleting"
    BY <1>0, Rows DEF Images!RetryLoad, Images!Unless
  <2>4. retry' # "idle" => row' # Images!NoRow
    BY <1>1, <2>1, <2>3, RetryStep
  <2>5. ASSUME object'
        PROVE row'.status = "uploaded" \/ retry' = "put" \/ \E p \in Pods : job'[p] = "put"
    <3>1. object \/ retry' = "put" \/ \E p \in Pods : job'[p] = "put"
      BY <1>0, <2>5, ObjectStep
    <3>2. CASE object /\ row.status = "uploaded"
      BY <2>2, <3>2
    <3>3. CASE object /\ retry = "put" /\ retry' # "put"
      <4>1. Images!RetryMark
        BY <3>3, RetryStep
      <4>2. row.status \in {"pending", "failed", "uploaded"}
        BY <1>1, <3>3, Rows DEF Images!Recorded
      <4>3. Images!Mark(Images!Row("uploaded", row.attempts))
        BY <1>0, <4>1 DEF Images!RetryMark
      <4>4. row'.status = "uploaded"
        BY <1>2, <4>2, <4>3, Rows DEF Images!Mark, Images!Retryable
      <4>5. QED
        BY <4>4
    <3>4. ASSUME NEW p \in Pods, job[p] = "put", job'[p] # "put"
          PROVE  row'.status = "uploaded"
      <4>1. Images!JobInsert(p)
        <5>1. ASSUME Images!Crash(p) PROVE FALSE
          BY <1>0, <3>4, <5>1 DEF Images!Crash, Images!Unless, Images!HandsFull
        <5>2. ASSUME NEW w \in ImageWriters, Images!Submit(w) PROVE FALSE
          BY <3>4, <5>2 DEF Images!Submit, Images!TypeOK
        <5>3. ASSUME NEW w \in ImageWriters,
            Images!LookUp(w) \/ Images!PersistRaw(w) \/ Images!StoreMessage(w) \/ Images!DeleteMessage(w)
              PROVE  FALSE
          BY <3>4, <5>3 DEF Images!LookUp, Images!PersistRaw, Images!StoreMessage,
              Images!DeleteMessage, Images!jobs
        <5>4. ASSUME NEW q \in Pods, Images!JobPut(q) \/ Images!Drain(q) \/ Images!Replaced(q)
              PROVE FALSE
          BY <3>4, <5>4 DEF Images!JobPut, Images!JobIs, Images!Drain, Images!Replaced,
              Images!TypeOK
        <5>5. ASSUME NEW q \in Pods \ {p}, Images!JobInsert(q) \/ Images!Crash(q) PROVE FALSE
          BY <3>4, <5>5 DEF Images!JobInsert, Images!Crash, Images!TypeOK
        <5>6. ASSUME Elsewhere PROVE FALSE
          BY <3>4, <5>6, ElsewhereStep
        <5>7. QED
          BY <5>1, <5>2, <5>3, <5>4, <5>5, <5>6 DEF Images!Next, Elsewhere
      <4>2. Images!Insert(Images!JobRow(p)) /\ row.status \in {"none", "uploaded"}
        BY <1>0, <3>4, <4>1 DEF Images!JobInsert, Images!Unless
      <4>3. Images!JobRow(p).status = "uploaded"
        BY <3>4, JobRowTyped
      <4>4. QED
        BY <4>2, <4>3, Rows DEF Images!Insert
    <3>5. QED
      BY <1>1, <3>1, <3>2, <3>3, <3>4
  <2>6. ASSUME imagePurge' = "deleting"
        PROVE  retry' = "idle" /\ ~object' /\ \A p \in Pods : job'[p] # "put"
    <3>1. CASE Images!PurgeObject
      <4>1. retry' = "idle" /\ \A p \in Pods : job'[p] # "put"
        BY <1>0, <2>6, <3>1, PurgeStep
      <4>2. UNCHANGED <<row, retry, job>> /\ object' = IF row.status = "uploaded" THEN FALSE ELSE object
        BY <2>6, <3>1, PurgeStep
      <4>3. ~object'
        BY <1>1, <4>1, <4>2
      <4>4. QED
        BY <4>1, <4>3
    <3>2. CASE ~Images!PurgeObject
      <4>1. imagePurge = "deleting"
        BY <1>4, <2>6, <3>2 DEF Images!Next, Images!vars, Images!LookUp, Images!Submit,
            Images!PersistRaw, Images!StoreMessage, Images!DeleteMessage,
           Images!JobPut, Images!JobInsert, Images!Drain, Images!Replaced, Images!Crash,
               Images!RetryLoad, Images!RetryPut, Images!RetryMark, Images!ResetFailed,
           Images!PurgeMessages, Images!PurgeScan
      <4>2. retry' = "idle"
        BY <1>1, <2>3, <4>1, RetryStep
      <4>3. \A p \in Pods : job'[p] # "put"
        BY <1>0, <1>1, <4>1, JobStep
      <4>4. ~object'
        BY <1>0, <1>1, <3>2, <4>1, <4>2, <4>3, ObjectStep
      <4>5. QED
        BY <4>2, <4>3, <4>4
    <3>3. QED
      BY <3>1, <3>2
  <2>7. QED
    BY <2>4, <2>5, <2>6
<1>5. QED
  BY <1>3, <1>4

LEMMA AgreeStep ==
    ASSUME Images!TypeOK, Images!Recorded, Images!RowAndObjectAgree, [Images!Next]_Images!vars,
           row'.status = "uploaded", lost' \cap {"purge", "rowKept"} = {}
    PROVE  object' \/ imagePurge' = "deleting"
<1>0. "purge" \notin lost /\ lost \cap {"purge", "rowKept"} = {} /\ "rowKept" \notin lost'
  BY LostGrows
<1>1. row.attempts \in Nat
  BY Rows
<1>2. CASE row.status = "uploaded"
  <2>1. object \/ imagePurge = "deleting"
    BY <1>0, <1>2 DEF Images!RowAndObjectAgree
  <2>2. object' = object \/ object' \/ imagePurge' = "deleting"
    BY ObjectStep
  <2>3. ASSUME Images!PurgeRow PROVE FALSE
    BY <1>0, <2>3, Rows DEF Images!PurgeRow
  <2>4. imagePurge = "deleting" => imagePurge' = "deleting"
    BY <2>3 DEF Images!Next, Images!vars, Images!LookUp, Images!Submit, Images!PersistRaw,
        Images!StoreMessage, Images!DeleteMessage,
       Images!JobPut, Images!JobInsert, Images!Drain, Images!Replaced, Images!Crash,
           Images!RetryLoad, Images!RetryPut, Images!RetryMark, Images!ResetFailed,
       Images!PurgeMessages, Images!PurgeScan, Images!PurgeObject
  <2>5. QED
    BY <2>1, <2>2, <2>4
<1>3. CASE row.status # "uploaded"
  <2>1. \/ \E p \in Pods : Images!JobInsert(p) /\ job[p] = "put"
        \/ Images!RetryMark
    <3>1. \A p \in Pods : Images!JobInsert(p) /\ Images!JobRow(p).status = "uploaded" => job[p] = "put"
      BY JobRowTyped DEF Images!JobInsert
    <3>2. Images!Row("pending", 0).status = "pending" /\ Images!NoRow.status = "none"
      BY Rows
    <3>3. QED
      BY <1>3, <3>1, <3>2, RowStep
  <2>2. object /\ object' = object
    BY <1>0, <2>1 DEF Images!JobInsert, Images!RetryMark, Images!Recorded
  <2>3. QED
    BY <2>2
<1>4. QED
  BY <1>2, <1>3

\* The program's own names for who holds the image are no writer's.
LEMMA BlobInvariant ==
    ASSUME {"none", "job"} \cap ImageWriters = {}
    PROVE  Images!Spec => []Images!BlobInv
<1>1. Images!Init => Images!BlobInv
  <2> SUFFICES ASSUME Images!Init PROVE Images!BlobInv
    OBVIOUS
  <2>1. Images!TypeOK
    BY DEF Images!Init, Images!TypeOK
  <2>2. Images!HandsFull /\ Images!Resolvable
    BY DEF Images!Init, Images!HandsFull, Images!Resolvable, Images!Referenced
  <2>3. Images!Recorded /\ Images!Accounted /\ Images!RowAndObjectAgree
    BY Rows DEF Images!Init, Images!Recorded, Images!Accounted, Images!RowAndObjectAgree
  <2>4. QED
    BY <2>1, <2>2, <2>3 DEF Images!BlobInv
<1>2. Images!BlobInv /\ [Images!Next]_Images!vars => Images!BlobInv'
  <2> SUFFICES ASSUME Images!BlobInv, [Images!Next]_Images!vars PROVE Images!BlobInv'
    OBVIOUS
  <2>1. Images!TypeOK /\ Images!HandsFull /\ Images!Resolvable /\ Images!Recorded /\ Images!Accounted /\ Images!RowAndObjectAgree
    BY DEF Images!BlobInv
  <2>2. Images!TypeOK' /\ Images!HandsFull' /\ Images!Resolvable' /\ Images!Recorded' /\ Images!Accounted'
    BY <2>1, BlobTyped, HandsStep, ResolvableStep, RecordedStep, AccountedStep
  <2>3. ASSUME object', lost' \subseteq {"rowKept"}
        PROVE row' # Images!NoRow \/ Images!InHand' \/ retry' = "put"
    <3>1. row'.status = "uploaded" \/ retry' = "put" \/ \E p \in Pods : job'[p] = "put"
      BY <2>2, <2>3 DEF Images!Accounted
    <3>2. (\E p \in Pods : job'[p] = "put") => Images!InHand'
      BY <2>2 DEF Images!HandsFull, Images!InHand
    <3>3. QED
      BY <3>1, <3>2, Rows
  <2>4. Images!RowAndObjectAgree'
    BY <2>1, <2>3, AgreeStep DEF Images!RowAndObjectAgree
  <2>5. QED
    BY <2>2, <2>4 DEF Images!BlobInv
<1>3. QED
  BY <1>1, <1>2, PTL DEF Images!Spec

\* A stored reference has its row or its image in hand, unless a crash, a failed
\* insert or an overlapping purge took it: for any instances, writers and faults.
THEOREM ReferencesResolve ==
    ASSUME {"none", "job"} \cap ImageWriters = {}
    PROVE  Images!Spec => []RefsResolve
<1>1. Images!BlobInv => Images!RefsResolve
  BY DEF Images!BlobInv, Images!Resolvable, Images!Referenced, Images!RefsResolve
<1>2. QED
  BY <1>1, BlobInvariant, PTL DEF RefsResolve

\* An uploaded row has its object and an object its row, but for the losses the
\* property names: for any instances, writers, attempts and faults.
THEOREM RowsMatchObjects ==
    ASSUME {"none", "job"} \cap ImageWriters = {}
    PROVE  Images!Spec => []RowAndObjectAgree
<1>1. Images!BlobInv => Images!RowAndObjectAgree
  BY DEF Images!BlobInv
<1>2. QED
  BY <1>1, BlobInvariant, PTL DEF RowAndObjectAgree

-----------------------------------------------------------------------------
(* The streamed answer, for any number of events                             *)

Kinds == {"block", "call", "text", "thinking", "tool"}
CallSet == [at : Nat, args : Seq(Nat)]
AnswerSet == [text : Seq(Nat), thinking : Seq(Nat), tools : Seq(CallSet)]

\* The calls are numbered as they begin, and what is said in a call has one.
SaidInv ==
    /\ upstream \in {"anthropic", "chat"} /\ client \in {"anthropic", "chat", "response"}
    /\ said \in Seq([kind : Kinds, at : Nat])
    /\ \A i \in DOMAIN said : said[i].kind \in {"block", "call"} => said[i].at < Answers!Blocks
    /\ \A i \in DOMAIN said : said[i].kind = "tool" =>
          \E j \in DOMAIN said : said[j].kind = "call" /\ said[j].at = said[i].at
    /\ upstream = "chat" =>
          /\ \A i \in DOMAIN said : /\ said[i].kind # "block"
                                    /\ said[i].kind \in {"text", "thinking"} => said[i].at = 0
          /\ \A n \in 0 .. Answers!Blocks - 1 :
                \E i \in DOMAIN said : said[i].kind = "call" /\ said[i].at = n

\* The places where the choice that is stored was told of a piece of the kind.
Heard(kind) == {i \in DOMAIN said : Answers!Told(i) /\ said[i].kind = kind}

\* The first choice is the one that is stored, and holds what it was told.
AnswerInv ==
    /\ choices \in Seq([index : Nat, answer : AnswerSet])
    /\ choices = <<>> <=> said = <<>>
    /\ choices # <<>> => choices[1].index = 0
    /\ Answers!Lists(Answers!Completion.text, Heard("text"))
    /\ Answers!Lists(Answers!Completion.thinking, Heard("thinking"))
    /\ Answers!Lists([k \in DOMAIN Answers!Completion.tools |-> Answers!Completion.tools[k].at],
                     {said[i].at : i \in Heard("call")})
    /\ \A k \in DOMAIN Answers!Completion.tools :
          Answers!Lists(Answers!Completion.tools[k].args,
                        {i \in Heard("tool") : said[i].at = Answers!Completion.tools[k].at})
    /\ end = "whole" => IF stored = <<>> THEN Answers!Completion = Answers!Silence
                                         ELSE stored[1] = Answers!Completion

\* One event of the upstream: what it says and the chunk made of it.
Speech(kind, at, chunk) ==
    /\ Answers!Says(kind, at) /\ Answers!Relayed(chunk) /\ kind \in Kinds /\ at \in Nat
    /\ \/ /\ kind = "block" /\ upstream = "anthropic" /\ at = Answers!Blocks
          /\ chunk = Answers!Chunk(0, "role", 0, FALSE, <<>>)
       \/ /\ kind = "call" /\ at = Answers!Blocks
          /\ chunk = Answers!Chunk(0, "tool", at, TRUE, <<>>)
       \/ /\ kind \in {"text", "thinking", "tool"}
          /\ chunk = Answers!Chunk(IF upstream = "anthropic" /\ client # "anthropic" THEN at ELSE 0,
                                   kind, at, FALSE, <<Answers!Piece>>)
          /\ kind = "tool" => \E j \in DOMAIN said : said[j].kind = "call" /\ said[j].at = at
          /\ upstream = "chat" /\ kind # "tool" => at = 0
          /\ upstream = "anthropic" => said # <<>>

-----------------------------------------------------------------------------
\* The count of Relay is that of the library.
LEMMA SameCount == \A S : Answers!Cardinality(S) = Cardinality(S)
BY DEF Answers!Cardinality, Cardinality, Answers!IsFiniteSet, IsFiniteSet

LEMMA SaidType ==
    ASSUME SaidInv
    PROVE  /\ Len(said) \in Nat /\ DOMAIN said = 1 .. Len(said)
           /\ \A i \in DOMAIN said : said[i].kind \in Kinds /\ said[i].at \in Nat
           /\ said # <<>> => Len(said) \in DOMAIN said
<1>1. said \in Seq([kind : Kinds, at : Nat])
  BY DEF SaidInv
<1>2. Len(said) \in Nat /\ DOMAIN said = 1 .. Len(said)
  BY <1>1
<1>3. \A i \in DOMAIN said : said[i] \in [kind : Kinds, at : Nat]
  BY <1>1, <1>2, ElementOfSeq
<1>4. said # <<>> => Len(said) # 0
  BY <1>1, EmptySeq
<1> QED
  BY <1>2, <1>3, <1>4

LEMMA BlocksNat ==
    ASSUME SaidInv
    PROVE  /\ IsFiniteSet({i \in DOMAIN said : said[i].kind \in {"block", "call"}})
           /\ Answers!Blocks \in Nat
<1>1. Len(said) \in Nat /\ DOMAIN said = 1 .. Len(said)
  BY DEF SaidInv
<1>2. IsFiniteSet(DOMAIN said)
  BY <1>1, FS_Interval
<1>3. {i \in DOMAIN said : said[i].kind \in {"block", "call"}} \in SUBSET (DOMAIN said)
  OBVIOUS
<1>4. IsFiniteSet({i \in DOMAIN said : said[i].kind \in {"block", "call"}})
  BY <1>2, <1>3, FS_Subset
<1> QED
  BY <1>4, SameCount, FS_CardinalityType DEF Answers!Blocks

\* What an event adds to what was said.
LEMMA SaysView ==
    ASSUME SaidInv, NEW kind \in Kinds, NEW at \in Nat, Answers!Says(kind, at)
    PROVE  LET n == Len(said) + 1
           IN  /\ said' \in Seq([kind : Kinds, at : Nat]) /\ n \in Nat /\ end = "no"
               /\ DOMAIN said = 1 .. Len(said) /\ DOMAIN said' = 1 .. n
               /\ DOMAIN said' = DOMAIN said \cup {n} /\ n \notin DOMAIN said
               /\ said' # <<>>
               /\ \A i \in DOMAIN said : said'[i] = said[i] /\ i < n
               /\ said'[n].kind = kind /\ said'[n].at = at
               /\ Answers!Blocks' = IF kind \in {"block", "call"} THEN Answers!Blocks + 1 ELSE Answers!Blocks
<1> DEFINE n == Len(said) + 1
           old == {i \in DOMAIN said : said[i].kind \in {"block", "call"}}
           new == {i \in DOMAIN said' : said'[i].kind \in {"block", "call"}}
<1>1. said' = Append(said, [kind |-> kind, at |-> at]) /\ end = "no"
  BY DEF Answers!Says
<1>2. said \in Seq([kind : Kinds, at : Nat]) /\ [kind |-> kind, at |-> at] \in [kind : Kinds, at : Nat]
  BY DEF SaidInv
<1>3. /\ said' \in Seq([kind : Kinds, at : Nat]) /\ n \in Nat
      /\ DOMAIN said = 1 .. Len(said) /\ DOMAIN said' = 1 .. n
      /\ \A i \in DOMAIN said : said'[i] = said[i]
      /\ said'[n] = [kind |-> kind, at |-> at]
  BY <1>1, <1>2, AppendProperties
<1>4. DOMAIN said' = DOMAIN said \cup {n} /\ n \notin DOMAIN said /\ \A i \in DOMAIN said : i < n
  BY <1>3
<1>5. said' # <<>>
  BY <1>1, <1>2, AppendProperties
<1>6. new = IF kind \in {"block", "call"} THEN old \cup {n} ELSE old
  BY <1>3, <1>4
<1>7. IsFiniteSet(old) /\ n \notin old
  BY <1>4, BlocksNat
<1> HIDE DEF old, new, n
<1>8. Cardinality(new) = IF kind \in {"block", "call"} THEN Cardinality(old) + 1 ELSE Cardinality(old)
  BY <1>6, <1>7, FS_AddElement
<1> USE DEF old, new
<1>9. Answers!Blocks' = Cardinality(new) /\ Answers!Blocks = Cardinality(old)
  BY SameCount DEF Answers!Blocks
<1> HIDE DEF old, new
<1>10. Answers!Blocks' = IF kind \in {"block", "call"} THEN Answers!Blocks + 1 ELSE Answers!Blocks
  BY <1>8, <1>9
<1> USE DEF n
<1> QED
  BY <1>1, <1>3, <1>4, <1>5, <1>10

\* Every step is an event of the upstream, or the end.
LEMMA SpeechKinds ==
    ASSUME SaidInv, Answers!Next
    PROVE  \/ \E kind \in Kinds, at \in Nat : \E chunk : Speech(kind, at, chunk)
           \/ Answers!StreamEnds \/ Answers!StreamBreaks
<1>1. CASE Answers!BlockStarts
  <2>1. Speech("block", Answers!Blocks, Answers!Chunk(0, "role", 0, FALSE, <<>>))
    BY <1>1, BlocksNat DEF Answers!BlockStarts, Speech, Kinds
  <2> QED
    BY <2>1, BlocksNat DEF Kinds
<1>2. CASE Answers!CallStarts
  <2>1. Speech("call", Answers!Blocks, Answers!Chunk(0, "tool", Answers!Blocks, TRUE, <<>>))
    BY <1>2, BlocksNat DEF Answers!CallStarts, Speech, Kinds
  <2> QED
    BY <2>1, BlocksNat DEF Kinds
<1>3. ASSUME NEW kind \in {"text", "thinking", "tool"}, Answers!AnthropicDelta(kind)
      PROVE  \E at \in Nat : \E chunk : Speech(kind, at, chunk)
  <2> DEFINE last == said[Len(said)]
             chunk == Answers!Chunk(IF upstream = "anthropic" /\ client # "anthropic" THEN last.at ELSE 0,
                                    kind, last.at, FALSE, <<Answers!Piece>>)
  <2>1. /\ upstream = "anthropic" /\ said # <<>> /\ Answers!Fits(kind, last)
        /\ Answers!Says(kind, last.at) /\ Answers!Relayed(chunk)
    BY <1>3 DEF Answers!AnthropicDelta, Answers!Last
  <2>2. Len(said) \in DOMAIN said /\ last.at \in Nat
    BY <2>1, SaidType
  <2>3. kind = "tool" => \E j \in DOMAIN said : said[j].kind = "call" /\ said[j].at = last.at
    BY <2>1, <2>2 DEF Answers!Fits, SaidInv
  <2> HIDE DEF last, chunk
  <2>4. Speech(kind, last.at, chunk)
    BY <2>1, <2>2, <2>3 DEF Speech, Kinds, chunk
  <2> QED
    BY <2>2, <2>4
<1>4. ASSUME NEW kind \in {"text", "thinking", "tool"}, Answers!ChatDelta(kind)
      PROVE  \E at \in Nat : \E chunk : Speech(kind, at, chunk)
  <2>1. PICK tool \in IF kind = "tool" THEN 0 .. Answers!Blocks - 1 ELSE {0} :
           /\ Answers!Says(kind, tool)
           /\ Answers!Relayed(Answers!Chunk(0, kind, tool, FALSE, <<Answers!Piece>>))
    BY <1>4 DEF Answers!ChatDelta
  <2>2. upstream = "chat" /\ tool \in Nat /\ (kind # "tool" => tool = 0)
    BY <1>4, <2>1, BlocksNat DEF Answers!ChatDelta
  <2>3. kind = "tool" => \E j \in DOMAIN said : said[j].kind = "call" /\ said[j].at = tool
    BY <2>1, <2>2 DEF SaidInv
  <2>4. Speech(kind, tool, Answers!Chunk(0, kind, tool, FALSE, <<Answers!Piece>>))
    BY <2>1, <2>2, <2>3 DEF Speech, Kinds
  <2> QED
    BY <2>2, <2>4
<1> QED
  BY <1>1, <1>2, <1>3, <1>4 DEF Answers!Next, Kinds

LEMMA SaidStep ==
    ASSUME SaidInv, NEW kind \in Kinds, NEW at \in Nat, NEW chunk, Speech(kind, at, chunk)
    PROVE  SaidInv'
<1> DEFINE n == Len(said) + 1
<1>1. /\ said' \in Seq([kind : Kinds, at : Nat]) /\ n \in Nat
      /\ DOMAIN said' = DOMAIN said \cup {n} /\ n \notin DOMAIN said
      /\ \A i \in DOMAIN said : said'[i] = said[i] /\ i < n
      /\ said'[n].kind = kind /\ said'[n].at = at
      /\ Answers!Blocks' = IF kind \in {"block", "call"} THEN Answers!Blocks + 1 ELSE Answers!Blocks
  BY SaysView DEF Speech
<1>2. Answers!Blocks \in Nat /\ UNCHANGED <<upstream, client>>
  BY BlocksNat DEF Speech, Answers!Relayed
<1>3. \A i \in DOMAIN said : said[i].at \in Nat
  BY SaidType
<1> HIDE DEF n
<1>4. ASSUME NEW i \in DOMAIN said', said'[i].kind \in {"block", "call"}
      PROVE  said'[i].at < Answers!Blocks'
  <2>1. CASE i = n
    <3>1. kind \in {"block", "call"}
      BY <1>1, <1>4, <2>1
    <3>2. at = Answers!Blocks
      BY <3>1 DEF Speech
    <3> QED
      BY <1>1, <1>2, <2>1, <3>1, <3>2
  <2>2. CASE i \in DOMAIN said
    <3>1. said[i].at < Answers!Blocks /\ said'[i] = said[i]
      BY <1>1, <1>4, <2>2 DEF SaidInv
    <3> QED
      BY <1>1, <1>2, <1>3, <2>2, <3>1
  <2> QED
    BY <1>1, <2>1, <2>2
<1>5. ASSUME NEW i \in DOMAIN said', said'[i].kind = "tool"
      PROVE  \E j \in DOMAIN said' : said'[j].kind = "call" /\ said'[j].at = said'[i].at
  <2>1. PICK j \in DOMAIN said : said[j].kind = "call" /\ said[j].at = said'[i].at
    <3>1. CASE i = n
      <4>1. kind = "tool" /\ said'[i].at = at
        BY <1>1, <1>5, <3>1
      <4> QED
        BY <4>1 DEF Speech
    <3>2. CASE i \in DOMAIN said
      <4>1. said[i].kind = "tool" /\ said'[i].at = said[i].at
        BY <1>1, <1>5, <3>2
      <4> QED
        BY <3>2, <4>1 DEF SaidInv
    <3> QED
      BY <1>1, <3>1, <3>2
  <2> QED
    BY <1>1, <2>1
<1>6. ASSUME upstream = "chat"
      PROVE  /\ \A i \in DOMAIN said' : /\ said'[i].kind # "block"
                                        /\ said'[i].kind \in {"text", "thinking"} => said'[i].at = 0
             /\ \A m \in 0 .. Answers!Blocks' - 1 :
                  \E i \in DOMAIN said' : said'[i].kind = "call" /\ said'[i].at = m
  <2>1. kind # "block" /\ (kind \in {"text", "thinking"} => at = 0)
    BY <1>6 DEF Speech
  <2>2. \A i \in DOMAIN said' : /\ said'[i].kind # "block"
                                /\ said'[i].kind \in {"text", "thinking"} => said'[i].at = 0
    BY <1>1, <1>6, <2>1 DEF SaidInv
  <2>3. ASSUME NEW m \in 0 .. Answers!Blocks' - 1
        PROVE  \E i \in DOMAIN said' : said'[i].kind = "call" /\ said'[i].at = m
    <3>1. CASE m \in 0 .. Answers!Blocks - 1
      <4>1. PICK i \in DOMAIN said : said[i].kind = "call" /\ said[i].at = m
        BY <1>6, <3>1 DEF SaidInv
      <4> QED
        BY <1>1, <4>1
    <3>2. CASE m \notin 0 .. Answers!Blocks - 1
      <4>1. kind \in {"block", "call"} /\ m = Answers!Blocks
        BY <1>1, <1>2, <2>3, <3>2
      <4>2. kind = "call" /\ at = m
        BY <2>1, <4>1 DEF Speech
      <4> QED
        BY <1>1, <4>2
    <3> QED
      BY <3>1, <3>2
  <2> QED
    BY <2>2, <2>3
<1> QED
  BY <1>1, <1>2, <1>4, <1>5, <1>6 DEF SaidInv

-----------------------------------------------------------------------------
\* A number greater than all lengthens the list.
LEMMA ListsAppend ==
    ASSUME NEW s \in Seq(Nat), NEW S, NEW n \in Nat, Answers!Lists(s, S), \A x \in S : x < n
    PROVE  Answers!Lists(s \o <<n>>, S \cup {n})
<1> DEFINE t == s \o <<n>>
<1>1. /\ t \in Seq(Nat) /\ Len(s) \in Nat /\ DOMAIN s = 1 .. Len(s) /\ DOMAIN t = 1 .. Len(s) + 1
      /\ \A i \in DOMAIN s : t[i] = s[i] /\ s[i] \in Nat
      /\ t[Len(s) + 1] = n
  OBVIOUS
<1>2. /\ \A i \in DOMAIN s : s[i] \in S
      /\ \A x \in S : \E i \in DOMAIN s : s[i] = x
      /\ \A i, j \in DOMAIN s : i < j => s[i] < s[j]
  BY DEF Answers!Lists, Answers!ToSet
<1>3. \A i \in DOMAIN t : i \in DOMAIN s \/ i = Len(s) + 1
  BY <1>1
<1> HIDE DEF t
<1>4. {t[i] : i \in DOMAIN t} = S \cup {n}
  <2>1. \A i \in DOMAIN t : t[i] \in S \cup {n}
    BY <1>1, <1>2, <1>3
  <2>2. ASSUME NEW x \in S \cup {n}
        PROVE  \E i \in DOMAIN t : t[i] = x
    <3>1. CASE x \in S
      <4>1. PICK i \in DOMAIN s : s[i] = x
        BY <1>2, <3>1
      <4> QED
        BY <1>1, <4>1
    <3>2. CASE x = n
      BY <1>1, <3>2
    <3> QED
      BY <3>1, <3>2
  <2> QED
    BY <2>1, <2>2
<1>5. ASSUME NEW i \in DOMAIN t, NEW j \in DOMAIN t, i < j
      PROVE  t[i] < t[j]
  <2>1. i \in DOMAIN s /\ t[i] = s[i] /\ t[i] \in S
    BY <1>1, <1>2, <1>5
  <2>2. CASE j \in DOMAIN s
    BY <1>1, <1>2, <1>5, <2>1, <2>2
  <2>3. CASE j = Len(s) + 1
    BY <1>1, <2>1, <2>3
  <2> QED
    BY <1>3, <2>2, <2>3
<1>6. Answers!Lists(t, S \cup {n})
  BY <1>4, <1>5 DEF Answers!Lists, Answers!ToSet
<1> QED
  BY <1>6 DEF t

\* What a chunk makes of the calls.
LEMMA CallView ==
    ASSUME NEW tools \in Seq(CallSet), NEW chunk, chunk.tool \in Nat, chunk.args \in Seq(Nat)
    PROVE  LET more == Answers!MergeCall(tools, chunk)
               known == \E i \in DOMAIN tools : tools[i].at = chunk.tool
           IN  /\ more \in Seq(CallSet)
               /\ known => DOMAIN more = DOMAIN tools
               /\ ~known => /\ DOMAIN more = DOMAIN tools \cup {Len(tools) + 1}
                            /\ more[Len(tools) + 1] = [at |-> chunk.tool, args |-> <<>> \o chunk.args]
               /\ \A i \in DOMAIN tools :
                     more[i] = IF tools[i].at = chunk.tool
                               THEN [at |-> tools[i].at, args |-> tools[i].args \o chunk.args]
                               ELSE tools[i]
<1> DEFINE new == [at |-> chunk.tool, args |-> <<>>]
           known == \E i \in DOMAIN tools : tools[i].at = chunk.tool
           all == IF known THEN tools ELSE Append(tools, new)
           grown(c) == IF c.at = chunk.tool THEN [c EXCEPT !.args = @ \o chunk.args] ELSE c
           more == [i \in DOMAIN all |-> grown(all[i])]
<1>1. Answers!MergeCall(tools, chunk) = more
  BY DEF Answers!MergeCall
<1>2. new \in CallSet
  BY DEF CallSet
<1>3. Append(tools, new) \in Seq(CallSet) /\ all \in Seq(CallSet)
  BY <1>2
<1>4. /\ Len(tools) \in Nat /\ DOMAIN tools = 1 .. Len(tools) /\ DOMAIN all = 1 .. Len(all) /\ Len(all) \in Nat
      /\ known => DOMAIN all = DOMAIN tools
      /\ ~known => DOMAIN all = DOMAIN tools \cup {Len(tools) + 1} /\ all[Len(tools) + 1] = new
      /\ \A i \in DOMAIN tools : all[i] = tools[i]
  BY <1>2, <1>3, AppendProperties
<1>5. \A c \in CallSet : /\ grown(c) \in CallSet
                         /\ grown(c) = IF c.at = chunk.tool THEN [at |-> c.at, args |-> c.args \o chunk.args] ELSE c
  <2> SUFFICES ASSUME NEW c \in CallSet
               PROVE  /\ grown(c) \in CallSet
                      /\ grown(c) = IF c.at = chunk.tool THEN [at |-> c.at, args |-> c.args \o chunk.args]
                                    ELSE c
    OBVIOUS
  <2>1. c.at \in Nat /\ c.args \in Seq(Nat) /\ c = [at |-> c.at, args |-> c.args]
    BY DEF CallSet
  <2>2. c.args \o chunk.args \in Seq(Nat)
    BY <2>1
  <2>3. \A x : [c EXCEPT !.args = x] = [at |-> c.at, args |-> x]
    BY DEF CallSet
  <2>4. [c EXCEPT !.args = @ \o chunk.args] = [at |-> c.at, args |-> c.args \o chunk.args]
    BY <2>3
  <2> QED
    BY <2>1, <2>2, <2>4 DEF CallSet
<1>6. \A i \in DOMAIN all : all[i] \in CallSet
  BY <1>3, <1>4, ElementOfSeq
<1> HIDE DEF all, grown
<1>7. more \in Seq(CallSet)
  <2>1. \A i \in 1 .. Len(all) : grown(all[i]) \in CallSet
    BY <1>4, <1>5, <1>6
  <2>2. [i \in 1 .. Len(all) |-> grown(all[i])] \in [1 .. Len(all) -> CallSet]
    BY <2>1
  <2>3. more = [i \in 1 .. Len(all) |-> grown(all[i])]
    BY <1>4
  <2>4. more \in UNION {[1 .. n -> CallSet] : n \in Nat}
    BY <1>4, <2>2, <2>3
  <2> QED
    BY <2>4, SeqDef
<1>8. grown(new) = [at |-> chunk.tool, args |-> <<>> \o chunk.args]
  BY <1>2, <1>5
<1>9. \A i \in DOMAIN tools : tools[i] \in CallSet
  BY <1>4, ElementOfSeq
<1>10. \A i \in DOMAIN tools : more[i] = IF tools[i].at = chunk.tool
                               THEN [at |-> tools[i].at, args |-> tools[i].args \o chunk.args]
                               ELSE tools[i]
  BY <1>4, <1>5, <1>9
<1>11. ~known => more[Len(tools) + 1] = [at |-> chunk.tool, args |-> <<>> \o chunk.args]
  BY <1>4, <1>8
<1> QED
  BY <1>1, <1>4, <1>7, <1>10, <1>11

\* What a chunk makes of an answer is an answer.
LEMMA DeltaType ==
    ASSUME NEW answer \in AnswerSet, NEW chunk, chunk.tool \in Nat, chunk.args \in Seq(Nat)
    PROVE  Answers!MergeDelta(answer, chunk) \in AnswerSet
<1>1. Answers!MergeCall(answer.tools, chunk) \in Seq(CallSet)
  BY CallView DEF AnswerSet
<1>2. /\ answer.text \in Seq(Nat) /\ answer.thinking \in Seq(Nat) /\ answer.tools \in Seq(CallSet)
      /\ answer.text \o chunk.args \in Seq(Nat) /\ answer.thinking \o chunk.args \in Seq(Nat)
      /\ answer = [text |-> answer.text, thinking |-> answer.thinking, tools |-> answer.tools]
  BY DEF AnswerSet
<1>3. /\ [answer EXCEPT !.text = @ \o chunk.args] \in AnswerSet
      /\ [answer EXCEPT !.thinking = @ \o chunk.args] \in AnswerSet
      /\ [answer EXCEPT !.tools = Answers!MergeCall(@, chunk)] \in AnswerSet
  BY <1>1, <1>2 DEF AnswerSet
<1> QED
  BY <1>3 DEF Answers!MergeDelta

\* What a chunk makes of the choices, and of the first.
LEMMA AddView ==
    ASSUME NEW chunk, choices \in Seq([index : Nat, answer : AnswerSet]), choices' = Answers!Add(chunk),
           choices # <<>> => choices[1].index = 0, choices = <<>> => chunk.choice = 0,
           chunk.choice \in Nat, chunk.tool \in Nat, chunk.args \in Seq(Nat)
    PROVE  /\ choices' \in Seq([index : Nat, answer : AnswerSet]) /\ choices' # <<>> /\ choices'[1].index = 0
           /\ Answers!Completion' = IF chunk.choice = 0 THEN Answers!MergeDelta(Answers!Completion, chunk)
                                    ELSE Answers!Completion
<1> DEFINE Choice == [index : Nat, answer : AnswerSet]
           new == [index |-> chunk.choice, answer |-> Answers!Silence]
           known == \E i \in DOMAIN choices : choices[i].index = chunk.choice
           all == IF known THEN choices ELSE Append(choices, new)
           grown(c) == IF c.index = chunk.choice THEN [c EXCEPT !.answer = Answers!MergeDelta(@, chunk)] ELSE c
<1>1. choices' = [i \in DOMAIN all |-> grown(all[i])]
  BY DEF Answers!Add
<1>2. new \in Choice
  BY DEF AnswerSet, Answers!Silence
<1>3. /\ Append(choices, new) \in Seq(Choice) /\ Len(choices) \in Nat /\ DOMAIN choices = 1 .. Len(choices)
      /\ DOMAIN Append(choices, new) = 1 .. Len(choices) + 1
      /\ Append(choices, new)[Len(choices) + 1] = new
      /\ \A i \in DOMAIN choices : Append(choices, new)[i] = choices[i]
  BY <1>2, AppendProperties
<1>4. choices # <<>> => Len(choices) # 0
  BY EmptySeq
<1>5. /\ all \in Seq(Choice) /\ Len(all) \in Nat /\ DOMAIN all = 1 .. Len(all) /\ Len(all) # 0
      /\ all[1] = IF choices = <<>> THEN new ELSE choices[1]
  <2>1. CASE choices = <<>>
    <3>1. Len(choices) = 0 /\ ~known /\ all = Append(choices, new)
      BY <1>3, <2>1
    <3> QED
      BY <1>3, <2>1, <3>1
  <2>2. CASE choices # <<>>
    <3>1. all \in Seq(Choice) /\ (all = choices \/ all = Append(choices, new))
      BY <1>3
    <3>2. 1 \in DOMAIN choices
      BY <1>3, <1>4, <2>2
    <3> HIDE DEF all
    <3>3. CASE all = choices
      BY <1>3, <1>4, <2>2, <3>1, <3>3
    <3>4. CASE all = Append(choices, new)
      BY <1>3, <2>2, <3>1, <3>2, <3>4
    <3> QED
      BY <3>1, <3>3, <3>4
  <2> QED
    BY <2>1, <2>2
<1>6. all[1] \in Choice /\ all[1].index = 0
  <2>1. choices = <<>> => new.index = 0
    OBVIOUS
  <2>2. 1 \in 1 .. Len(all)
    BY <1>5
  <2> HIDE DEF all, new, Choice
  <2>3. all[1] \in Choice
    BY <1>5, <2>2, ElementOfSeq
  <2> QED
    BY <1>5, <2>1, <2>3
<1> HIDE DEF all
<1>7. \A c \in Choice : /\ grown(c) \in Choice /\ grown(c).index = c.index
                        /\ grown(c).answer = IF c.index = chunk.choice THEN Answers!MergeDelta(c.answer, chunk)
                                             ELSE c.answer
  BY DeltaType
<1>8. \A i \in DOMAIN all : all[i] \in Choice
  BY <1>5, ElementOfSeq
<1>9. all[1].answer = Answers!Completion
  BY <1>5 DEF Answers!Completion
<1> HIDE DEF all, grown, Choice
<1>10. choices' \in Seq(Choice) /\ choices' # <<>> /\ choices'[1] = grown(all[1])
  <2>1. choices' \in Seq(Choice) /\ choices'[1] = grown(all[1])
    BY <1>1, <1>5, <1>7, <1>8
  <2>2. 1 \in DOMAIN choices'
    BY <1>1, <1>5
  <2> QED
    BY <2>1, <2>2, EmptySeq
<1>11. Answers!Completion' = grown(all[1]).answer
  BY <1>10 DEF Answers!Completion
<1> USE DEF Choice
<1> QED
  BY <1>6, <1>7, <1>9, <1>10, <1>11
-----------------------------------------------------------------------------
\* What an event adds to what was heard.
LEMMA HeardStep ==
    ASSUME SaidInv, NEW kind \in Kinds, NEW at \in Nat, NEW chunk, Speech(kind, at, chunk)
    PROVE  LET n == Len(said) + 1
               told == upstream = "anthropic" /\ client # "anthropic" => at = 0 \/ kind = "call"
           IN  /\ n \in Nat /\ said' # <<>>
               /\ \A k \in Kinds : Heard(k)' = IF k = kind /\ told THEN Heard(k) \cup {n} ELSE Heard(k)
               /\ \A k \in Kinds : \A i \in Heard(k) : i < n /\ said'[i] = said[i]
               /\ said'[n].at = at
<1> DEFINE n == Len(said) + 1
           told == upstream = "anthropic" /\ client # "anthropic" => at = 0 \/ kind = "call"
<1>1. /\ n \in Nat /\ said' # <<>>
      /\ DOMAIN said' = DOMAIN said \cup {n} /\ n \notin DOMAIN said
      /\ \A i \in DOMAIN said : said'[i] = said[i] /\ i < n
      /\ said'[n].kind = kind /\ said'[n].at = at
  BY SaysView DEF Speech
<1>2. UNCHANGED <<upstream, client>>
  BY DEF Speech, Answers!Relayed
<1> HIDE DEF n
<1>3. \A i \in DOMAIN said : Answers!Told(i)' <=> Answers!Told(i)
  BY <1>1, <1>2 DEF Answers!Told
<1>5. ASSUME NEW k \in Kinds
      PROVE  Heard(k)' = IF k = kind /\ told THEN Heard(k) \cup {n} ELSE Heard(k)
  <2>1. ASSUME NEW i \in DOMAIN said
        PROVE  i \in Heard(k)' <=> i \in Heard(k)
    BY <1>1, <1>3 DEF Heard
  <2>2. n \in Heard(k)' <=> (k = kind /\ told)
    BY <1>1, <1>2 DEF Heard, Answers!Told
  <2>3. Heard(k)' \subseteq DOMAIN said' /\ Heard(k) \subseteq DOMAIN said
    BY DEF Heard
  <2> HIDE DEF told
  <2> QED
    BY <1>1, <2>1, <2>2, <2>3
<1>6. \A k \in Kinds : \A i \in Heard(k) : i < n /\ said'[i] = said[i]
  BY <1>1 DEF Heard
<1> USE DEF n
<1> QED
  BY <1>1, <1>5, <1>6

\* What is stored, and that it is an answer.
LEMMA CompletionType ==
    ASSUME AnswerInv
    PROVE  /\ Answers!Completion \in AnswerSet
           /\ Answers!Completion.text \in Seq(Nat) /\ Answers!Completion.thinking \in Seq(Nat)
           /\ Answers!Completion.tools \in Seq(CallSet)
<1>1. choices # <<>> => choices[1] \in [index : Nat, answer : AnswerSet]
  <2>1. choices \in Seq([index : Nat, answer : AnswerSet])
    BY DEF AnswerInv
  <2>2. choices # <<>> => 1 \in 1 .. Len(choices)
    BY <2>1, EmptySeq
  <2> QED
    BY <2>1, <2>2, ElementOfSeq
<1>2. Answers!Silence \in AnswerSet
  BY DEF Answers!Silence, AnswerSet
<1>3. Answers!Completion \in AnswerSet
  BY <1>1, <1>2 DEF Answers!Completion
<1> QED
  BY <1>3 DEF AnswerSet

\* What becomes of the choice that is stored.
LEMMA CompletionStep ==
    ASSUME SaidInv, AnswerInv, NEW kind \in Kinds, NEW at \in Nat, NEW chunk, Speech(kind, at, chunk)
    PROVE  /\ choices' \in Seq([index : Nat, answer : AnswerSet]) /\ choices' # <<>> /\ choices'[1].index = 0
           /\ Answers!Completion' = IF chunk.choice = 0 THEN Answers!MergeDelta(Answers!Completion, chunk)
                                    ELSE Answers!Completion
           /\ chunk.tool \in Nat /\ chunk.args \in Seq(Nat)
<1>1. chunk.choice \in Nat /\ chunk.tool \in Nat
  <2>1. Answers!Blocks \in Nat
    BY BlocksNat
  <2>2. \E c \in {0, at}, t \in {0, at} : \E k, named, args : chunk = Answers!Chunk(c, k, t, named, args)
    BY DEF Speech
  <2> QED
    BY <2>1, <2>2 DEF Answers!Chunk
<1>2. chunk.args \in Seq(Nat)
  <2>1. Answers!Piece \in Nat
    BY SaidType DEF Answers!Piece
  <2>2. <<>> \in Seq(Nat) /\ <<Answers!Piece>> \in Seq(Nat)
    BY <2>1
  <2>3. chunk.args = <<>> \/ chunk.args = <<Answers!Piece>>
    BY DEF Speech, Answers!Chunk
  <2> QED
    BY <2>2, <2>3
<1>3. choices = <<>> => chunk.choice = 0
  <2>1. choices = <<>> => said = <<>>
    BY DEF AnswerInv
  <2> QED
    BY <2>1 DEF Speech, Answers!Chunk
<1>4. /\ choices \in Seq([index : Nat, answer : AnswerSet]) /\ choices' = Answers!Add(chunk)
      /\ choices # <<>> => choices[1].index = 0
  BY DEF AnswerInv, Speech, Answers!Relayed
<1> QED
  BY <1>1, <1>2, <1>3, <1>4, AddView
\* The choice that is stored, part by part.
LEMMA ChoiceStep ==
    ASSUME SaidInv, AnswerInv, NEW kind \in Kinds, NEW at \in Nat, NEW chunk, Speech(kind, at, chunk)
    PROVE  LET n == Len(said) + 1
               told == upstream = "anthropic" /\ client # "anthropic" => at = 0 \/ kind = "call"
               c == Answers!Completion
           IN  /\ Answers!Completion'.text = IF kind = "text" /\ told THEN c.text \o <<n>> ELSE c.text
               /\ Answers!Completion'.thinking =
                     IF kind = "thinking" /\ told THEN c.thinking \o <<n>> ELSE c.thinking
               /\ Answers!Completion'.tools =
                     IF kind \in {"call", "tool"} /\ told THEN Answers!MergeCall(c.tools, chunk) ELSE c.tools
               /\ kind \in {"call", "tool"} =>
                     chunk.tool = at /\ chunk.args = IF kind = "call" THEN <<>> ELSE <<n>>
<1> DEFINE n == Len(said) + 1
           told == upstream = "anthropic" /\ client # "anthropic" => at = 0 \/ kind = "call"
           c == Answers!Completion
<1>1. Answers!Completion' = IF chunk.choice = 0 THEN Answers!MergeDelta(c, chunk) ELSE c
  BY CompletionStep
<1>2. c \in AnswerSet
  BY CompletionType
<1>3. \A x : /\ [c EXCEPT !.text = x] = [text |-> x, thinking |-> c.thinking, tools |-> c.tools]
             /\ [c EXCEPT !.thinking = x] = [text |-> c.text, thinking |-> x, tools |-> c.tools]
             /\ [c EXCEPT !.tools = x] = [text |-> c.text, thinking |-> c.thinking, tools |-> x]
  BY <1>2 DEF AnswerSet
<1> HIDE DEF c
<1>4. CASE kind = "block"
  <2>1. chunk.choice = 0 /\ chunk.kind = "role"
    BY <1>4 DEF Speech, Answers!Chunk
  <2>2. Answers!Completion' = c
    BY <1>1, <2>1 DEF Answers!MergeDelta
  <2> QED
    BY <1>4, <2>2 DEF c
<1>5. CASE kind = "call"
  <2>1. chunk.choice = 0 /\ chunk.kind = "tool" /\ chunk.tool = at /\ chunk.args = <<>>
    BY <1>5 DEF Speech, Answers!Chunk
  <2>2. Answers!Completion' = [c EXCEPT !.tools = Answers!MergeCall(@, chunk)]
    BY <1>1, <2>1 DEF Answers!MergeDelta
  <2> QED
    BY <1>3, <1>5, <2>1, <2>2 DEF c
<1>6. CASE kind \in {"text", "thinking", "tool"}
  <2>1. /\ chunk.choice = IF upstream = "anthropic" /\ client # "anthropic" THEN at ELSE 0
        /\ chunk.kind = kind /\ chunk.tool = at /\ chunk.args = <<n>>
    BY <1>6 DEF Speech, Answers!Chunk, Answers!Piece
  <2>2. told <=> chunk.choice = 0
    BY <1>6, <2>1
  <2> HIDE DEF told, n
  <2>3. CASE ~told
    BY <1>1, <1>6, <2>1, <2>2, <2>3 DEF c, told, n
  <2>4. CASE told /\ kind = "text"
    <3>1. Answers!Completion' = [c EXCEPT !.text = @ \o <<n>>]
      BY <1>1, <2>1, <2>2, <2>4 DEF Answers!MergeDelta
    <3> QED
      BY <1>3, <2>4, <3>1 DEF c, told, n
  <2>5. CASE told /\ kind = "thinking"
    <3>1. Answers!Completion' = [c EXCEPT !.thinking = @ \o <<n>>]
      BY <1>1, <2>1, <2>2, <2>5 DEF Answers!MergeDelta
    <3> QED
      BY <1>3, <2>5, <3>1 DEF c, told, n
  <2>6. CASE told /\ kind = "tool"
    <3>1. Answers!Completion' = [c EXCEPT !.tools = Answers!MergeCall(@, chunk)]
      BY <1>1, <2>1, <2>2, <2>6 DEF Answers!MergeDelta
    <3> QED
      BY <1>3, <2>1, <2>6, <3>1 DEF c, told, n
  <2> QED
    BY <1>6, <2>3, <2>4, <2>5, <2>6
<1> QED
  BY <1>4, <1>5, <1>6 DEF Kinds

\* The calls that begun are numbered below the next, and each has its list of arguments.
LEMMA ToolsStep ==
    ASSUME SaidInv, AnswerInv, NEW kind \in Kinds, NEW at \in Nat, NEW chunk, Speech(kind, at, chunk)
    PROVE  /\ Answers!Lists([k \in DOMAIN Answers!Completion.tools |-> Answers!Completion.tools[k].at],
                            {said[i].at : i \in Heard("call")})'
           /\ (\A k \in DOMAIN Answers!Completion.tools :
                 Answers!Lists(Answers!Completion.tools[k].args,
                               {i \in Heard("tool") : said[i].at = Answers!Completion.tools[k].at}))'
<1> DEFINE n == Len(said) + 1
           told == upstream = "anthropic" /\ client # "anthropic" => at = 0 \/ kind = "call"
           old == Answers!Completion.tools
           new == Answers!Completion'.tools
           Ats == {said[i].at : i \in Heard("call")}
           Args(m) == {i \in Heard("tool") : said[i].at = m}
           Next(m) == {i \in Heard("tool")' : said'[i].at = m}
<1>1. /\ n \in Nat /\ "call" \in Kinds /\ "tool" \in Kinds
      /\ Heard("call")' = IF kind = "call" THEN Heard("call") \cup {n} ELSE Heard("call")
      /\ Heard("tool")' = IF kind = "tool" /\ told THEN Heard("tool") \cup {n} ELSE Heard("tool")
      /\ \A k \in Kinds : \A i \in Heard(k) : i < n /\ said'[i] = said[i]
      /\ said'[n].at = at
  <2>1. "call" \in Kinds /\ "tool" \in Kinds
    BY DEF Kinds
  <2>2. /\ n \in Nat
        /\ \A k \in Kinds : Heard(k)' = IF k = kind /\ told THEN Heard(k) \cup {n} ELSE Heard(k)
        /\ \A k \in Kinds : \A i \in Heard(k) : i < n /\ said'[i] = said[i]
        /\ said'[n].at = at
    BY HeardStep
  <2> HIDE DEF n
  <2> QED
    BY <2>1, <2>2
<1>2. /\ new = IF kind \in {"call", "tool"} /\ told THEN Answers!MergeCall(old, chunk) ELSE old
      /\ kind \in {"call", "tool"} => chunk.tool = at /\ chunk.args = IF kind = "call" THEN <<>> ELSE <<n>>
  BY ChoiceStep
<1>3. old \in Seq(CallSet) /\ chunk.tool \in Nat /\ chunk.args \in Seq(Nat)
  BY CompletionType, CompletionStep
<1>4. Len(old) \in Nat /\ DOMAIN old = 1 .. Len(old) /\ \A k \in DOMAIN old : old[k] \in CallSet
  BY <1>3, ElementOfSeq
<1>5. /\ Answers!Lists([k \in DOMAIN old |-> old[k].at], Ats)
      /\ \A k \in DOMAIN old : Answers!Lists(old[k].args, Args(old[k].at))
  BY DEF AnswerInv
<1>6. /\ \A k \in DOMAIN old : old[k].at \in Ats
      /\ \A a \in Ats : \E k \in DOMAIN old : old[k].at = a
      /\ \A j, k \in DOMAIN old : j < k => old[j].at < old[k].at
  BY <1>5 DEF Answers!Lists, Answers!ToSet
<1>7. \A m : Next(m) = IF kind = "tool" /\ told /\ m = at THEN Args(m) \cup {n} ELSE Args(m)
  BY <1>1
<1>8. {said'[i].at : i \in Heard("call")'} = IF kind = "call" THEN Ats \cup {at} ELSE Ats
  BY <1>1
<1>9. \A a \in Ats : a \in Nat /\ a < Answers!Blocks
  BY SaidType DEF SaidInv, Heard
<1> HIDE DEF n, told, old, new, Ats
<1>10. CASE kind = "call"
  <2> DEFINE last == Len(old) + 1
  <2>1. at = Answers!Blocks /\ told
    BY <1>10 DEF Speech, told
  <2>2. ~\E k \in DOMAIN old : old[k].at = chunk.tool
    BY <1>2, <1>6, <1>9, <1>10, <2>1, BlocksNat
  <2>3. /\ new = Answers!MergeCall(old, chunk)
        /\ DOMAIN new = DOMAIN old \cup {last} /\ last \notin DOMAIN old /\ \A k \in DOMAIN old : k < last
        /\ new[last] = [at |-> at, args |-> <<>>]
        /\ \A k \in DOMAIN old : new[k] = old[k]
    <3>1. new = Answers!MergeCall(old, chunk) /\ chunk.tool = at /\ chunk.args = <<>>
      BY <1>2, <1>10, <2>1
    <3>2. <<>> \o <<>> = <<>>
      OBVIOUS
    <3>3. /\ DOMAIN Answers!MergeCall(old, chunk) = DOMAIN old \cup {Len(old) + 1}
          /\ Answers!MergeCall(old, chunk)[Len(old) + 1] = [at |-> chunk.tool, args |-> <<>> \o chunk.args]
          /\ \A k \in DOMAIN old :
                Answers!MergeCall(old, chunk)[k] =
                   IF old[k].at = chunk.tool THEN [at |-> old[k].at, args |-> old[k].args \o chunk.args] ELSE old[k]
      BY <1>3, <2>2, CallView
    <3>4. last \notin DOMAIN old /\ \A k \in DOMAIN old : k < last
      BY <1>4
    <3> QED
      BY <2>2, <3>1, <3>2, <3>3, <3>4
  <2> HIDE DEF last
  <2>4. Answers!Lists([k \in DOMAIN new |-> new[k].at], Ats \cup {at})
    <3>1. \A k \in DOMAIN new : new[k].at \in Ats \cup {at}
      BY <1>6, <2>3
    <3>2. \A a \in Ats \cup {at} : \E k \in DOMAIN new : new[k].at = a
      BY <1>6, <2>3
    <3>3. ASSUME NEW j \in DOMAIN new, NEW k \in DOMAIN new, j < k
          PROVE  new[j].at < new[k].at
      <4>1. j \in DOMAIN old
        BY <1>4, <2>3, <3>3 DEF last
      <4>2. CASE k \in DOMAIN old
        BY <1>6, <2>3, <3>3, <4>1, <4>2
      <4>3. CASE k = last
        BY <1>6, <1>9, <2>1, <2>3, <4>1, <4>3
      <4> QED
        BY <2>3, <4>2, <4>3
    <3> QED
      BY <3>1, <3>2, <3>3 DEF Answers!Lists, Answers!ToSet
  <2>5. Args(at) = {}
    <3>1. \A i \in Heard("tool") : said[i].at < Answers!Blocks /\ said[i].at \in Nat
      BY SaidType DEF SaidInv, Heard
    <3> QED
      BY <2>1, <3>1, BlocksNat
  <2>6. Answers!Lists(<<>>, {})
    BY DEF Answers!Lists, Answers!ToSet
  <2> HIDE DEF Args, Next
  <2>7. \A k \in DOMAIN new : Answers!Lists(new[k].args, Next(new[k].at))
    <3>1. Next(at) = {} /\ \A m : Next(m) = Args(m)
      BY <1>7, <1>10, <2>5
    <3>2. new[last].at = at /\ new[last].args = <<>>
      BY <2>3
    <3>3. Answers!Lists(new[last].args, Next(new[last].at))
      BY <2>6, <3>1, <3>2
    <3>4. \A k \in DOMAIN old : Answers!Lists(new[k].args, Next(new[k].at))
      BY <1>5, <2>3, <3>1
    <3> QED
      BY <2>3, <3>3, <3>4
  <2> QED
    BY <1>8, <1>10, <2>4, <2>7 DEF new, Next
<1>11. CASE kind = "tool" /\ told
  <2>1. \E k \in DOMAIN old : old[k].at = chunk.tool
    <3>1. PICK j \in DOMAIN said : said[j].kind = "call" /\ said[j].at = at
      BY <1>11 DEF Speech
    <3>2. j \in Heard("call")
      BY <3>1 DEF Heard, Answers!Told
    <3> QED
      BY <1>2, <1>6, <1>11, <3>1, <3>2 DEF Ats
  <2>2. /\ DOMAIN new = DOMAIN old
        /\ \A k \in DOMAIN old : new[k] = IF old[k].at = at THEN [at |-> at, args |-> old[k].args \o <<n>>]
                                          ELSE old[k]
    <3>1. new = Answers!MergeCall(old, chunk) /\ chunk.tool = at /\ chunk.args = <<n>>
      BY <1>2, <1>11
    <3>2. /\ DOMAIN Answers!MergeCall(old, chunk) = DOMAIN old
          /\ \A k \in DOMAIN old :
                Answers!MergeCall(old, chunk)[k] =
                   IF old[k].at = chunk.tool THEN [at |-> old[k].at, args |-> old[k].args \o chunk.args] ELSE old[k]
      BY <1>3, <2>1, CallView
    <3> QED
      BY <3>1, <3>2
  <2>3. [k \in DOMAIN new |-> new[k].at] = [k \in DOMAIN old |-> old[k].at]
    BY <2>2
  <2>4. ASSUME NEW k \in DOMAIN new
        PROVE  Answers!Lists(new[k].args, Next(new[k].at))
    <3>1. CASE old[k].at = at
      <4>1. old[k].args \in Seq(Nat) /\ Answers!Lists(old[k].args, Args(at))
        BY <1>4, <1>5, <2>2, <3>1 DEF CallSet
      <4>2. \A i \in Args(at) : i < n
        BY <1>1
      <4>3. Answers!Lists(old[k].args \o <<n>>, Args(at) \cup {n})
        BY <1>1, <4>1, <4>2, ListsAppend
      <4> HIDE DEF Args, Next
      <4>4. new[k].at = at /\ new[k].args = old[k].args \o <<n>>
        BY <2>2, <2>4, <3>1
      <4>5. Next(at) = Args(at) \cup {n}
        BY <1>7, <1>11
      <4> QED
        BY <4>3, <4>4, <4>5
    <3>2. CASE old[k].at # at
      <4> HIDE DEF Args, Next
      <4>1. new[k] = old[k] /\ k \in DOMAIN old
        BY <2>2, <2>4, <3>2
      <4>2. Next(old[k].at) = Args(old[k].at)
        BY <1>7, <3>2
      <4> QED
        BY <1>5, <4>1, <4>2
    <3> QED
      BY <3>1, <3>2
  <2> QED
    BY <1>5, <1>8, <1>11, <2>3, <2>4 DEF new
<1>12. CASE kind # "call" /\ ~(kind = "tool" /\ told)
  <2>1. new = old
    BY <1>2, <1>12
  <2> QED
    BY <1>5, <1>7, <1>8, <1>12, <2>1 DEF new
<1> QED
  BY <1>10, <1>11, <1>12

LEMMA AnswerStep ==
    ASSUME SaidInv, AnswerInv, NEW kind \in Kinds, NEW at \in Nat, NEW chunk, Speech(kind, at, chunk)
    PROVE  AnswerInv'
<1> DEFINE n == Len(said) + 1
           told == upstream = "anthropic" /\ client # "anthropic" => at = 0 \/ kind = "call"
           c == Answers!Completion
           d == Answers!Completion'
<1>1. /\ n \in Nat /\ said' # <<>>
      /\ \A k \in Kinds : Heard(k)' = IF k = kind /\ told THEN Heard(k) \cup {n} ELSE Heard(k)
      /\ \A k \in Kinds : \A i \in Heard(k) : i < n
  BY HeardStep
<1>2. /\ choices' \in Seq([index : Nat, answer : AnswerSet]) /\ choices' # <<>> /\ choices'[1].index = 0
  BY CompletionStep
<1>3. /\ d.text = IF kind = "text" /\ told THEN c.text \o <<n>> ELSE c.text
      /\ d.thinking = IF kind = "thinking" /\ told THEN c.thinking \o <<n>> ELSE c.thinking
  BY ChoiceStep
<1>4. c.text \in Seq(Nat) /\ c.thinking \in Seq(Nat)
  BY CompletionType
<1>5. Answers!Lists(c.text, Heard("text")) /\ Answers!Lists(c.thinking, Heard("thinking"))
  BY DEF AnswerInv
<1>6. "text" \in Kinds /\ "thinking" \in Kinds
  BY DEF Kinds
<1>7. end' = "no"
  BY DEF Speech, Answers!Says, Answers!Relayed
<1> HIDE DEF n, told, c, d
<1>8. Answers!Lists(d.text, Heard("text")')
  <2>1. CASE kind = "text" /\ told
    <3>1. d.text = c.text \o <<n>> /\ Heard("text")' = Heard("text") \cup {n}
      BY <1>1, <1>3, <1>6, <2>1
    <3>2. n \in Nat /\ \A i \in Heard("text") : i < n
      BY <1>1, <1>6
    <3>3. Answers!Lists(c.text \o <<n>>, Heard("text") \cup {n})
      BY <1>4, <1>5, <3>2, ListsAppend
    <3> QED
      BY <3>1, <3>3
  <2>2. CASE ~(kind = "text" /\ told)
    <3>1. d.text = c.text /\ Heard("text")' = Heard("text")
      BY <1>1, <1>3, <1>6, <2>2
    <3> QED
      BY <1>5, <3>1
  <2> QED
    BY <2>1, <2>2
<1>9. Answers!Lists(d.thinking, Heard("thinking")')
  <2>1. CASE kind = "thinking" /\ told
    <3>1. d.thinking = c.thinking \o <<n>> /\ Heard("thinking")' = Heard("thinking") \cup {n}
      BY <1>1, <1>3, <1>6, <2>1
    <3>2. n \in Nat /\ \A i \in Heard("thinking") : i < n
      BY <1>1, <1>6
    <3>3. Answers!Lists(c.thinking \o <<n>>, Heard("thinking") \cup {n})
      BY <1>4, <1>5, <3>2, ListsAppend
    <3> QED
      BY <3>1, <3>3
  <2>2. CASE ~(kind = "thinking" /\ told)
    <3>1. d.thinking = c.thinking /\ Heard("thinking")' = Heard("thinking")
      BY <1>1, <1>3, <1>6, <2>2
    <3> QED
      BY <1>5, <3>1
  <2> QED
    BY <2>1, <2>2
<1> QED
  BY <1>1, <1>2, <1>7, <1>8, <1>9, ToolsStep DEF AnswerInv, d
LEMMA AnswerInit ==
    ASSUME Answers!Init
    PROVE  SaidInv /\ AnswerInv
<1>1. /\ said = <<>> /\ choices = <<>> /\ end = "no"
      /\ upstream \in {"anthropic", "chat"} /\ client \in {"anthropic", "chat", "response"}
  BY DEF Answers!Init
<1>2. DOMAIN said = {} /\ \A kind : Heard(kind) = {}
  BY <1>1 DEF Heard
<1>3. Answers!Blocks = 0
  <2>1. {i \in DOMAIN said : said[i].kind \in {"block", "call"}} = {}
    BY <1>2
  <2> QED
    BY <2>1, SameCount, FS_EmptySet DEF Answers!Blocks
<1>4. Answers!Completion = [text |-> <<>>, thinking |-> <<>>, tools |-> <<>>]
  BY <1>1 DEF Answers!Completion, Answers!Silence
<1>5. Answers!Lists(<<>>, {})
  BY DEF Answers!Lists, Answers!ToSet
<1>6. SaidInv
  BY <1>1, <1>2, <1>3 DEF SaidInv
<1>7. /\ DOMAIN Answers!Completion.tools = {}
      /\ Answers!Lists([k \in DOMAIN Answers!Completion.tools |-> Answers!Completion.tools[k].at],
                       {said[i].at : i \in Heard("call")})
  <2>1. DOMAIN Answers!Completion.tools = {} /\ Heard("call") = {}
    BY <1>2, <1>4
  <2> QED
    BY <2>1 DEF Answers!Lists, Answers!ToSet
<1>8. /\ Answers!Lists(Answers!Completion.text, Heard("text"))
      /\ Answers!Lists(Answers!Completion.thinking, Heard("thinking"))
  BY <1>2, <1>4, <1>5
<1>9. choices \in Seq([index : Nat, answer : AnswerSet])
  BY <1>1
<1>10. AnswerInv
  BY <1>1, <1>7, <1>8, <1>9 DEF AnswerInv
<1> QED
  BY <1>6, <1>10

\* A step that is no event of the upstream leaves what was said and heard alone.
LEMMA AnswerNext ==
    ASSUME SaidInv, AnswerInv, [Answers!Next]_(Answers!vars)
    PROVE  SaidInv' /\ AnswerInv'
<1>1. ASSUME UNCHANGED <<upstream, client, said, choices>>
      PROVE  /\ SaidInv' /\ Answers!Completion' = Answers!Completion
             /\ \A kind : Heard(kind)' = Heard(kind)
  <2>1. Answers!Completion' = Answers!Completion
    BY <1>1 DEF Answers!Completion
  <2>2. \A kind : Heard(kind)' = Heard(kind)
    BY <1>1 DEF Heard, Answers!Told
  <2>3. Answers!Blocks' = Answers!Blocks
    BY <1>1 DEF Answers!Blocks
  <2>4. SaidInv'
    BY <1>1, <2>3 DEF SaidInv
  <2> QED
    BY <2>1, <2>2, <2>4
<1>2. CASE UNCHANGED Answers!vars
  BY <1>1, <1>2 DEF AnswerInv, Answers!vars
<1>3. CASE Answers!StreamEnds
  BY <1>1, <1>3 DEF AnswerInv, Answers!StreamEnds
<1>4. CASE Answers!StreamBreaks
  BY <1>1, <1>4 DEF AnswerInv, Answers!StreamBreaks
<1>5. ASSUME NEW kind \in Kinds, NEW at \in Nat, NEW chunk, Speech(kind, at, chunk)
      PROVE  SaidInv' /\ AnswerInv'
  BY <1>5, SaidStep, AnswerStep
<1> QED
  BY <1>2, <1>3, <1>4, <1>5, SpeechKinds

\* A stream that ends is stored with all it said, in order and each argument with its
\* call, but for what the later blocks of a translated Anthropic answer say
\* (ChatCompletionStreamAggregator.Add): Completion holds the pieces that were heard.
THEOREM LaterBlocksOnly == Answers!Spec => []OnlyLaterBlocksLost
<1>1. Answers!Init => SaidInv /\ AnswerInv
  BY AnswerInit
<1>2. SaidInv /\ AnswerInv /\ [Answers!Next]_(Answers!vars) => SaidInv' /\ AnswerInv'
  BY AnswerNext
<1>3. SaidInv /\ AnswerInv => OnlyLaterBlocksLost
  <2> DEFINE P == {i \in DOMAIN said : Answers!Told(i)}
  <2>1. SUFFICES ASSUME AnswerInv, end = "whole" PROVE Answers!Kept(P)
    BY DEF OnlyLaterBlocksLost, Answers!OnlyLaterBlocksLost
  <2>2. \A kind : {i \in P : said[i].kind = kind} = Heard(kind)
    BY DEF Heard
  <2> HIDE DEF P
  <2>3. Answers!IsOf(Answers!Completion, P)
    BY <2>1, <2>2 DEF AnswerInv, Answers!IsOf
  <2> QED
    BY <2>1, <2>3 DEF AnswerInv, Answers!Kept
<1> QED
  BY <1>1, <1>2, <1>3, PTL DEF Answers!Spec
-----------------------------------------------------------------------------
(* The events about items, for any number of them                            *)

ItemSet == {"message", "call", "new", "block"} \X Int
EventSet == [event : {"added", "delta", "done"}, item : ItemSet]
ItemsOf(s, event) == {s[i].item : i \in {j \in DOMAIN s : s[j].event = event}}

\* AddedOnceFirst of a sequence of events.
Ordered(s) ==
    /\ \A i, j \in DOMAIN s : s[i].event = "added" /\ s[j].event = "added" /\ s[i].item = s[j].item => i = j
    /\ \A i \in DOMAIN s : s[i].event = "delta" =>
          \E j \in DOMAIN s : s[j].event = "added" /\ j < i /\ s[j].item = s[i].item

\* What ItemsPaired requires of the stream.
Paired ==
    \/ client = "response" /\ (upstream = "anthropic" => \A i \in DOMAIN said : said[i].at = 0)
    \/ client = "anthropic" /\ upstream = "chat" /\ ids /\ Answers!OneSort

Words == {"text", "thinking"}

\* The item or block that a piece belongs to, and what its beginning is remembered by.
ItemOf(kind, at) ==
    IF client = "response" THEN (IF kind \in Words THEN Answers!Message ELSE Answers!Call(at))
    ELSE Answers!Block(IF kind \in Words THEN 0 ELSE at)
Key(kind) == IF client = "anthropic" /\ kind = "thinking" THEN -1 ELSE 0
Began(kind) == \E i \in DOMAIN said : said[i].kind \in Words /\ Key(said[i].kind) = Key(kind)

\* The client was shown the items of what was said, and each began when it was.
ShownInv ==
    Paired =>
        /\ shown \in Seq(EventSet) /\ Ordered(shown)
        /\ ItemsOf(shown, "added") =
              {ItemOf(said[i].kind, said[i].at) : i \in {j \in DOMAIN said : said[j].kind # "block"}}
        /\ \A kind \in Words : Key(kind) \in begun <=> Began(kind)
        /\ calls = {said[i].at : i \in {j \in DOMAIN said : said[j].kind = "call"}}
        /\ end = "no" => ItemsOf(shown, "done") = {}
        /\ end = "whole" /\ client = "response" /\ ids => ItemsOf(shown, "done") = ItemsOf(shown, "added")

\* One event more.
LEMMA AppendEvent ==
    ASSUME NEW s \in Seq(EventSet), NEW e \in EventSet, Ordered(s),
           e.event = "added" => e.item \notin ItemsOf(s, "added"),
           e.event = "delta" => e.item \in ItemsOf(s, "added")
    PROVE  /\ s \o <<e>> \in Seq(EventSet) /\ Ordered(s \o <<e>>)
           /\ \A event : ItemsOf(s \o <<e>>, event) =
                 IF event = e.event THEN ItemsOf(s, event) \cup {e.item} ELSE ItemsOf(s, event)
<1> DEFINE t == s \o <<e>>
           n == Len(s) + 1
<1>1. /\ t \in Seq(EventSet) /\ Len(s) \in Nat /\ DOMAIN s = 1 .. Len(s) /\ DOMAIN t = 1 .. n
      /\ \A i \in DOMAIN s : t[i] = s[i]
      /\ t[n] = e
  OBVIOUS
<1>2. DOMAIN t = DOMAIN s \cup {n} /\ n \notin DOMAIN s /\ \A i \in DOMAIN s : i < n /\ ~(n < i)
  BY <1>1
<1> HIDE DEF t, n
<1>3. ASSUME NEW event
      PROVE  ItemsOf(t, event) = IF event = e.event THEN ItemsOf(s, event) \cup {e.item} ELSE ItemsOf(s, event)
  <2>1. {j \in DOMAIN t : t[j].event = event} =
           IF event = e.event THEN {j \in DOMAIN s : s[j].event = event} \cup {n}
           ELSE {j \in DOMAIN s : s[j].event = event}
    BY <1>1, <1>2
  <2> QED
    BY <1>1, <1>2, <2>1 DEF ItemsOf
<1>4. ASSUME NEW i \in DOMAIN t, NEW j \in DOMAIN t,
             t[i].event = "added", t[j].event = "added", t[i].item = t[j].item
      PROVE  i = j
  <2>1. CASE i \in DOMAIN s /\ j \in DOMAIN s
    BY <1>1, <1>4, <2>1 DEF Ordered
  <2>2. CASE i = n /\ j \in DOMAIN s
    BY <1>1, <1>4, <2>2 DEF ItemsOf
  <2>3. CASE i \in DOMAIN s /\ j = n
    BY <1>1, <1>4, <2>3 DEF ItemsOf
  <2> QED
    BY <1>2, <2>1, <2>2, <2>3
<1>5. ASSUME NEW i \in DOMAIN t, t[i].event = "delta"
      PROVE  \E j \in DOMAIN t : t[j].event = "added" /\ j < i /\ t[j].item = t[i].item
  <2>1. CASE i \in DOMAIN s
    <3>1. s[i].event = "delta"
      BY <1>1, <1>5, <2>1
    <3>2. PICK j \in DOMAIN s : s[j].event = "added" /\ j < i /\ s[j].item = s[i].item
      BY <2>1, <3>1 DEF Ordered
    <3> QED
      BY <1>1, <1>2, <2>1, <3>2
  <2>2. CASE i = n
    <3>1. PICK j \in DOMAIN s : s[j].event = "added" /\ s[j].item = e.item
      BY <1>1, <1>5, <2>2 DEF ItemsOf
    <3> QED
      BY <1>1, <1>2, <2>2, <3>1
  <2> QED
    BY <1>2, <2>1, <2>2
<1>6. Ordered(t)
  BY <1>4, <1>5 DEF Ordered
<1> QED
  BY <1>1, <1>3, <1>6 DEF t

\* An item is added if it was not, and something may be said in it.
LEMMA ShowEvents ==
    ASSUME NEW s \in Seq(EventSet), Ordered(s), NEW item \in ItemSet,
           NEW quiet \in BOOLEAN
    PROVE  LET t == s \o (IF item \in ItemsOf(s, "added") THEN <<>> ELSE Answers!Event("added", item))
                      \o (IF quiet THEN <<>> ELSE Answers!Event("delta", item))
           IN  /\ t \in Seq(EventSet) /\ Ordered(t)
               /\ ItemsOf(t, "added") = ItemsOf(s, "added") \cup {item}
               /\ ItemsOf(t, "done") = ItemsOf(s, "done")
<1> DEFINE a == [event |-> "added", item |-> item]
           d == [event |-> "delta", item |-> item]
           u == s \o (IF item \in ItemsOf(s, "added") THEN <<>> ELSE <<a>>)
           t == u \o (IF quiet THEN <<>> ELSE <<d>>)
<1>1. a \in EventSet /\ a.event = "added" /\ a.item = item /\ d \in EventSet /\ d.event = "delta" /\ d.item = item
  BY DEF EventSet
<1> HIDE DEF a, d
<1>2. /\ u \in Seq(EventSet) /\ Ordered(u)
      /\ ItemsOf(u, "added") = ItemsOf(s, "added") \cup {item} /\ ItemsOf(u, "done") = ItemsOf(s, "done")
  <2>1. CASE item \in ItemsOf(s, "added")
    BY <2>1, ConcatEmptySeq
  <2>2. CASE item \notin ItemsOf(s, "added")
    <3>1. u = s \o <<a>>
      BY <2>2
    <3> HIDE DEF u
    <3>2. a \in EventSet /\ a.event # "done"
      BY <1>1
    <3> QED
      BY <1>1, <2>2, <3>1, <3>2, AppendEvent
  <2> QED
    BY <2>1, <2>2
<1> HIDE DEF u
<1>3. /\ t \in Seq(EventSet) /\ Ordered(t)
      /\ ItemsOf(t, "added") = ItemsOf(u, "added") /\ ItemsOf(t, "done") = ItemsOf(u, "done")
  <2>1. CASE quiet
    BY <1>2, <2>1, ConcatEmptySeq
  <2>2. CASE ~quiet
    <3>1. t = u \o <<d>>
      BY <2>2
    <3> HIDE DEF t
    <3>2. d \in EventSet /\ d.event # "done" /\ d.event # "added" /\ d.item \in ItemsOf(u, "added")
      BY <1>1, <1>2
    <3>3. /\ u \o <<d>> \in Seq(EventSet) /\ Ordered(u \o <<d>>)
          /\ \A event : ItemsOf(u \o <<d>>, event) =
                IF event = d.event THEN ItemsOf(u, event) \cup {d.item} ELSE ItemsOf(u, event)
      BY <1>2, <3>2, AppendEvent
    <3>4. ItemsOf(u, d.event) = ItemsOf(u, "delta") /\ d.event = "delta"
      BY <1>1
    <3> QED
      BY <1>2, <3>1, <3>3, <3>4
  <2> QED
    BY <2>1, <2>2
<1>4. t = s \o (IF item \in ItemsOf(s, "added") THEN <<>> ELSE Answers!Event("added", item))
            \o (IF quiet THEN <<>> ELSE Answers!Event("delta", item))
  BY DEF Answers!Event, a, d, u
<1> HIDE DEF t
<1> QED
  BY <1>2, <1>3, <1>4

\* Events that close items neither begin one nor say something in it.
LEMMA CloseEvents ==
    ASSUME NEW s \in Seq(EventSet), NEW t \in Seq(EventSet), Ordered(s), \A i \in DOMAIN t : t[i].event = "done"
    PROVE  /\ s \o t \in Seq(EventSet) /\ Ordered(s \o t)
           /\ ItemsOf(s \o t, "added") = ItemsOf(s, "added")
           /\ ItemsOf(s \o t, "done") = ItemsOf(s, "done") \cup {t[i].item : i \in DOMAIN t}
<1> DEFINE u == s \o t
<1>1. /\ u \in Seq(EventSet) /\ Len(s) \in Nat /\ Len(t) \in Nat /\ DOMAIN s = 1 .. Len(s) /\ DOMAIN t = 1 .. Len(t)
      /\ DOMAIN u = 1 .. Len(s) + Len(t)
      /\ \A i \in DOMAIN s : u[i] = s[i]
      /\ \A i \in DOMAIN u : i \notin DOMAIN s => u[i] = t[i - Len(s)]
      /\ \A i \in DOMAIN t : u[Len(s) + i] = t[i]
  BY ConcatProperties
<1> HIDE DEF u
<1>2. \A i \in DOMAIN s : i \in DOMAIN u
  BY <1>1
<1>3. \A i \in DOMAIN u : i \notin DOMAIN s => i - Len(s) \in DOMAIN t /\ u[i] = t[i - Len(s)] /\ u[i].event = "done"
  BY <1>1
<1>4. \A i \in DOMAIN t : Len(s) + i \in DOMAIN u /\ u[Len(s) + i] = t[i]
  BY <1>1
<1>5. Ordered(u)
  <2>1. \A i \in DOMAIN u : u[i].event # "done" => i \in DOMAIN s /\ u[i] = s[i]
    BY <1>1, <1>3
  <2>2. ASSUME NEW i \in DOMAIN u, u[i].event = "delta"
        PROVE  \E j \in DOMAIN u : u[j].event = "added" /\ j < i /\ u[j].item = u[i].item
    <3>1. PICK j \in DOMAIN s : s[j].event = "added" /\ j < i /\ s[j].item = s[i].item
      BY <2>1, <2>2 DEF Ordered
    <3> QED
      BY <1>1, <1>2, <2>1, <2>2, <3>1
  <2> QED
    BY <2>1, <2>2 DEF Ordered
<1>6. ItemsOf(u, "added") = ItemsOf(s, "added")
  BY <1>1, <1>2, <1>3 DEF ItemsOf
<1>7. ItemsOf(u, "done") = ItemsOf(s, "done") \cup {t[i].item : i \in DOMAIN t}
  <2>1. \A x \in ItemsOf(u, "done") : x \in ItemsOf(s, "done") \cup {t[i].item : i \in DOMAIN t}
    BY <1>1, <1>3 DEF ItemsOf
  <2>2. \A x \in ItemsOf(s, "done") : x \in ItemsOf(u, "done")
    BY <1>1, <1>2 DEF ItemsOf
  <2>3. \A i \in DOMAIN t : t[i].item \in ItemsOf(u, "done")
    BY <1>4 DEF ItemsOf
  <2> QED
    BY <2>1, <2>2, <2>3
<1> QED
  BY <1>1, <1>5, <1>6, <1>7 DEF u
\* What is required of the stream after an event was required of it before.
LEMMA PairedBefore ==
    ASSUME SaidInv, NEW kind \in Kinds, NEW at \in Nat, NEW chunk, Speech(kind, at, chunk), Paired'
    PROVE  /\ Paired /\ UNCHANGED <<client, upstream, ids>>
           /\ upstream = "anthropic" => at = 0
           /\ client = "anthropic" => /\ upstream = "chat" /\ ids
                                      /\ \A i \in DOMAIN said : said[i].kind # kind => {"call", "tool"} = {said[i].kind, kind}
<1> DEFINE n == Len(said) + 1
<1>1. /\ DOMAIN said' = DOMAIN said \cup {n} /\ \A i \in DOMAIN said : said'[i] = said[i]
      /\ said'[n].kind = kind /\ said'[n].at = at
  BY SaysView DEF Speech
<1>2. UNCHANGED <<client, upstream, ids>>
  BY DEF Speech, Answers!Relayed
<1> HIDE DEF n
<1>3. CASE client = "response"
  BY <1>1, <1>2, <1>3 DEF Paired
<1>4. CASE client # "response"
  <2>1. client = "anthropic" /\ upstream = "chat" /\ ids /\ Answers!OneSort'
    BY <1>2, <1>4 DEF Paired
  <2>2. \A i, j \in DOMAIN said' : said'[i].kind # said'[j].kind => {"call", "tool"} = {said'[i].kind, said'[j].kind}
    BY <2>1 DEF Answers!OneSort
  <2>3. \A i \in DOMAIN said : said[i].kind # kind => {"call", "tool"} = {said[i].kind, kind}
    BY <1>1, <2>2
  <2>4. Answers!OneSort
    BY <1>1, <2>2 DEF Answers!OneSort
  <2> QED
    BY <1>2, <2>1, <2>3, <2>4 DEF Paired
<1> QED
  BY <1>3, <1>4

\* The item of a piece is shown before the piece exactly if it began before.
LEMMA ItemKnown ==
    ASSUME SaidInv, ShownInv, NEW kind \in Kinds \ {"block"}, NEW at \in Nat, NEW chunk,
           Speech(kind, at, chunk), Paired'
    PROVE  /\ kind \in Words => (ItemOf(kind, at) \in ItemsOf(shown, "added") <=> Key(kind) \in begun)
           /\ kind = "call" => ItemOf(kind, at) \notin ItemsOf(shown, "added") /\ at \notin calls
           /\ kind = "tool" => ItemOf(kind, at) \in ItemsOf(shown, "added") /\ at \in calls
<1>1. /\ Paired
      /\ upstream = "anthropic" => at = 0
      /\ client = "anthropic" => /\ upstream = "chat" /\ ids
                                 /\ \A i \in DOMAIN said : said[i].kind # kind => {"call", "tool"} = {said[i].kind, kind}
  BY PairedBefore DEF Kinds
<1>2. client \in {"response", "anthropic"}
  BY <1>1 DEF Paired
<1>3. /\ ItemsOf(shown, "added") =
            {ItemOf(said[i].kind, said[i].at) : i \in {j \in DOMAIN said : said[j].kind # "block"}}
      /\ \A k \in Words :
            Key(k) \in begun <=> \E i \in DOMAIN said : said[i].kind \in Words /\ Key(said[i].kind) = Key(k)
      /\ calls = {said[i].at : i \in {j \in DOMAIN said : said[j].kind = "call"}}
  BY <1>1 DEF ShownInv, Began
<1>4. CASE kind \in Words
  <2>1. ASSUME NEW i \in DOMAIN said, said[i].kind # "block", ItemOf(said[i].kind, said[i].at) = ItemOf(kind, at)
        PROVE  said[i].kind \in Words /\ Key(said[i].kind) = Key(kind)
    <3>1. CASE client = "response"
      BY <1>4, <2>1, <3>1 DEF ItemOf, Key, Words, Answers!Message, Answers!Call
    <3>2. CASE client = "anthropic"
      BY <1>1, <1>4, <3>2 DEF Words
    <3> QED
      BY <1>2, <3>1, <3>2
  <2>2. ASSUME NEW i \in DOMAIN said, said[i].kind \in Words, Key(said[i].kind) = Key(kind)
        PROVE  said[i].kind # "block" /\ ItemOf(said[i].kind, said[i].at) = ItemOf(kind, at)
    BY <1>4, <2>2 DEF ItemOf, Words
  <2> QED
    BY <1>3, <1>4, <2>1, <2>2 DEF Words
<1>5. CASE kind = "call"
  <2>1. at = Answers!Blocks /\ Answers!Blocks \in Nat
    BY <1>5, BlocksNat DEF Speech
  <2>2. \A i \in DOMAIN said : said[i].kind \in {"call", "tool"} => said[i].at < at
    BY <2>1, SaidType DEF SaidInv
  <2>3. ASSUME NEW i \in DOMAIN said, said[i].kind # "block"
        PROVE  ItemOf(said[i].kind, said[i].at) # ItemOf(kind, at)
    <3>1. CASE said[i].kind \in Words
      <4>1. client = "response"
        BY <1>1, <1>2, <1>5, <3>1 DEF Words
      <4> QED
        BY <1>5, <3>1, <4>1 DEF ItemOf, Words, Answers!Message, Answers!Call
    <3>2. CASE said[i].kind \in {"call", "tool"}
      <4>1. said[i].at < at /\ said[i].at \in Nat
        BY <2>2, <3>2, SaidType
      <4> QED
        BY <1>5, <3>2, <4>1 DEF ItemOf, Words, Answers!Call, Answers!Block
    <3> QED
      BY <2>3, <3>1, <3>2, SaidType DEF Kinds, Words
  <2>4. at \notin calls
    BY <1>3, <2>2, SaidType
  <2> QED
    BY <1>3, <1>5, <2>3, <2>4 DEF Words
<1>6. CASE kind = "tool"
  <2>1. PICK j \in DOMAIN said : said[j].kind = "call" /\ said[j].at = at
    BY <1>6 DEF Speech
  <2>2. ItemOf(said[j].kind, said[j].at) = ItemOf(kind, at) /\ said[j].kind # "block"
    BY <1>6, <2>1 DEF ItemOf, Words
  <2> QED
    BY <1>3, <1>6, <2>1, <2>2 DEF Words
<1> QED
  BY <1>4, <1>5, <1>6 DEF Kinds, Words

\* What the client is shown of a piece.
LEMMA SpeechShows ==
    ASSUME SaidInv, ShownInv, NEW kind \in Kinds \ {"block"}, NEW at \in Nat, NEW chunk,
           Speech(kind, at, chunk), Paired'
    PROVE  LET item == ItemOf(kind, at)
           IN  /\ shown' = shown \o (IF item \in ItemsOf(shown, "added") THEN <<>> ELSE Answers!Event("added", item))
                                 \o (IF kind = "call" THEN <<>> ELSE Answers!Event("delta", item))
               /\ begun' = IF kind \in Words THEN begun \cup {Key(kind)} ELSE begun
               /\ calls' = IF kind = "call" THEN calls \cup {at} ELSE calls
<1> DEFINE item == ItemOf(kind, at)
           added == ItemsOf(shown, "added")
<1>1. /\ Paired
      /\ upstream = "anthropic" => at = 0
      /\ client = "anthropic" => upstream = "chat" /\ ids
  BY PairedBefore DEF Kinds
<1>2. /\ kind \in Words => (item \in added <=> Key(kind) \in begun)
      /\ kind = "call" => item \notin added /\ at \notin calls
      /\ kind = "tool" => item \in added /\ at \in calls
  BY ItemKnown
<1>3. CASE client = "response"
  <2>1. Answers!Show(chunk)
    BY <1>3 DEF Speech, Answers!Relayed, Paired, SaidInv
  <2>2. CASE kind \in Words
    <3>1. /\ chunk.choice = 0 /\ chunk.kind = kind
      BY <1>1, <1>3, <2>2, SaidType DEF Speech, Answers!Chunk, SaidInv, Words
    <3>2. Answers!ShowText(chunk) /\ item = Answers!Message /\ Key(kind) = 0
      BY <1>3, <2>1, <2>2, <3>1 DEF Answers!Show, Words, ItemOf, Key
    <3> QED
      BY <1>2, <2>2, <3>1, <3>2 DEF Answers!ShowText, Words
  <2>3. CASE kind = "call"
    <3>1. chunk.kind = "tool" /\ chunk.tool = at /\ chunk.named /\ chunk.args = <<>>
      BY <2>3 DEF Speech, Answers!Chunk
    <3>2. Answers!ShowCall(chunk) /\ item = Answers!Call(at)
      BY <1>3, <2>1, <2>3, <3>1 DEF Answers!Show, Words, ItemOf
    <3> QED
      BY <1>2, <2>3, <3>1, <3>2 DEF Answers!ShowCall, Words
  <2>4. CASE kind = "tool"
    <3>1. chunk.kind = "tool" /\ chunk.tool = at /\ ~chunk.named /\ chunk.args # <<>>
      BY <2>4 DEF Speech, Answers!Chunk
    <3>2. Answers!ShowCall(chunk) /\ item = Answers!Call(at)
      BY <1>3, <2>1, <2>4, <3>1 DEF Answers!Show, Words, ItemOf
    <3> QED
      BY <1>2, <2>4, <3>1, <3>2 DEF Answers!ShowCall, Words
  <2> QED
    BY <2>2, <2>3, <2>4 DEF Kinds, Words
<1>4. CASE client = "anthropic"
  <2>1. Answers!Begin(chunk) /\ ids
    BY <1>1, <1>4 DEF Speech, Answers!Relayed
  <2>2. CASE kind \in Words
    <3>1. /\ chunk.choice = 0 /\ chunk.kind = kind
      BY <1>1, <1>4, <2>2 DEF Speech, Answers!Chunk, Words
    <3>2. Answers!BeginText(chunk) /\ item = Answers!Block(0)
      BY <1>4, <2>1, <2>2, <3>1 DEF Answers!Begin, Words, ItemOf
    <3>3. Key(kind) = IF chunk.kind = "text" THEN chunk.choice ELSE -(chunk.choice + 1)
      BY <1>4, <2>2, <3>1 DEF Key, Words
    <3> QED
      BY <1>2, <2>2, <3>1, <3>2, <3>3 DEF Answers!BeginText, Words
  <2>3. CASE kind = "call"
    <3>1. chunk.kind = "tool" /\ chunk.tool = at /\ chunk.named /\ chunk.args = <<>>
      BY <2>3 DEF Speech, Answers!Chunk
    <3>2. Answers!BeginCall(chunk) /\ item = Answers!Block(at)
      BY <1>4, <2>1, <2>3, <3>1 DEF Answers!Begin, Words, ItemOf
    <3> QED
      BY <1>2, <2>1, <2>3, <3>1, <3>2 DEF Answers!BeginCall, Words
  <2>4. CASE kind = "tool"
    <3>1. chunk.kind = "tool" /\ chunk.tool = at /\ ~chunk.named /\ chunk.args # <<>>
      BY <2>4 DEF Speech, Answers!Chunk
    <3>2. Answers!BeginCall(chunk) /\ item = Answers!Block(at)
      BY <1>4, <2>1, <2>4, <3>1 DEF Answers!Begin, Words, ItemOf
    <3> QED
      BY <1>2, <2>1, <2>4, <3>1, <3>2 DEF Answers!BeginCall, Words
  <2> QED
    BY <2>2, <2>3, <2>4 DEF Kinds, Words
<1> QED
  BY <1>1, <1>3, <1>4 DEF Paired
LEMMA ShownInit ==
    ASSUME Answers!Init
    PROVE  ShownInv
<1>1. shown = <<>> /\ said = <<>> /\ begun = {} /\ calls = {} /\ end = "no"
  BY DEF Answers!Init
<1>2. DOMAIN shown = {} /\ DOMAIN said = {} /\ shown \in Seq(EventSet)
  BY <1>1
<1>3. Ordered(shown) /\ ItemsOf(shown, "added") = {} /\ ItemsOf(shown, "done") = {}
  BY <1>2 DEF Ordered, ItemsOf
<1> QED
  BY <1>1, <1>2, <1>3 DEF ShownInv, Began

LEMMA ItemType ==
    ASSUME NEW kind \in Kinds, NEW at \in Nat
    PROVE  ItemOf(kind, at) \in ItemSet
BY DEF ItemOf, ItemSet, Answers!Message, Answers!Call, Answers!Block

LEMMA ShownStep ==
    ASSUME SaidInv, ShownInv, NEW kind \in Kinds, NEW at \in Nat, NEW chunk, Speech(kind, at, chunk)
    PROVE  ShownInv'
<1> SUFFICES ASSUME Paired'
             PROVE  /\ shown' \in Seq(EventSet) /\ Ordered(shown')
                    /\ ItemsOf(shown', "added") =
                          {ItemOf(said[i].kind, said[i].at) : i \in {j \in DOMAIN said : said[j].kind # "block"}}'
                    /\ (\A k \in Words : Key(k) \in begun <=> Began(k))'
                    /\ calls' = {said[i].at : i \in {j \in DOMAIN said : said[j].kind = "call"}}'
                    /\ end' = "no" /\ ItemsOf(shown', "done") = {}
  BY DEF ShownInv
<1> DEFINE n == Len(said) + 1
           item == ItemOf(kind, at)
           Spoken == {j \in DOMAIN said : said[j].kind # "block"}
           Begun == {j \in DOMAIN said : said[j].kind = "call"}
<1>1. Paired /\ UNCHANGED <<client, upstream, ids>>
  BY PairedBefore
<1>2. /\ DOMAIN said' = DOMAIN said \cup {n} /\ n \notin DOMAIN said
      /\ \A i \in DOMAIN said : said'[i] = said[i]
      /\ said'[n].kind = kind /\ said'[n].at = at
      /\ end = "no"
  BY SaysView DEF Speech
<1>3. end' = "no"
  BY <1>2 DEF Speech, Answers!Relayed
<1>4. /\ shown \in Seq(EventSet) /\ Ordered(shown)
      /\ ItemsOf(shown, "added") = {ItemOf(said[i].kind, said[i].at) : i \in Spoken}
      /\ \A k \in Words : Key(k) \in begun <=> Began(k)
      /\ calls = {said[i].at : i \in Begun}
      /\ ItemsOf(shown, "done") = {}
  BY <1>1, <1>2 DEF ShownInv
<1>5. \A k, a : Key(k)' = Key(k) /\ ItemOf(k, a)' = ItemOf(k, a)
  BY <1>1 DEF Key, ItemOf
<1> HIDE DEF n
<1>6. CASE kind = "block"
  <2>1. UNCHANGED <<begun, calls, shown>>
    <3>1. chunk.kind = "role" /\ upstream = "anthropic"
      BY <1>6 DEF Speech, Answers!Chunk
    <3>2. client = "response"
      BY <1>1, <3>1 DEF Paired
    <3> QED
      BY <3>1, <3>2 DEF Speech, Answers!Relayed, Answers!Show, SaidInv
  <2>2. Spoken' = Spoken /\ Begun' = Begun
    BY <1>2, <1>6
  <2>3. {ItemOf(said[i].kind, said[i].at) : i \in Spoken}' = {ItemOf(said[i].kind, said[i].at) : i \in Spoken}
    BY <1>2, <1>5, <2>2
  <2>4. {said[i].at : i \in Begun}' = {said[i].at : i \in Begun}
    BY <1>2, <2>2
  <2>5. ASSUME NEW k \in Words
        PROVE  Began(k)' <=> Began(k)
    BY <1>1, <1>2, <1>6 DEF Words, Began, Key
  <2> HIDE DEF Spoken, Begun
  <2> QED
    BY <1>3, <1>4, <1>5, <2>1, <2>3, <2>4, <2>5 DEF Spoken, Begun
<1>7. CASE kind # "block"
  <2>1. /\ shown' = shown \o (IF item \in ItemsOf(shown, "added") THEN <<>> ELSE Answers!Event("added", item))
                          \o (IF kind = "call" THEN <<>> ELSE Answers!Event("delta", item))
        /\ begun' = IF kind \in Words THEN begun \cup {Key(kind)} ELSE begun
        /\ calls' = IF kind = "call" THEN calls \cup {at} ELSE calls
    BY <1>7, SpeechShows
  <2>2. item \in ItemSet
    BY ItemType
  <2> HIDE DEF item
  <2>3. /\ shown' \in Seq(EventSet) /\ Ordered(shown')
        /\ ItemsOf(shown', "added") = ItemsOf(shown, "added") \cup {item}
        /\ ItemsOf(shown', "done") = ItemsOf(shown, "done")
    BY <1>4, <2>1, <2>2, ShowEvents
  <2>4. /\ Spoken' = Spoken \cup {n}
        /\ Begun' = IF kind = "call" THEN Begun \cup {n} ELSE Begun
    BY <1>2, <1>7
  <2>5. {ItemOf(said[i].kind, said[i].at) : i \in Spoken}' =
           {ItemOf(said[i].kind, said[i].at) : i \in Spoken} \cup {item}
    <3>1. \A i \in Spoken : said'[i] = said[i]
      BY <1>2
    <3> QED
      BY <1>2, <1>5, <2>4, <3>1 DEF item
  <2>6. {said[i].at : i \in Begun}' = IF kind = "call" THEN {said[i].at : i \in Begun} \cup {at}
                                      ELSE {said[i].at : i \in Begun}
    BY <1>2, <2>4
  <2>7. ASSUME NEW k \in Words
        PROVE  Began(k)' <=> (Began(k) \/ (kind \in Words /\ Key(kind) = Key(k)))
    BY <1>1, <1>2 DEF Began, Key
  <2>8. (\A k \in Words : Key(k) \in begun <=> Began(k))'
    BY <1>4, <1>5, <2>1, <2>7
  <2> HIDE DEF Spoken, Begun
  <2> QED
    BY <1>3, <1>4, <2>1, <2>3, <2>5, <2>6, <2>8 DEF Spoken, Begun
<1> QED
  BY <1>6, <1>7

\* The items that are closed are those of what was heard.
LEMMA DoneView ==
    ASSUME AnswerInv
    PROVE  /\ Answers!Done \in Seq(EventSet)
           /\ \A i \in DOMAIN Answers!Done : Answers!Done[i].event = "done"
           /\ ids => {Answers!Done[i].item : i \in DOMAIN Answers!Done} =
                        (IF Answers!Completion.thinking = <<>> /\ Answers!Completion.text = <<>> THEN {}
                         ELSE {Answers!Message})
                        \cup {Answers!Call(Answers!Completion.tools[k].at) : k \in DOMAIN Answers!Completion.tools}
<1> DEFINE c == Answers!Completion
           word == [event |-> "done", item |-> Answers!Message]
           closed(i) == [event |-> "done", item |-> IF ids THEN Answers!Call(c.tools[i].at) ELSE <<"new", i>>]
           first == IF c.thinking = <<>> THEN <<>> ELSE <<word>>
           tools == [i \in DOMAIN c.tools |-> closed(i)]
           last == IF c.text = <<>> THEN <<>> ELSE <<word>>
<1>1. Answers!Done = first \o tools \o last
  BY DEF Answers!Done, Answers!Event
<1>2. word \in EventSet
  BY DEF EventSet, ItemSet, Answers!Message
<1>3. /\ Len(c.tools) \in Nat /\ DOMAIN c.tools = 1 .. Len(c.tools)
      /\ \A k \in DOMAIN c.tools : c.tools[k] \in CallSet /\ c.tools[k].at \in Nat
  <2>1. c.tools \in Seq(CallSet)
    BY CompletionType
  <2> HIDE DEF c
  <2>2. /\ Len(c.tools) \in Nat /\ DOMAIN c.tools = 1 .. Len(c.tools)
        /\ \A k \in DOMAIN c.tools : c.tools[k] \in CallSet
    BY <2>1, ElementOfSeq
  <2> QED
    BY <2>2 DEF CallSet
<1>4. \A k \in DOMAIN c.tools : closed(k) \in EventSet
  BY <1>3 DEF EventSet, ItemSet, Answers!Call
<1> HIDE DEF c, closed, word
<1>5. first \in Seq(EventSet) /\ last \in Seq(EventSet)
  BY <1>2
<1>6. tools \in Seq(EventSet) /\ DOMAIN tools = DOMAIN c.tools /\ \A k \in DOMAIN c.tools : tools[k] = closed(k)
  <2>1. tools \in [1 .. Len(c.tools) -> EventSet]
    BY <1>3, <1>4
  <2>2. tools \in UNION {[1 .. m -> EventSet] : m \in Nat}
    BY <1>3, <2>1
  <2> QED
    BY <2>2, SeqDef
<1>7. /\ \A i \in DOMAIN first : first[i] = word
      /\ \A i \in DOMAIN last : last[i] = word
      /\ c.thinking # <<>> => 1 \in DOMAIN first
      /\ c.text # <<>> => 1 \in DOMAIN last
      /\ c.thinking = <<>> => DOMAIN first = {}
      /\ c.text = <<>> => DOMAIN last = {}
  OBVIOUS
<1> HIDE DEF first, tools, last
<1>8. ASSUME NEW s \in Seq(EventSet), NEW t \in Seq(EventSet)
      PROVE  /\ s \o t \in Seq(EventSet)
             /\ {(s \o t)[i] : i \in DOMAIN (s \o t)} = {s[i] : i \in DOMAIN s} \cup {t[i] : i \in DOMAIN t}
  <2> DEFINE u == s \o t
  <2>1. /\ u \in Seq(EventSet) /\ Len(s) \in Nat /\ Len(t) \in Nat
        /\ DOMAIN s = 1 .. Len(s) /\ DOMAIN t = 1 .. Len(t)
        /\ DOMAIN u = 1 .. Len(s) + Len(t)
        /\ \A i \in DOMAIN s : u[i] = s[i]
        /\ \A i \in DOMAIN u : i \notin DOMAIN s => u[i] = t[i - Len(s)]
        /\ \A i \in DOMAIN t : u[Len(s) + i] = t[i]
    BY ConcatProperties
  <2> HIDE DEF u
  <2>2. \A i \in DOMAIN u : i \in DOMAIN s \/ i - Len(s) \in DOMAIN t
    BY <2>1
  <2>3. \A i \in DOMAIN t : Len(s) + i \in DOMAIN u
    BY <2>1
  <2>4. \A i \in DOMAIN s : i \in DOMAIN u
    BY <2>1
  <2>5. {u[i] : i \in DOMAIN u} = {s[i] : i \in DOMAIN s} \cup {t[i] : i \in DOMAIN t}
    <3>1. \A i \in DOMAIN u : u[i] \in {s[j] : j \in DOMAIN s} \cup {t[j] : j \in DOMAIN t}
      BY <2>1, <2>2
    <3>2. \A i \in DOMAIN s : s[i] \in {u[j] : j \in DOMAIN u}
      BY <2>1, <2>4
    <3>3. \A i \in DOMAIN t : t[i] \in {u[j] : j \in DOMAIN u}
      BY <2>1, <2>3
    <3> QED
      BY <3>1, <3>2, <3>3
  <2> QED
    BY <2>1, <2>5 DEF u
<1>9. /\ Answers!Done \in Seq(EventSet)
      /\ {Answers!Done[i] : i \in DOMAIN Answers!Done} =
            {first[i] : i \in DOMAIN first} \cup {tools[i] : i \in DOMAIN tools} \cup {last[i] : i \in DOMAIN last}
  <2> DEFINE head == first \o tools
  <2>1. /\ head \in Seq(EventSet)
        /\ {head[i] : i \in DOMAIN head} = {first[i] : i \in DOMAIN first} \cup {tools[i] : i \in DOMAIN tools}
    BY <1>5, <1>6, <1>8
  <2>2. Answers!Done = head \o last
    BY <1>1
  <2> HIDE DEF head
  <2>3. /\ head \o last \in Seq(EventSet)
        /\ {(head \o last)[i] : i \in DOMAIN (head \o last)} =
              {head[i] : i \in DOMAIN head} \cup {last[i] : i \in DOMAIN last}
    BY <1>5, <2>1, <1>8
  <2> QED
    BY <2>1, <2>2, <2>3
<1>10. {Answers!Done[i] : i \in DOMAIN Answers!Done} =
          (IF c.thinking = <<>> /\ c.text = <<>> THEN {} ELSE {word}) \cup {closed(k) : k \in DOMAIN c.tools}
  BY <1>6, <1>7, <1>9
<1>11. word.event = "done" /\ word.item = Answers!Message /\ \A k : closed(k).event = "done"
  BY DEF word, closed
<1>12. ids => \A k : closed(k).item = Answers!Call(c.tools[k].at)
  BY DEF closed
<1>13. \A i \in DOMAIN Answers!Done : Answers!Done[i].event = "done"
  BY <1>10, <1>11
<1>14. ASSUME ids
       PROVE  {Answers!Done[i].item : i \in DOMAIN Answers!Done} =
                 (IF c.thinking = <<>> /\ c.text = <<>> THEN {} ELSE {Answers!Message})
                 \cup {Answers!Call(c.tools[k].at) : k \in DOMAIN c.tools}
  <2> DEFINE D == Answers!Done
             E == {D[i] : i \in DOMAIN D}
  <2>1. {D[i].item : i \in DOMAIN D} = {e.item : e \in E}
    OBVIOUS
  <2>2. E = (IF c.thinking = <<>> /\ c.text = <<>> THEN {} ELSE {word}) \cup {closed(k) : k \in DOMAIN c.tools}
    BY <1>10
  <2> HIDE DEF D, E
  <2>3. {e.item : e \in E} = (IF c.thinking = <<>> /\ c.text = <<>> THEN {} ELSE {Answers!Message})
                              \cup {Answers!Call(c.tools[k].at) : k \in DOMAIN c.tools}
    BY <1>11, <1>12, <1>14, <2>2
  <2> QED
    BY <2>1, <2>3 DEF D
<1> QED
  BY <1>9, <1>13, <1>14 DEF c
\* The items of what was said are those that are closed in the end.
LEMMA ItemsClose ==
    ASSUME SaidInv, AnswerInv, ShownInv, Paired, client = "response"
    PROVE  ItemsOf(shown, "added") =
              (IF Answers!Completion.thinking = <<>> /\ Answers!Completion.text = <<>> THEN {}
               ELSE {Answers!Message})
              \cup {Answers!Call(Answers!Completion.tools[k].at) : k \in DOMAIN Answers!Completion.tools}
<1> DEFINE c == Answers!Completion
           Calls == {said[i].at : i \in Heard("call")}
<1>1. \A i \in DOMAIN said : Answers!Told(i)
  BY DEF Paired, Answers!Told
<1>2. \A kind : Heard(kind) = {i \in DOMAIN said : said[i].kind = kind}
  BY <1>1 DEF Heard
<1>3. /\ Answers!Lists(c.text, Heard("text")) /\ Answers!Lists(c.thinking, Heard("thinking"))
      /\ Answers!Lists([k \in DOMAIN c.tools |-> c.tools[k].at], Calls)
  BY DEF AnswerInv
<1>4. c.text \in Seq(Nat) /\ c.thinking \in Seq(Nat)
  BY CompletionType
<1> HIDE DEF c
<1>5. ASSUME NEW s \in Seq(Nat), NEW S, Answers!Lists(s, S)
      PROVE  s = <<>> <=> S = {}
  <2>1. S = {s[i] : i \in DOMAIN s}
    BY <1>5 DEF Answers!Lists, Answers!ToSet
  <2>2. s = <<>> <=> DOMAIN s = {}
    BY EmptySeq
  <2> QED
    BY <2>1, <2>2
<1>6. (c.text = <<>> /\ c.thinking = <<>>) <=> \A i \in DOMAIN said : said[i].kind \notin Words
  <2>1. c.text = <<>> <=> \A i \in DOMAIN said : said[i].kind # "text"
    <3>1. c.text = <<>> <=> Heard("text") = {}
      BY <1>3, <1>4, <1>5
    <3> QED
      BY <1>2, <3>1
  <2>2. c.thinking = <<>> <=> \A i \in DOMAIN said : said[i].kind # "thinking"
    <3>1. c.thinking = <<>> <=> Heard("thinking") = {}
      BY <1>3, <1>4, <1>5
    <3> QED
      BY <1>2, <3>1
  <2> QED
    BY <2>1, <2>2 DEF Words
<1>7. Calls = {c.tools[k].at : k \in DOMAIN c.tools}
  BY <1>3 DEF Answers!Lists, Answers!ToSet
<1>8. ItemsOf(shown, "added") = {ItemOf(said[i].kind, said[i].at) : i \in {j \in DOMAIN said : said[j].kind # "block"}}
  BY DEF ShownInv
<1>9. ASSUME NEW i \in DOMAIN said, said[i].kind \in {"call", "tool"}
      PROVE  said[i].at \in Calls /\ ItemOf(said[i].kind, said[i].at) = Answers!Call(said[i].at)
  <2>1. said[i].at \in Calls
    BY <1>2, <1>9 DEF SaidInv
  <2> QED
    BY <1>9, <2>1 DEF ItemOf, Words
<1>10. \A a \in Calls : \E i \in DOMAIN said : said[i].kind = "call" /\ said[i].at = a
  BY <1>2
<1>11. \A i \in DOMAIN said : said[i].kind \in Words => ItemOf(said[i].kind, said[i].at) = Answers!Message
  BY DEF ItemOf
<1>12. \A i \in DOMAIN said : said[i].kind # "block" => said[i].kind \in Words \/ said[i].kind \in {"call", "tool"}
  BY SaidType DEF Kinds, Words
<1> DEFINE words == IF c.thinking = <<>> /\ c.text = <<>> THEN {} ELSE {Answers!Message}
<1>13. \A x \in ItemsOf(shown, "added") : x \in words \cup {Answers!Call(a) : a \in Calls}
  BY <1>6, <1>8, <1>9, <1>11, <1>12
<1>14. \A x \in words : x \in ItemsOf(shown, "added")
  BY <1>6, <1>8, <1>11 DEF Words
<1>15. \A a \in Calls : Answers!Call(a) \in ItemsOf(shown, "added")
  BY <1>8, <1>9, <1>10
<1> HIDE DEF words, Calls
<1>16. ItemsOf(shown, "added") = words \cup {Answers!Call(a) : a \in Calls}
  BY <1>13, <1>14, <1>15
<1>17. {Answers!Call(a) : a \in Calls} = {Answers!Call(c.tools[k].at) : k \in DOMAIN c.tools}
  BY <1>7
<1> QED
  BY <1>16, <1>17 DEF words, c

LEMMA ShownEnds ==
    ASSUME SaidInv, AnswerInv, ShownInv, Answers!StreamEnds
    PROVE  ShownInv'
<1>1. /\ end = "no" /\ end' = "whole" /\ UNCHANGED <<upstream, client, ids, said, choices, begun, calls>>
      /\ shown' = IF client = "response" THEN shown \o Answers!Done ELSE shown
  BY DEF Answers!StreamEnds
<1>2. /\ Paired' <=> Paired
      /\ \A k, a : Key(k)' = Key(k) /\ Began(k)' = Began(k) /\ ItemOf(k, a)' = ItemOf(k, a)
  BY <1>1 DEF Paired, Key, Began, ItemOf, Answers!OneSort
<1>3. CASE client = "response" /\ Paired
  <2>1. /\ shown \in Seq(EventSet) /\ Ordered(shown) /\ ItemsOf(shown, "done") = {}
    BY <1>1, <1>3 DEF ShownInv
  <2>2. /\ Answers!Done \in Seq(EventSet) /\ \A i \in DOMAIN Answers!Done : Answers!Done[i].event = "done"
        /\ ids => {Answers!Done[i].item : i \in DOMAIN Answers!Done} = ItemsOf(shown, "added")
    BY <1>3, DoneView, ItemsClose
  <2>3. shown' = shown \o Answers!Done
    BY <1>1, <1>3
  <2>4. /\ shown' \in Seq(EventSet) /\ Ordered(shown')
        /\ ItemsOf(shown', "added") = ItemsOf(shown, "added")
        /\ ids => ItemsOf(shown', "done") = ItemsOf(shown', "added")
    BY <2>1, <2>2, <2>3, CloseEvents
  <2> QED
    BY <1>1, <1>2, <1>3, <2>4 DEF ShownInv
<1>4. CASE client # "response" \/ ~Paired
  BY <1>1, <1>2, <1>4 DEF ShownInv
<1> QED
  BY <1>3, <1>4

LEMMA ShownNext ==
    ASSUME SaidInv, AnswerInv, ShownInv, [Answers!Next]_(Answers!vars)
    PROVE  ShownInv'
<1>1. ASSUME UNCHANGED <<upstream, client, ids, said, begun, calls, shown>>
      PROVE  /\ Paired' <=> Paired
             /\ \A k, a : Key(k)' = Key(k) /\ Began(k)' = Began(k) /\ ItemOf(k, a)' = ItemOf(k, a)
  BY <1>1 DEF Paired, Key, Began, ItemOf, Answers!OneSort
<1>2. CASE UNCHANGED Answers!vars
  BY <1>1, <1>2 DEF ShownInv, Answers!vars
<1>3. CASE Answers!StreamBreaks
  BY <1>1, <1>3 DEF ShownInv, Answers!StreamBreaks
<1>4. ASSUME NEW kind \in Kinds, NEW at \in Nat, NEW chunk, Speech(kind, at, chunk)
      PROVE  ShownInv'
  BY <1>4, ShownStep
<1> QED
  BY <1>2, <1>3, <1>4, ShownEnds, SpeechKinds

\* Every item a client is shown is added once, before what is said in it, and closed in
\* the end, but for several blocks translated and calls without an id; a block of an
\* Anthropic client likewise, but for a mixed answer (writeToolCallDeltas,
\* FinalizeResponseFromChatCompletion, handleToolCallDelta).
THEOREM ItemsMatched == Answers!Spec => []ItemsPaired
<1>1. Answers!Init => SaidInv /\ AnswerInv /\ ShownInv
  BY AnswerInit, ShownInit
<1>2. SaidInv /\ AnswerInv /\ ShownInv /\ [Answers!Next]_(Answers!vars) => SaidInv' /\ AnswerInv' /\ ShownInv'
  BY AnswerNext, ShownNext
<1>3. ShownInv => ItemsPaired
  <2>1. \A event : Answers!Items(event) = ItemsOf(shown, event)
    BY DEF Answers!Items, Answers!Seen, ItemsOf
  <2>2. Ordered(shown) => Answers!AddedOnceFirst
    BY DEF Answers!AddedOnceFirst, Answers!Seen, Ordered
  <2> QED
    BY <2>1, <2>2 DEF ShownInv, Paired, ItemsPaired, Answers!ItemsPaired
<1> QED
  BY <1>1, <1>2, <1>3, PTL DEF Answers!Spec
=============================================================================
