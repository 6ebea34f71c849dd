---------------------------- MODULE SessionProofs ---------------------------
(***************************************************************************)
(* SessionStore for any number of keys, workers, messages and sessions:    *)
(*   - a session holds only what its own key sent,                         *)
(*   - the purge takes nothing a live session names, but for one overlap,  *)
(*   - a merge loses nothing,                                              *)
(*   - duplicates are found by some merge.                                 *)
(*                                                                         *)
(* The first invariant follows the key through a merge: a worker holds the *)
(* row of one key, and whatever it has scanned is, while it lives, of that *)
(* key.  Nothing but an insert brings a session to life, and an insert     *)
(* takes a number no scan has seen.                                        *)
(***************************************************************************)
EXTENDS SessionStore, FiniteSetTheorems, SequenceTheorems, WellFoundedInduction, TLAPS

\* The shape of a row and of a task.
IsRow(r) == DOMAIN r = {"status", "key", "msgs", "tools", "from"}
IsTask(t) == DOMAIN t = {"pc", "key", "convo", "tools", "found", "id", "row", "seen"}

OwnRow(r) == IsRow(r) /\ r.from = {r.key}

SessionsApart ==
    /\ lastId \in Nat /\ DOMAIN session = Ids
    /\ \A i \in Ids : /\ IsRow(session[i])
                      /\ session[i].status = "live" => session[i].from = {session[i].key}
                      /\ i > lastId => session[i].status = "none"

WorkersApart ==
    /\ DOMAIN writer = Writers
    /\ \A w \in Writers :
        /\ IsTask(writer[w])
        /\ writer[w].pc \in {"stored", "merging"} => OwnRow(writer[w].row)
        /\ writer[w].pc = "merging" =>
             \A i \in writer[w].seen :
                /\ i \in Ids /\ i <= lastId
                /\ session[i].status = "live" => session[i].key = writer[w].row.key

OwnersInv == SessionsApart /\ WorkersApart

-----------------------------------------------------------------------------
\* What updating fields of a row leaves alone.
LEMMA StatusUpdate ==
    ASSUME NEW r, IsRow(r), NEW x
    PROVE  LET q == [r EXCEPT !.status = x]
           IN  IsRow(q) /\ q.status = x /\ q.key = r.key /\ q.from = r.from
  BY DEF IsRow

LEMMA ScanUpdate ==
    ASSUME NEW t, IsTask(t), NEW p, NEW s
    PROVE  LET q == [t EXCEPT !.pc = p, !.seen = s]
           IN  IsTask(q) /\ q.pc = p /\ q.seen = s /\ q.row = t.row
  BY DEF IsTask

LEMMA IdleTask == IsTask(NoTask) /\ NoTask.pc = "idle"
  BY DEF IsTask, NoTask

\* A step that brings no session to life, changes no owner and adds nothing foreign.
Tame ==
    /\ lastId' = lastId /\ DOMAIN session' = Ids
    /\ \A i \in Ids :
        /\ IsRow(session'[i])
        /\ session[i].status = "none" => session'[i].status = "none"
        /\ session'[i].status = "live" =>
             /\ session[i].status = "live" /\ session'[i].key = session[i].key
             /\ session'[i].from = {session[i].key}

LEMMA UnchangedIsTame ==
    ASSUME SessionsApart, UNCHANGED <<lastId, session>>
    PROVE  Tame
  BY DEF SessionsApart, Tame

LEMMA TameSessions ==
    ASSUME SessionsApart, Tame
    PROVE  SessionsApart'
  BY DEF SessionsApart, Tame

\* Under a tame step the workers that do not move keep what they know, and one that
\* gives its task up knows nothing.
LEMMA TameWorkers ==
    ASSUME WorkersApart, Tame,
           \/ writer' = writer
           \/ \E w \in Writers : writer' = [writer EXCEPT ![w] = NoTask]
    PROVE  WorkersApart'
<1>1. DOMAIN writer' = Writers
  BY DEF WorkersApart
<1>2. ASSUME NEW v \in Writers PROVE writer'[v] = writer[v] \/ writer'[v] = NoTask
  BY DEF WorkersApart
<1>3. ASSUME NEW v \in Writers, writer'[v] = writer[v]
      PROVE  /\ IsTask(writer'[v])
             /\ writer'[v].pc \in {"stored", "merging"} => OwnRow(writer'[v].row)
             /\ writer'[v].pc = "merging" =>
                  \A i \in writer'[v].seen :
                    /\ i \in Ids /\ i <= lastId'
                    /\ session'[i].status = "live" => session'[i].key = writer'[v].row.key
  BY <1>3 DEF WorkersApart, Tame
<1>4. ASSUME NEW v \in Writers, writer'[v] = NoTask
      PROVE  IsTask(writer'[v]) /\ writer'[v].pc \notin {"stored", "merging"}
  BY <1>4, IdleTask
<1> QED
  BY <1>1, <1>2, <1>3, <1>4 DEF WorkersApart

-----------------------------------------------------------------------------
\* Merging rows of one key yields rows of that key.
Rowed(s) == \A i \in Ids : IsRow(s[i])
SentBy(s, group, k) == \A i \in group : s[i].from = {k}
Merged(s, group, f) ==
    \A i \in Ids :
        /\ IsRow(f[i]) /\ f[i].key = s[i].key
        /\ i \notin group => f[i] = s[i]
        /\ f[i].status = "live" => s[i].status = "live" /\ f[i].from = s[i].from

LEMMA FoldKeepsOwner ==
    ASSUME NEW s, NEW group, group \subseteq Ids, NEW k, Rowed(s), SentBy(s, group, k)
    PROVE  Merged(s, group, Fold(s, group))
<1> SUFFICES ASSUME NEW i \in Ids
             PROVE  LET r == Fold(s, group)[i]
                    IN  /\ IsRow(r) /\ r.key = s[i].key
                        /\ i \notin group => r = s[i]
                        /\ r.status = "live" => s[i].status = "live" /\ r.from = s[i].from
  BY DEF Merged
<1>0. (\A j \in Ids : IsRow(s[j])) /\ (\A j \in group : s[j].from = {k})
  BY DEF Rowed, SentBy
<1> DEFINE gone == Redundant(s, group)
           into == {j \in gone : Container(s, group, j) = i}
           foreign == UNION {s[j].from : j \in into}
<1>1. gone \subseteq group
  BY DEF Redundant
<1>2. Fold(s, group)[i] =
        IF i \in gone THEN [s[i] EXCEPT !.status = "soft"]
        ELSE IF i \in group
        THEN [s[i] EXCEPT !.tools = @ \cup UNION {s[j].tools : j \in into}, !.from = @ \cup foreign]
        ELSE s[i]
  BY DEF Fold
<1>3. CASE i \in gone
  BY <1>0, <1>1, <1>2, <1>3, StatusUpdate
<1>4. CASE i \notin gone /\ i \in group
  <2>1. foreign \subseteq {k}
    BY <1>0, <1>1
  <2>2. Fold(s, group)[i] =
          [s[i] EXCEPT !.tools = @ \cup UNION {s[j].tools : j \in into}, !.from = @ \cup foreign]
    BY <1>2, <1>4
  <2>3. s[i].from \cup foreign = s[i].from
    BY <1>0, <1>4, <2>1
  <2> DEFINE r == s[i]
             tools == UNION {s[j].tools : j \in into}
             q == Fold(s, group)[i]
  <2>4. q = [r EXCEPT !.tools = @ \cup tools, !.from = @ \cup foreign]
    BY <2>2
  <2>5. IsRow(r) /\ r.from \cup foreign = r.from
    BY <1>0, <2>3
  <2> HIDE DEF r, q, tools, foreign
  <2>6. IsRow(q) /\ q.status = r.status /\ q.key = r.key /\ q.from = r.from \cup foreign
    BY <2>4, <2>5 DEF IsRow
  <2> USE DEF r, q
  <2> QED
    BY <1>4, <2>5, <2>6
<1>5. CASE i \notin group
  BY <1>0, <1>1, <1>2, <1>5
<1> QED
  BY <1>3, <1>4, <1>5

LEMMA RollForwardKeepsOwner ==
    ASSUME SessionsApart, NEW keeper \in Ids, NEW id, NEW row,
           session[keeper].from = {session[keeper].key}, row.from = {session[keeper].key}
    PROVE  \A i \in Ids :
              LET r == RollForward(keeper, id, row)[i]
              IN  /\ IsRow(r) /\ r.key = session[i].key
                  /\ session[i].status = "none" => r.status = "none"
                  /\ r.status = "live" => session[i].status = "live" /\ r.from = session[i].from
<1> SUFFICES ASSUME NEW i \in Ids
             PROVE  LET r == RollForward(keeper, id, row)[i]
                    IN  /\ IsRow(r) /\ r.key = session[i].key
                        /\ session[i].status = "none" => r.status = "none"
                        /\ r.status = "live" => session[i].status = "live" /\ r.from = session[i].from
  OBVIOUS
<1>1. IsRow(session[i])
  BY DEF SessionsApart
<1>2. CASE i = keeper
  <2>1. RollForward(keeper, id, row)[i] =
          [session[i] EXCEPT !.msgs = row.msgs, !.tools = @ \cup row.tools, !.from = @ \cup row.from]
    BY <1>2 DEF RollForward
  <2> DEFINE r == session[i]
             q == RollForward(keeper, id, row)[i]
  <2>2. q = [r EXCEPT !.msgs = row.msgs, !.tools = @ \cup row.tools, !.from = @ \cup row.from]
    BY <2>1
  <2>3. IsRow(r) /\ r.from \cup row.from = r.from
    BY <1>1, <1>2
  <2> HIDE DEF r, q
  <2>4. IsRow(q) /\ q.status = r.status /\ q.key = r.key /\ q.from = r.from \cup row.from
    BY <2>2, <2>3 DEF IsRow
  <2> USE DEF r, q
  <2> QED
    BY <2>3, <2>4
<1>3. CASE i # keeper /\ i = id /\ session[i].status = "live"
  <2>1. RollForward(keeper, id, row)[i] = [session[i] EXCEPT !.status = "soft"]
    BY <1>3 DEF RollForward
  <2> QED
    BY <1>1, <1>3, <2>1, StatusUpdate
<1>4. CASE i # keeper /\ ~(i = id /\ session[i].status = "live")
  <2>1. RollForward(keeper, id, row)[i] = session[i]
    BY <1>4 DEF RollForward
  <2> QED
    BY <1>1, <2>1
<1> QED
  BY <1>2, <1>3, <1>4

LEMMA SoftDeleteIsTame ==
    ASSUME SessionsApart, NEW rows, session' = SoftDelete(rows), lastId' = lastId
    PROVE  Tame
<1>1. DOMAIN session' = Ids
  BY DEF SoftDelete
<1>2. ASSUME NEW i \in Ids
      PROVE  /\ IsRow(session'[i])
             /\ session[i].status = "none" => session'[i].status = "none"
             /\ session'[i].status = "live" =>
                  /\ session[i].status = "live" /\ session'[i].key = session[i].key
                  /\ session'[i].from = {session[i].key}
  <2>1. IsRow(session[i]) /\ (session[i].status = "live" => session[i].from = {session[i].key})
    BY DEF SessionsApart
  <2>2. CASE i \in rows \cap Live
    <3>1. session'[i] = [session[i] EXCEPT !.status = "soft"] /\ session[i].status = "live"
      BY <2>2 DEF SoftDelete, Live
    <3> QED
      BY <2>1, <3>1, StatusUpdate
  <2>3. CASE i \notin rows \cap Live
    BY <2>1, <2>3 DEF SoftDelete
  <2> QED
    BY <2>2, <2>3
<1> QED
  BY <1>1, <1>2 DEF Tame

LEMMA PurgeSessionsIsTame ==
    ASSUME SessionsApart, PurgeSessions
    PROVE  Tame
<1>1. DOMAIN session' = Ids /\ lastId' = lastId
  BY DEF PurgeSessions
<1>2. ASSUME NEW i \in Ids
      PROVE  \/ session'[i] = session[i]
             \/ /\ session[i].status = "soft"
                /\ IsRow(session'[i]) /\ session'[i].status = "gone"
  BY DEF PurgeSessions, Deleted, NoSession, IsRow
<1>3. ASSUME NEW i \in Ids
      PROVE  IsRow(session[i]) /\ (session[i].status = "live" => session[i].from = {session[i].key})
  BY DEF SessionsApart
<1> QED
  BY <1>1, <1>2, <1>3 DEF Tame

\* What a worker finds again when it merges: rows of its own key, alive.
LEMMA MergeIsTame ==
    ASSUME OwnersInv, NEW w \in Writers, Merge(w)
    PROVE  Tame
<1> DEFINE id == writer[w].id
           row == writer[w].row
           group == writer[w].seen \cap Live
           others == group \ {id}
           keeper == Continued(row, others)
<1>1. /\ OwnRow(row) /\ group \in SUBSET Ids /\ others \in SUBSET Ids
      /\ \A i \in group : session[i].status = "live" /\ session[i].key = row.key /\ session[i].from = {row.key}
  BY DEF OwnersInv, WorkersApart, SessionsApart, Merge, Live
<1>2. \A i \in Ids : IsRow(session[i])
  BY DEF OwnersInv, SessionsApart
<1>3. lastId' = lastId
  BY DEF Merge
<1>4. CASE keeper = {}
  <2>1. session' = Fold(session, group)
    BY <1>4 DEF Merge
  <2>2. DOMAIN session' = Ids
    BY <2>1 DEF Fold
  <2> HIDE DEF group, row
  <2>3. Rowed(session) /\ SentBy(session, group, row.key) /\ group \subseteq Ids
    BY <1>1, <1>2 DEF Rowed, SentBy
  <2>5. Merged(session, group, session')
    BY <2>1, <2>3, FoldKeepsOwner
  <2>4. \A i \in Ids : session[i].status = "live" => session[i].from = {session[i].key}
    BY DEF OwnersInv, SessionsApart
  <2> QED
    BY <1>1, <1>3, <2>2, <2>4, <2>5 DEF Tame, Merged
<1>5. CASE keeper # {}
  <2> DEFINE kept == CHOOSE i \in keeper : TRUE
             rolled == RollForward(kept, id, row)
  <2>1. kept \in others
    BY <1>5 DEF Continued
  <2>2. session' = Fold(rolled, others)
    BY <1>5 DEF Merge
  <2>3. DOMAIN session' = Ids
    BY <2>2 DEF Fold
  <2>4. kept \in Ids /\ session[kept].from = {session[kept].key} /\ row.from = {session[kept].key}
    BY <1>1, <2>1 DEF OwnRow
  <2> HIDE DEF group, kept, row, id, keeper
  <2>5. \A i \in Ids : /\ IsRow(rolled[i]) /\ rolled[i].key = session[i].key
                       /\ session[i].status = "none" => rolled[i].status = "none"
                       /\ rolled[i].status = "live" =>
                            session[i].status = "live" /\ rolled[i].from = session[i].from
    BY <2>4, RollForwardKeepsOwner DEF OwnersInv
  <2>6. \A i \in others : rolled[i].from = {row.key}
    <3>1. ASSUME NEW i \in others PROVE rolled[i].from = {row.key}
      <4>1. i \in Ids /\ i # id /\ session[i].from = {row.key}
        BY <1>1
      <4>2. CASE i = kept
        <5>1. rolled[i] = [session[i] EXCEPT !.msgs = row.msgs, !.tools = @ \cup row.tools, !.from = @ \cup row.from]
          BY <4>1, <4>2 DEF RollForward
        <5> DEFINE r == session[i]
                   q == rolled[i]
        <5>2. q = [r EXCEPT !.msgs = row.msgs, !.tools = @ \cup row.tools, !.from = @ \cup row.from]
          BY <5>1
        <5>3. IsRow(r)
          BY <1>2, <4>1
        <5> HIDE DEF r, q
        <5>4. q.from = r.from \cup row.from
          BY <5>2, <5>3 DEF IsRow
        <5> USE DEF r, q
        <5> QED
          BY <4>1, <5>4, <1>1 DEF OwnRow
      <4>3. CASE i # kept
        BY <4>1, <4>3 DEF RollForward
      <4> QED
        BY <4>2, <4>3
    <3> QED
      BY <3>1
  <2> HIDE DEF rolled, others
  <2>10. Rowed(rolled) /\ SentBy(rolled, others, row.key) /\ others \subseteq Ids
    BY <1>1, <2>5, <2>6 DEF Rowed, SentBy
  <2>7. Merged(rolled, others, session')
    BY <2>2, <2>10, FoldKeepsOwner
  <2>8. \A i \in Ids : session[i].status = "live" => session[i].from = {session[i].key}
    BY DEF OwnersInv, SessionsApart
  <2>9. \A i \in others : i \in Ids /\ session[i].status = "live"
    BY <1>1 DEF others
  <2> QED
    BY <1>3, <2>3, <2>5, <2>7, <2>8, <2>9 DEF Tame, Merged
<1> QED
  BY <1>4, <1>5

-----------------------------------------------------------------------------
\* The steps that give a worker something to hold.
LEMMA LookupKeeps ==
    ASSUME OwnersInv, NEW w \in Writers, NEW snapshot, Lookup(w, snapshot)
    PROVE  WorkersApart'
<1> DEFINE task == [NoTask EXCEPT
                      !.pc = "storing", !.key = snapshot.key, !.convo = snapshot.convo,
                      !.tools = snapshot.tools,
                      !.found = [i \in ToSet(snapshot.convo) \cup snapshot.tools |-> rowOf[i]]]
<1>1. writer' = [writer EXCEPT ![w] = task] /\ session' = session /\ lastId' = lastId
  BY DEF Lookup, data
<1>2. IsTask(task) /\ task.pc = "storing"
  BY DEF IsTask, NoTask
<1> HIDE DEF task
<1>3. DOMAIN writer' = Writers /\ writer'[w] = task
  BY <1>1 DEF OwnersInv, WorkersApart
<1>4. ASSUME NEW v \in Writers, v # w PROVE writer'[v] = writer[v]
  BY <1>1, <1>4 DEF OwnersInv, WorkersApart
<1> QED
  BY <1>1, <1>2, <1>3, <1>4 DEF OwnersInv, WorkersApart

LEMMA StoreKeeps ==
    ASSUME SessionAssumption, OwnersInv, NEW w \in Writers, Store(w)
    PROVE  OwnersInv'
<1> DEFINE row == NewSession(writer[w], RowsFor(writer[w].found))
           task == [NoTask EXCEPT !.pc = "stored", !.id = lastId + 1, !.row = row]
<1>1. /\ session' = [session EXCEPT ![lastId + 1] = row] /\ lastId' = lastId + 1
      /\ writer' = [writer EXCEPT ![w] = task]
  BY DEF Store
<1>2. OwnRow(row) /\ row.status = "live"
  BY DEF NewSession, OwnRow, IsRow
<1> HIDE DEF row
<1>3. IsTask(task) /\ task.pc = "stored" /\ task.row = row
  BY DEF IsTask, NoTask
<1> HIDE DEF task
<1>4. lastId \in Nat /\ lastId' \in Nat /\ lastId + 1 \in Ids /\ \A i \in Ids : i \in Nat
  BY <1>1 DEF OwnersInv, SessionsApart, Ids, SessionAssumption, Store
<1>5. \A i \in Ids : session'[i] = IF i = lastId + 1 THEN row ELSE session[i]
  BY <1>1 DEF OwnersInv, SessionsApart
<1>6. SessionsApart'
  <2>1. DOMAIN session' = Ids
    BY <1>1 DEF OwnersInv, SessionsApart
  <2>2. ASSUME NEW i \in Ids
        PROVE  /\ IsRow(session'[i])
               /\ session'[i].status = "live" => session'[i].from = {session'[i].key}
               /\ i > lastId' => session'[i].status = "none"
    BY <1>1, <1>2, <1>4, <1>5 DEF OwnersInv, SessionsApart, OwnRow
  <2> QED
    BY <1>4, <2>1, <2>2 DEF SessionsApart
<1>7. WorkersApart'
  <2>1. DOMAIN writer' = Writers /\ writer'[w] = task
    BY <1>1 DEF OwnersInv, WorkersApart
  <2>2. ASSUME NEW v \in Writers, v # w PROVE writer'[v] = writer[v]
    BY <1>1, <2>2 DEF OwnersInv, WorkersApart
  <2>3. ASSUME NEW v \in Writers, v # w
        PROVE  /\ IsTask(writer'[v])
               /\ writer'[v].pc \in {"stored", "merging"} => OwnRow(writer'[v].row)
               /\ writer'[v].pc = "merging" =>
                    \A i \in writer'[v].seen :
                      /\ i \in Ids /\ i <= lastId'
                      /\ session'[i].status = "live" => session'[i].key = writer'[v].row.key
    <3>1. writer'[v] = writer[v]
      BY <2>2, <2>3
    <3>2. ASSUME writer[v].pc = "merging", NEW i \in writer[v].seen
          PROVE  /\ i \in Ids /\ i <= lastId'
                 /\ session'[i].status = "live" => session'[i].key = writer[v].row.key
      <4>1. /\ i \in Ids /\ i <= lastId
            /\ session[i].status = "live" => session[i].key = writer[v].row.key
        BY <3>2 DEF OwnersInv, WorkersApart
      <4> QED
        BY <1>1, <1>4, <1>5, <4>1
    <3> QED
      BY <3>1, <3>2 DEF OwnersInv, WorkersApart
  <2> QED
    BY <1>2, <1>3, <2>1, <2>3 DEF WorkersApart
<1> QED
  BY <1>6, <1>7 DEF OwnersInv

LEMMA MergeScanKeeps ==
    ASSUME SessionAssumption, OwnersInv, NEW w \in Writers, MergeScan(w)
    PROVE  WorkersApart'
<1> DEFINE scan == {i \in Live : SameGroup(session[i], writer[w].row)}
           task == [writer[w] EXCEPT !.pc = "merging", !.seen = scan]
<1>1. writer' = [writer EXCEPT ![w] = task] /\ session' = session /\ lastId' = lastId
  <2>1. writer' = [writer EXCEPT ![w].pc = "merging", ![w].seen = scan]
    BY DEF MergeScan
  <2>2. IsTask(writer[w]) /\ DOMAIN writer = Writers
    BY DEF OwnersInv, WorkersApart
  <2> HIDE DEF scan
  <2>3. [writer EXCEPT ![w].pc = "merging", ![w].seen = scan] = [writer EXCEPT ![w] = task]
    BY <2>2
  <2> QED
    BY <2>1, <2>3 DEF MergeScan, data
<1>2. writer[w].pc = "stored" /\ IsTask(writer[w]) /\ OwnRow(writer[w].row)
  BY DEF MergeScan, OwnersInv, WorkersApart
<1>3. \A i \in scan : /\ i \in Ids /\ i <= lastId
                      /\ session[i].key = writer[w].row.key
  BY DEF Live, SameGroup, OwnersInv, SessionsApart, Ids, SessionAssumption
<1> HIDE DEF scan
<1>4. IsTask(task) /\ task.pc = "merging" /\ task.seen = scan /\ task.row = writer[w].row
  BY <1>2, ScanUpdate
<1> HIDE DEF task
<1>5. DOMAIN writer' = Writers /\ writer'[w] = task
  BY <1>1 DEF OwnersInv, WorkersApart
<1>6. ASSUME NEW v \in Writers, v # w PROVE writer'[v] = writer[v]
  BY <1>1, <1>6 DEF OwnersInv, WorkersApart
<1> QED
  BY <1>1, <1>2, <1>3, <1>4, <1>5, <1>6 DEF OwnersInv, WorkersApart

-----------------------------------------------------------------------------
\* The steps that are tame: whose sessions they are does not change.
LEMMA TameKeeps ==
    ASSUME OwnersInv, Tame,
           \/ writer' = writer
           \/ \E w \in Writers : writer' = [writer EXCEPT ![w] = NoTask]
    PROVE  OwnersInv'
  BY TameSessions, TameWorkers DEF OwnersInv

LEMMA OwnersStep ==
    ASSUME SessionAssumption, OwnersInv, [Next]_vars
    PROVE  OwnersInv'
<1>1. CASE UNCHANGED vars
  <2>1. UNCHANGED <<lastId, session, writer>>
    BY <1>1 DEF vars, data
  <2> QED
    BY <2>1, UnchangedIsTame, TameKeeps DEF OwnersInv
<1>2. ASSUME NEW w \in Writers, Work(w) PROVE OwnersInv'
  <2>1. ASSUME NEW snapshot \in Snapshots, Lookup(w, snapshot) PROVE OwnersInv'
    <3>1. UNCHANGED <<lastId, session>>
      BY <2>1 DEF Lookup, data
    <3>2. SessionsApart'
      BY <3>1, UnchangedIsTame, TameSessions DEF OwnersInv
    <3> QED
      BY <2>1, <3>2, LookupKeeps DEF OwnersInv
  <2>2. CASE Store(w)
    BY <2>2, StoreKeeps
  <2>3. CASE StoreFails(w) \/ MergeFails(w)
    <3>1. UNCHANGED <<lastId, session>> /\ writer' = [writer EXCEPT ![w] = NoTask]
      BY <2>3 DEF StoreFails, MergeFails, data
    <3> QED
      BY <3>1, UnchangedIsTame, TameKeeps DEF OwnersInv
  <2>4. CASE MergeScan(w)
    <3>1. UNCHANGED <<lastId, session>>
      BY <2>4 DEF MergeScan, data
    <3>2. SessionsApart'
      BY <3>1, UnchangedIsTame, TameSessions DEF OwnersInv
    <3> QED
      BY <2>4, <3>2, MergeScanKeeps DEF OwnersInv
  <2>5. CASE Merge(w)
    <3>1. writer' = [writer EXCEPT ![w] = NoTask]
      BY <2>5 DEF Merge
    <3> QED
      BY <2>5, <3>1, MergeIsTame, TameKeeps
  <2> QED
    BY <1>2, <2>1, <2>2, <2>3, <2>4, <2>5 DEF Work
<1>3. ASSUME NEW i \in Ids, UserDeletes(i) PROVE OwnersInv'
  <2>1. session' = SoftDelete({i}) /\ UNCHANGED <<lastId, writer>>
    BY <1>3 DEF UserDeletes
  <2> QED
    BY <2>1, SoftDeleteIsTame, TameKeeps DEF OwnersInv
<1>4. CASE CleanupDelete
  <2>1. session' = SoftDelete(cleanup.rows) /\ UNCHANGED <<lastId, writer>>
    BY <1>4 DEF CleanupDelete
  <2> QED
    BY <2>1, SoftDeleteIsTame, TameKeeps DEF OwnersInv
<1>5. CASE PurgeSessions
  <2>1. writer' = writer
    BY <1>5 DEF PurgeSessions
  <2> QED
    BY <1>5, <2>1, PurgeSessionsIsTame, TameKeeps DEF OwnersInv
<1>6. ASSUME \/ \E i \in Ids : GrowIdle(i)
             \/ CleanupScan \/ PurgeReadDeleted \/ PurgeReadActive
             \/ PurgeMessages \/ PurgeTools \/ PurgeFails
      PROVE  OwnersInv'
  <2>1. UNCHANGED <<lastId, session, writer>>
    BY <1>6 DEF GrowIdle, CleanupScan, PurgeReadDeleted, PurgeReadActive,
                PurgeMessages, PurgeTools, PurgeFails, data
  <2> QED
    BY <2>1, UnchangedIsTame, TameKeeps DEF OwnersInv
<1> QED
  BY <1>1, <1>2, <1>3, <1>4, <1>5, <1>6 DEF Next

LEMMA OwnersInit ==
    ASSUME SessionAssumption, Init
    PROVE  OwnersInv
<1>1. IsRow(NoSession) /\ NoSession.status = "none"
  BY DEF IsRow, NoSession
<1>2. SessionsApart
  BY <1>1 DEF Init, SessionsApart
<1>3. WorkersApart
  BY IdleTask DEF Init, WorkersApart
<1> QED
  BY <1>2, <1>3 DEF OwnersInv

-----------------------------------------------------------------------------
\* Whatever is inserted, merged, deleted, cleaned up and purged, in whatever order and
\* with whatever failures: a live session holds what its own key sent and nothing else.
THEOREM TenantsIsolated == Spec => []TenantsApart
<1>1. Init => OwnersInv
  BY OwnersInit, SessionAssumption
<1>2. OwnersInv /\ [Next]_vars => OwnersInv'
  BY OwnersStep, SessionAssumption
<1>3. OwnersInv => TenantsApart
  BY DEF OwnersInv, SessionsApart, TenantsApart, Live
<1> QED
  BY <1>1, <1>2, <1>3, PTL DEF Spec

-----------------------------------------------------------------------------
(***************************************************************************)
(* The purge takes nothing a live session names.  The inductive invariant  *)
(* says where row numbers come from, and, as long as no worker has written *)
(* rows from memory that a purge had taken or picked, that live sessions   *)
(* name rows that exist and that the purge in progress has not picked.     *)
(***************************************************************************)
Held == {rowOf[x] : x \in Items}
Picked == IF purge.pc \in {"orphans", "tools"} THEN purge.rows ELSE {}

RowsKnown ==
    /\ lastRow \in Nat /\ DOMAIN rowOf = Items
    /\ \A x \in Items : rowOf[x] \in 0..lastRow
    /\ \A i \in Ids : Names(session[i]) \subseteq 1..lastRow
    /\ purge.rows \subseteq 1..lastRow

TasksKnown ==
    \A w \in Writers :
        /\ writer[w].pc \in {"stored", "merging"} => Names(writer[w].row) \subseteq 1..lastRow
        /\ writer[w].pc = "storing" =>
             /\ DOMAIN writer[w].found = ToSet(writer[w].convo) \cup writer[w].tools
             /\ DOMAIN writer[w].found \subseteq Items /\ IsFiniteSet(DOMAIN writer[w].found)
             /\ \A x \in DOMAIN writer[w].found : writer[w].found[x] \in 0..lastRow

Backed == ~overlap => \A i \in Live : Names(session[i]) \subseteq Held \ Picked

NamesInv == OwnersInv /\ RowsKnown /\ TasksKnown /\ Backed

-----------------------------------------------------------------------------
\* A sequence holds finitely many contents.
LEMMA SequenceFinite ==
    ASSUME NEW S, NEW s \in Seq(S)
    PROVE  ToSet(s) \subseteq S /\ IsFiniteSet(ToSet(s))
<1>1. Len(s) \in Nat /\ DOMAIN s = 1..Len(s) /\ \A n \in 1..Len(s) : s[n] \in S
  OBVIOUS
<1>2. s \in Surjection(1..Len(s), ToSet(s))
  BY <1>1 DEF Surjection, ToSet
<1>3. IsFiniteSet(1..Len(s))
  BY <1>1, FS_Interval
<1> QED
  BY <1>1, <1>2, <1>3, FS_Surjection DEF ToSet

\* Every element of a finite set has its place when the set is listed.
LEMMA Listed ==
    ASSUME NEW S, IsFiniteSet(S)
    PROVE  /\ Cardinality(S) \in Nat /\ DOMAIN SetToSeq(S) = 1..Cardinality(S)
           /\ \A x \in S : \E n \in 1..Cardinality(S) : SetToSeq(S)[n] = x
<1>1. Cardinality(S) \in Nat /\ ExistsBijection(1..Cardinality(S), S)
  BY FS_CardinalityType
<1>2. \E f \in [1..Cardinality(S) -> S] : IsInjective(f)
  BY <1>1 DEF ExistsBijection, Bijection, Injection
<1>3. SetToSeq(S) \in Injection(1..Cardinality(S), S)
  BY <1>2 DEF SetToSeq, Injection
<1>4. IsFiniteSet(1..Cardinality(S)) /\ Cardinality(1..Cardinality(S)) = Cardinality(S)
  BY <1>1, FS_Interval
<1>5. SetToSeq(S) \in Surjection(1..Cardinality(S), S)
  BY <1>3, <1>4, FS_Injection
<1> QED
  BY <1>1, <1>5 DEF Surjection

\* The rows of a snapshot: known ones, or the next free numbers.
LEMMA RowsForContents ==
    ASSUME RowsKnown, NEW found, DOMAIN found \subseteq Items, IsFiniteSet(DOMAIN found),
           \A x \in DOMAIN found : found[x] \in 0..lastRow
    PROVE  LET rows == RowsFor(found)
               new == {x \in DOMAIN rows : rows[x] > lastRow}
           IN  /\ DOMAIN rows = DOMAIN found /\ Cardinality(new) \in Nat
               /\ \A x \in DOMAIN found : rows[x] \in 1..(lastRow + Cardinality(new))
               /\ \A x \in new : rowOf[x] = 0
<1> DEFINE fresh == {x \in DOMAIN found : found[x] = 0 /\ rowOf[x] = 0}
           rows == RowsFor(found)
           new == {x \in DOMAIN rows : rows[x] > lastRow}
<1>1. IsFiniteSet(fresh)
  BY FS_Subset
<1>2. /\ Cardinality(fresh) \in Nat /\ DOMAIN SetToSeq(fresh) = 1..Cardinality(fresh)
      /\ \A x \in fresh : \E n \in DOMAIN SetToSeq(fresh) : SetToSeq(fresh)[n] = x
  BY <1>1, Listed
<1>3. DOMAIN rows = DOMAIN found
  BY DEF RowsFor
<1>4. lastRow \in Nat /\ \A x \in DOMAIN found : found[x] \in 0..lastRow /\ rowOf[x] \in 0..lastRow
  BY DEF RowsKnown
<1>5. ASSUME NEW x \in fresh
      PROVE  rows[x] \in (lastRow + 1)..(lastRow + Cardinality(fresh))
  <2> DEFINE n == CHOOSE n \in DOMAIN SetToSeq(fresh) : SetToSeq(fresh)[n] = x
  <2>1. rows[x] = lastRow + n
    BY DEF RowsFor
  <2>2. n \in 1..Cardinality(fresh)
    BY <1>2
  <2> HIDE DEF n, rows, fresh
  <2> QED
    BY <1>2, <1>4, <2>1, <2>2
<1>6. ASSUME NEW x \in DOMAIN found, x \notin fresh
      PROVE  rows[x] \in 1..lastRow
  BY <1>4, <1>6 DEF RowsFor
<1>7. new = fresh
  <2> SUFFICES {x \in DOMAIN found : rows[x] > lastRow} = fresh
    BY <1>3
  <2> HIDE DEF rows
  <2>1. ASSUME NEW x \in DOMAIN found PROVE x \in fresh <=> rows[x] > lastRow
    <3>1. CASE x \in fresh
      <4> HIDE DEF fresh
      <4> QED
        BY <1>2, <1>4, <1>5, <3>1
    <3>2. CASE x \notin fresh
      BY <1>4, <1>6, <3>2
    <3> QED
      BY <3>1, <3>2
  <2> QED
    BY <2>1
<1> HIDE DEF rows, new
<1>8. \A x \in DOMAIN found : rows[x] \in 1..(lastRow + Cardinality(new))
  BY <1>2, <1>4, <1>5, <1>6, <1>7
<1>9. \A x \in new : rowOf[x] = 0
  BY <1>7
<1> USE DEF rows, new
<1> QED
  BY <1>2, <1>3, <1>7, <1>8, <1>9

-----------------------------------------------------------------------------
\* What a merged row names, one of the rows named.
LEMMA FoldNames ==
    ASSUME NEW s, NEW group, group \subseteq Ids, NEW N, Rowed(s), \A j \in group : Names(s[j]) \subseteq N
    PROVE  \A i \in Ids : IF i \in group THEN Names(Fold(s, group)[i]) \subseteq N
                                         ELSE Fold(s, group)[i] = s[i]
<1> SUFFICES ASSUME NEW i \in Ids
             PROVE  IF i \in group THEN Names(Fold(s, group)[i]) \subseteq N
                                   ELSE Fold(s, group)[i] = s[i]
  OBVIOUS
<1> DEFINE gone == Redundant(s, group)
           into == {j \in gone : Container(s, group, j) = i}
           tools == UNION {s[j].tools : j \in into}
           from == UNION {s[j].from : j \in into}
           r == s[i]
           q == Fold(s, group)[i]
<1>1. gone \subseteq group
  BY DEF Redundant
<1>2. q = IF i \in gone THEN [r EXCEPT !.status = "soft"]
          ELSE IF i \in group THEN [r EXCEPT !.tools = @ \cup tools, !.from = @ \cup from]
          ELSE r
  BY DEF Fold
<1>3. tools \subseteq N
  BY <1>1 DEF Names
<1>4. IsRow(r) /\ (i \in group => Names(r) \subseteq N)
  BY DEF Rowed
<1> HIDE DEF gone, into, tools, from, r, q
<1>5. CASE i \in gone
  <2>1. q.msgs = r.msgs /\ q.tools = r.tools
    BY <1>2, <1>4, <1>5 DEF IsRow
  <2> QED
    BY <1>1, <1>4, <1>5, <2>1 DEF Names, q
<1>6. CASE i \notin gone /\ i \in group
  <2>1. q.msgs = r.msgs /\ q.tools = r.tools \cup tools
    BY <1>2, <1>4, <1>6 DEF IsRow
  <2> QED
    BY <1>3, <1>4, <1>6, <2>1 DEF Names, q
<1>7. CASE i \notin group
  BY <1>1, <1>2, <1>7 DEF q, r
<1> QED
  BY <1>5, <1>6, <1>7

LEMMA RollForwardNames ==
    ASSUME NEW keeper, NEW id, NEW row, NEW i \in Ids, IsRow(session[i])
    PROVE  LET r == RollForward(keeper, id, row)[i]
           IN  Names(r) \subseteq Names(session[i]) \cup (IF i = keeper THEN Names(row) ELSE {})
<1> DEFINE s == session[i]
           q == RollForward(keeper, id, row)[i]
<1>1. q = IF i = keeper
          THEN [s EXCEPT !.msgs = row.msgs, !.tools = @ \cup row.tools, !.from = @ \cup row.from]
          ELSE IF i = id /\ s.status = "live" THEN [s EXCEPT !.status = "soft"] ELSE s
  BY DEF RollForward
<1>2. IsRow(s)
  OBVIOUS
<1> HIDE DEF s, q
<1>3. IF i = keeper THEN q.msgs = row.msgs /\ q.tools = s.tools \cup row.tools
                    ELSE q.msgs = s.msgs /\ q.tools = s.tools
  BY <1>1, <1>2 DEF IsRow
<1>4. Names(q) \subseteq Names(s) \cup (IF i = keeper THEN Names(row) ELSE {})
  BY <1>3 DEF Names
<1> QED
  BY <1>4 DEF s, q

\* Whether a merge writes back a row from its worker's memory.
WritesBack(w) == Continued(writer[w].row, (writer[w].seen \cap Live) \ {writer[w].id}) # {}

LEMMA MergeNames ==
    ASSUME OwnersInv, NEW w \in Writers, Merge(w), NEW N,
           \A i \in Live : Names(session[i]) \subseteq N,
           WritesBack(w) => Names(writer[w].row) \subseteq N
    PROVE  \A i \in Ids : \/ Names(session'[i]) \subseteq Names(session[i])
                          \/ Names(session'[i]) \subseteq N
<1> DEFINE id == writer[w].id
           row == writer[w].row
           group == writer[w].seen \cap Live
           others == group \ {id}
           keeper == Continued(row, others)
<1>1. group \subseteq Ids /\ group \subseteq Live /\ others \subseteq group
  BY DEF Live
<1>2. \A i \in Ids : IsRow(session[i])
  BY DEF OwnersInv, SessionsApart
<1>3. CASE keeper = {}
  <2>1. session' = Fold(session, group)
    BY <1>3 DEF Merge
  <2>2. Rowed(session) /\ \A j \in group : Names(session[j]) \subseteq N
    BY <1>1, <1>2 DEF Rowed
  <2> HIDE DEF group
  <2> QED
    BY <1>1, <2>1, <2>2, FoldNames
<1>4. CASE keeper # {}
  <2> DEFINE kept == CHOOSE i \in keeper : TRUE
             rolled == RollForward(kept, id, row)
  <2>1. kept \in others
    BY <1>4 DEF Continued
  <2>2. session' = Fold(rolled, others)
    BY <1>4 DEF Merge
  <2>3. Names(row) \subseteq N
    BY <1>4 DEF WritesBack
  <2>4. kept \in Ids /\ session[kept].from = {session[kept].key} /\ row.from = {session[kept].key}
    BY <2>1 DEF OwnersInv, WorkersApart, SessionsApart, Merge, Live, OwnRow
  <2> HIDE DEF others, kept, row, id, keeper
  <2>5. Rowed(rolled)
    BY <2>4, RollForwardKeepsOwner DEF OwnersInv, Rowed
  <2>6. \A i \in Ids : Names(rolled[i]) \subseteq Names(session[i]) \cup (IF i = kept THEN Names(row) ELSE {})
    BY <1>2, RollForwardNames
  <2> HIDE DEF rolled
  <2>7. others \subseteq Ids /\ \A j \in others : Names(session[j]) \subseteq N
    BY <1>1
  <2>8. \A j \in others : Names(rolled[j]) \subseteq N
    BY <2>3, <2>6, <2>7
  <2>9. \A i \in Ids : IF i \in others THEN Names(session'[i]) \subseteq N ELSE session'[i] = rolled[i]
    <3>1. \A i \in Ids : IF i \in others THEN Names(Fold(rolled, others)[i]) \subseteq N
                                         ELSE Fold(rolled, others)[i] = rolled[i]
      BY <2>5, <2>7, <2>8, FoldNames
    <3> QED
      BY <2>2, <3>1
  <2>10. ASSUME NEW i \in Ids, i \notin others PROVE Names(session'[i]) \subseteq Names(session[i])
    <3>1. i # kept /\ session'[i] = rolled[i]
      BY <2>1, <2>9, <2>10
    <3>2. Names(rolled[i]) \subseteq Names(session[i])
      BY <2>6, <3>1
    <3> QED
      BY <3>1, <3>2
  <2> QED
    BY <2>9, <2>10
<1> QED
  BY <1>3, <1>4

-----------------------------------------------------------------------------
\* A step that adds no name to a session, takes no row and picks nothing that a live
\* session names.
LEMMA NamesShrink ==
    ASSUME RowsKnown, Backed, Tame, UNCHANGED <<rowOf, lastRow, overlap>>,
           \A i \in Ids : Names(session'[i]) \subseteq Names(session[i]),
           purge'.rows \subseteq 1..lastRow,
           \/ Picked' \subseteq Picked
           \/ \A i \in Live : Names(session[i]) \cap Picked' = {}
    PROVE  RowsKnown' /\ Backed'
<1>1. RowsKnown'
  BY DEF RowsKnown
<1>2. Held' = Held
  BY DEF Held
<1>3. ASSUME ~overlap, NEW i \in Ids, session'[i].status = "live"
      PROVE  Names(session'[i]) \subseteq Held' \ Picked'
  <2>1. i \in Live
    BY <1>3 DEF Tame, Live
  <2>2. Names(session'[i]) \subseteq Names(session[i]) /\ Names(session[i]) \subseteq Held \ Picked
    BY <1>3, <2>1 DEF Backed
  <2>3. Names(session[i]) \cap Picked' = {}
    BY <2>1, <2>2
  <2> QED
    BY <1>2, <2>2, <2>3
<1>4. Backed'
  <2> SUFFICES ASSUME ~overlap', NEW i \in Live' PROVE Names(session'[i]) \subseteq Held' \ Picked'
    BY DEF Backed
  <2>1. ~overlap /\ i \in Ids /\ session'[i].status = "live"
    BY DEF Live
  <2> QED
    BY <1>3, <2>1
<1> QED
  BY <1>1, <1>4

\* A worker that gives its task up knows no rows.
LEMMA TasksStay ==
    ASSUME WorkersApart, TasksKnown, lastRow' = lastRow,
           \/ writer' = writer
           \/ \E w \in Writers : writer' = [writer EXCEPT ![w] = NoTask]
    PROVE  TasksKnown'
<1>1. ASSUME NEW v \in Writers PROVE writer'[v] = writer[v] \/ writer'[v] = NoTask
  BY DEF WorkersApart
<1>2. NoTask.pc = "idle"
  BY IdleTask
<1> QED
  BY <1>1, <1>2 DEF TasksKnown

\* Dropping what is picked leaves what live sessions name.
LEMMA DropBacks ==
    ASSUME RowsKnown, Backed, NEW contents, Drop(contents), UNCHANGED <<lastRow, session, overlap>>,
           purge.pc \in {"orphans", "tools"},
           purge'.rows \subseteq purge.rows
    PROVE  RowsKnown' /\ Backed'
<1>1. /\ DOMAIN rowOf' = Items
      /\ \A x \in Items : rowOf'[x] = rowOf[x] \/ (rowOf[x] \in purge.rows /\ rowOf'[x] = 0)
  BY DEF Drop
<1>2. RowsKnown'
  BY <1>1 DEF RowsKnown
<1>3. Picked = purge.rows /\ Picked' \subseteq purge.rows
  BY DEF Picked
<1>4. Held \ Picked \subseteq Held' \ Picked'
  BY <1>1, <1>3 DEF Held
<1>5. Backed'
  BY <1>4 DEF Backed, Live
<1> QED
  BY <1>2, <1>5

-----------------------------------------------------------------------------
LEMMA LookupNames ==
    ASSUME SessionAssumption, OwnersInv, RowsKnown, TasksKnown,
           NEW w \in Writers, NEW snapshot \in Snapshots, Lookup(w, snapshot)
    PROVE  TasksKnown'
<1> DEFINE contents == ToSet(snapshot.convo) \cup snapshot.tools
           found == [x \in contents |-> rowOf[x]]
           task == [NoTask EXCEPT
                      !.pc = "storing", !.key = snapshot.key, !.convo = snapshot.convo,
                      !.tools = snapshot.tools, !.found = found]
<1>1. writer' = [writer EXCEPT ![w] = task] /\ lastRow' = lastRow
  BY DEF Lookup, data
<1>2. contents \subseteq Items /\ IsFiniteSet(contents)
  <2>1. snapshot.convo \in Seq(Messages) /\ snapshot.tools \subseteq Tools /\ IsFiniteSet(snapshot.tools)
    BY DEF SessionAssumption
  <2>2. ToSet(snapshot.convo) \subseteq Messages /\ IsFiniteSet(ToSet(snapshot.convo))
    BY <2>1, SequenceFinite
  <2> QED
    BY <2>1, <2>2, FS_Union DEF Items
<1>3. DOMAIN found = contents /\ \A x \in contents : found[x] \in 0..lastRow
  BY <1>2 DEF RowsKnown
<1> HIDE DEF found
<1>4. /\ task.pc = "storing" /\ task.found = found
      /\ task.convo = snapshot.convo /\ task.tools = snapshot.tools
  BY DEF NoTask
<1> HIDE DEF task
<1>5. ASSUME NEW v \in Writers PROVE writer'[v] = IF v = w THEN task ELSE writer[v]
  BY <1>1 DEF OwnersInv, WorkersApart
<1> QED
  BY <1>1, <1>2, <1>3, <1>4, <1>5 DEF TasksKnown

LEMMA ScanNames ==
    ASSUME OwnersInv, TasksKnown, NEW w \in Writers, MergeScan(w)
    PROVE  TasksKnown'
<1> DEFINE scan == {i \in Live : SameGroup(session[i], writer[w].row)}
<1>1. writer[w].pc = "stored" /\ lastRow' = lastRow
      /\ writer' = [writer EXCEPT ![w].pc = "merging", ![w].seen = scan]
  BY DEF MergeScan, data
<1>2. DOMAIN writer = Writers /\ IsTask(writer[w])
  BY DEF OwnersInv, WorkersApart
<1> HIDE DEF scan
<1>3. writer'[w].pc = "merging" /\ writer'[w].row = writer[w].row
  BY <1>1, <1>2 DEF IsTask
<1>4. ASSUME NEW v \in Writers, v # w PROVE writer'[v] = writer[v]
  BY <1>1, <1>2, <1>4
<1> QED
  BY <1>1, <1>3, <1>4 DEF TasksKnown

\* An insert names rows that were there, and not picked, or that it inserts itself.
LEMMA StoreNames ==
    ASSUME SessionAssumption, NamesInv, NEW w \in Writers, Store(w)
    PROVE  RowsKnown' /\ TasksKnown' /\ Backed'
<1> DEFINE task == writer[w]
           rows == RowsFor(task.found)
           new == {x \in DOMAIN rows : rows[x] > lastRow}
           row == NewSession(task, rows)
           next == [NoTask EXCEPT !.pc = "stored", !.id = lastId + 1, !.row = row]
<1>1. /\ rowOf' = [x \in Items |-> IF x \in new THEN rows[x] ELSE rowOf[x]]
      /\ lastRow' = lastRow + Cardinality(new)
      /\ session' = [session EXCEPT ![lastId + 1] = row]
      /\ writer' = [writer EXCEPT ![w] = next]
      /\ overlap' = (overlap \/ Names(row) \cap Doomed # {})
      /\ purge' = purge /\ task.pc = "storing"
  BY DEF Store
<1>2. /\ DOMAIN task.found = ToSet(task.convo) \cup task.tools
      /\ DOMAIN task.found \subseteq Items /\ IsFiniteSet(DOMAIN task.found)
      /\ \A x \in DOMAIN task.found : task.found[x] \in 0..lastRow
  BY <1>1 DEF NamesInv, TasksKnown
<1>3. /\ DOMAIN rows = DOMAIN task.found /\ Cardinality(new) \in Nat
      /\ \A x \in DOMAIN task.found : rows[x] \in 1..(lastRow + Cardinality(new))
      /\ \A x \in new : rowOf[x] = 0
  BY <1>2, RowsForContents DEF NamesInv
<1>4. Names(row) \subseteq {rows[x] : x \in DOMAIN rows}
  <2> HIDE DEF task, rows
  <2>1. /\ row.msgs = [n \in DOMAIN task.convo |-> rows[task.convo[n]]]
        /\ row.tools = {rows[x] : x \in task.tools}
    BY DEF NewSession
  <2>2. (\A n \in DOMAIN task.convo : task.convo[n] \in DOMAIN rows) /\ task.tools \subseteq DOMAIN rows
    BY <1>2, <1>3 DEF ToSet
  <2> HIDE DEF row
  <2>3. ToSet(row.msgs) \subseteq {rows[x] : x \in DOMAIN rows}
    BY <2>1, <2>2 DEF ToSet
  <2> QED
    BY <2>1, <2>2, <2>3 DEF Names
<1>5. next.pc = "stored" /\ next.row = row
  BY DEF NoTask
<1> HIDE DEF task, rows, row, next
<1>6. lastRow \in Nat /\ lastRow' \in Nat /\ \A m \in 1..lastRow : m \in 1..lastRow'
  <2> HIDE DEF new
  <2> QED
    BY <1>1, <1>3 DEF NamesInv, RowsKnown
<1>7. Names(row) \subseteq 1..lastRow'
  <2>1. \A x \in DOMAIN rows : rows[x] \in 1..lastRow'
    BY <1>1, <1>3
  <2> QED
    BY <1>4, <2>1
<1>8. \A i \in Ids : session'[i] = IF i = lastId + 1 THEN row ELSE session[i]
  BY <1>1 DEF NamesInv, OwnersInv, SessionsApart
<1>9. \A v \in Writers : writer'[v] = IF v = w THEN next ELSE writer[v]
  BY <1>1 DEF NamesInv, OwnersInv, WorkersApart
<1>10. \A x \in Items : rowOf'[x] \in 0..lastRow'
  <2>1. ASSUME NEW x \in Items PROVE rowOf'[x] \in 0..lastRow'
    <3>1. CASE x \in new
      BY <1>1, <1>3, <3>1
    <3>2. CASE x \notin new
      <4>1. rowOf'[x] = rowOf[x]
        BY <1>1, <3>2
      <4> QED
        BY <1>6, <4>1 DEF NamesInv, RowsKnown
    <3> QED
      BY <3>1, <3>2
  <2> QED
    BY <2>1
<1>11. RowsKnown'
  <2>1. \A i \in Ids : Names(session'[i]) \subseteq 1..lastRow'
    BY <1>6, <1>7, <1>8 DEF NamesInv, RowsKnown
  <2>2. purge'.rows \subseteq 1..lastRow' /\ DOMAIN rowOf' = Items
    BY <1>1, <1>6 DEF NamesInv, RowsKnown
  <2> QED
    BY <1>6, <1>10, <2>1, <2>2 DEF RowsKnown
<1>12. TasksKnown'
  <2>1. ASSUME NEW v \in Writers, v # w, writer[v].pc = "storing", NEW x \in DOMAIN writer[v].found
        PROVE  writer[v].found[x] \in 0..lastRow'
    <3>1. writer[v].found[x] \in 0..lastRow
      BY <2>1 DEF NamesInv, TasksKnown
    <3> QED
      BY <1>6, <3>1
  <2>2. ASSUME NEW v \in Writers, v # w, writer[v].pc \in {"stored", "merging"}
        PROVE  Names(writer[v].row) \subseteq 1..lastRow'
    BY <1>6, <2>2 DEF NamesInv, TasksKnown
  <2> QED
    BY <1>5, <1>7, <1>9, <2>1, <2>2 DEF NamesInv, TasksKnown
<1>13. Held \ {0} \subseteq Held'
  <2>1. ASSUME NEW x \in Items, rowOf[x] # 0 PROVE rowOf'[x] = rowOf[x]
    BY <1>1, <1>3, <2>1
  <2> QED
    BY <2>1 DEF Held
<1>14. Picked' = Picked /\ Picked \subseteq 1..lastRow
  BY <1>1 DEF Picked, NamesInv, RowsKnown
<1>15. ASSUME ~overlap' PROVE Names(row) \subseteq Held' \ Picked'
  <2>1. Names(row) \cap Doomed = {}
    BY <1>1, <1>15
  <2>2. ASSUME NEW m \in Names(row), m <= lastRow PROVE m \in Held' /\ m \notin Picked'
    <3>1. m \in 1..lastRow
      BY <1>6, <1>7, <2>2
    <3>2. m \in Held /\ m \notin Picked
      BY <2>1, <2>2, <3>1 DEF Doomed, Held, Picked
    <3> QED
      BY <1>13, <1>14, <3>1, <3>2
  <2>3. ASSUME NEW m \in Names(row), ~(m <= lastRow) PROVE m \in Held' /\ m \notin Picked'
    <3>1. PICK x \in DOMAIN rows : m = rows[x]
      BY <1>4
    <3>2. m \in 1..lastRow'
      BY <1>7
    <3>3. m > lastRow
      <4> HIDE DEF new
      <4> QED
        BY <1>6, <2>3, <3>2
    <3>4. x \in new /\ x \in Items
      BY <1>2, <1>3, <3>1, <3>3
    <3>5. rowOf'[x] = m
      BY <1>1, <3>1, <3>4
    <3>6. m \notin Picked'
      <4> HIDE DEF new
      <4> QED
        BY <1>6, <1>14, <3>2, <3>3
    <3> QED
      BY <3>4, <3>5, <3>6 DEF Held
  <2> QED
    BY <2>2, <2>3
<1>16. ASSUME ~overlap', NEW i \in Ids, session'[i].status = "live"
       PROVE  Names(session'[i]) \subseteq Held' \ Picked'
  <2>1. CASE i = lastId + 1
    BY <1>8, <1>15, <1>16, <2>1
  <2>2. CASE i # lastId + 1
    <3>1. session'[i] = session[i] /\ i \in Live /\ ~overlap
      BY <1>1, <1>8, <1>16, <2>2 DEF Live
    <3>2. Names(session[i]) \subseteq Held \ Picked /\ Names(session[i]) \subseteq 1..lastRow
      BY <3>1 DEF NamesInv, Backed, RowsKnown, Live
    <3> QED
      BY <1>6, <1>13, <1>14, <3>1, <3>2
  <2> QED
    BY <2>1, <2>2
<1>17. Backed'
  <2> SUFFICES ASSUME ~overlap', NEW i \in Live' PROVE Names(session'[i]) \subseteq Held' \ Picked'
    BY DEF Backed
  <2>1. i \in Ids /\ session'[i].status = "live"
    BY DEF Live
  <2> QED
    BY <1>16, <2>1
<1> QED
  BY <1>11, <1>12, <1>17

\* A merge that writes back names rows that are there and not picked.
LEMMA MergeKeepsNames ==
    ASSUME NamesInv, NEW w \in Writers, Merge(w)
    PROVE  RowsKnown' /\ TasksKnown' /\ Backed'
<1>1. Tame
  BY MergeIsTame DEF NamesInv
<1>2. /\ writer' = [writer EXCEPT ![w] = NoTask] /\ UNCHANGED <<rowOf, lastRow, purge>>
      /\ overlap' = (overlap \/ (WritesBack(w) /\ Names(writer[w].row) \cap Doomed # {}))
      /\ writer[w].pc = "merging"
  BY DEF Merge, WritesBack
<1>3. Names(writer[w].row) \subseteq 1..lastRow
  BY <1>2 DEF NamesInv, TasksKnown
<1>4. RowsKnown'
  <2>1. \A i \in Live : Names(session[i]) \subseteq 1..lastRow
    BY DEF NamesInv, RowsKnown, Live
  <2>2. \A i \in Ids : \/ Names(session'[i]) \subseteq Names(session[i])
                       \/ Names(session'[i]) \subseteq 1..lastRow
    BY <1>3, <2>1, MergeNames DEF NamesInv
  <2> QED
    BY <1>2, <2>2 DEF NamesInv, RowsKnown
<1>5. TasksKnown'
  BY <1>2, TasksStay DEF NamesInv, OwnersInv
<1>6. Held' = Held /\ Picked' = Picked
  BY <1>2 DEF Held, Picked
<1>7. Backed'
  <2> SUFFICES ASSUME ~overlap', NEW i \in Live' PROVE Names(session'[i]) \subseteq Held' \ Picked'
    BY DEF Backed
  <2> DEFINE N == Held \ Picked
  <2>1. ~overlap /\ (WritesBack(w) => Names(writer[w].row) \cap Doomed = {})
    BY <1>2
  <2>2. \A j \in Live : Names(session[j]) \subseteq N
    BY <2>1 DEF NamesInv, Backed
  <2>3. WritesBack(w) => Names(writer[w].row) \subseteq N
    BY <1>3, <2>1 DEF Doomed, Held, Picked
  <2>4. i \in Ids /\ i \in Live
    BY <1>1 DEF Tame, Live
  <2>5. Names(session'[i]) \subseteq Names(session[i]) \/ Names(session'[i]) \subseteq N
    BY <2>2, <2>3, <2>4, MergeNames DEF NamesInv
  <2> QED
    BY <1>6, <2>2, <2>4, <2>5
<1> QED
  BY <1>4, <1>5, <1>7

LEMMA SoftDeleteNames ==
    ASSUME OwnersInv, NEW rows, session' = SoftDelete(rows)
    PROVE  \A i \in Ids : Names(session'[i]) \subseteq Names(session[i])
<1> SUFFICES ASSUME NEW i \in Ids PROVE Names(session'[i]) \subseteq Names(session[i])
  OBVIOUS
<1>1. session'[i] = IF i \in rows \cap Live THEN [session[i] EXCEPT !.status = "soft"] ELSE session[i]
  BY DEF SoftDelete
<1>2. IsRow(session[i])
  BY DEF OwnersInv, SessionsApart
<1>3. session'[i].msgs = session[i].msgs /\ session'[i].tools = session[i].tools
  BY <1>1, <1>2 DEF IsRow
<1> QED
  BY <1>3 DEF Names

-----------------------------------------------------------------------------
LEMMA NamesStep ==
    ASSUME SessionAssumption, NamesInv, [Next]_vars
    PROVE  NamesInv'
<1>1. OwnersInv'
  BY OwnersStep DEF NamesInv
<1> SUFFICES RowsKnown' /\ TasksKnown' /\ Backed'
  BY <1>1 DEF NamesInv
<1>2. ASSUME Tame, UNCHANGED <<rowOf, lastRow, overlap, session>>,
             purge'.rows \subseteq 1..lastRow,
             \/ Picked' \subseteq Picked
             \/ \A i \in Live : Names(session[i]) \cap Picked' = {}
      PROVE  RowsKnown' /\ Backed'
  BY <1>2, NamesShrink DEF NamesInv
<1>3. ASSUME UNCHANGED <<data, purge, overlap>>
      PROVE  RowsKnown' /\ Backed'
  <2>1. Picked' = Picked /\ purge'.rows \subseteq 1..lastRow
    BY <1>3 DEF Picked, NamesInv, RowsKnown
  <2>2. Tame
    BY <1>3, UnchangedIsTame DEF NamesInv, OwnersInv, data
  <2> QED
    BY <1>2, <1>3, <2>1, <2>2 DEF data
<1>4. CASE UNCHANGED vars
  <2>1. UNCHANGED <<data, purge, overlap, writer>> /\ lastRow' = lastRow
    BY <1>4 DEF vars, history, data
  <2>2. TasksKnown'
    BY <2>1, TasksStay DEF NamesInv, OwnersInv
  <2> QED
    BY <1>3, <2>1, <2>2
<1>5. ASSUME NEW w \in Writers, Work(w) PROVE RowsKnown' /\ TasksKnown' /\ Backed'
  <2>1. ASSUME NEW snapshot \in Snapshots, Lookup(w, snapshot)
        PROVE  RowsKnown' /\ TasksKnown' /\ Backed'
    <3>1. UNCHANGED <<data, purge, overlap>>
      BY <2>1 DEF Lookup, history
    <3>2. TasksKnown'
      BY <2>1, LookupNames DEF NamesInv
    <3> QED
      BY <1>3, <3>1, <3>2
  <2>2. CASE Store(w)
    BY <2>2, StoreNames
  <2>3. CASE StoreFails(w) \/ MergeFails(w)
    <3>1. UNCHANGED <<data, purge, overlap>> /\ writer' = [writer EXCEPT ![w] = NoTask]
      BY <2>3 DEF StoreFails, MergeFails, history
    <3>2. TasksKnown'
      BY <3>1, TasksStay DEF NamesInv, OwnersInv, data
    <3> QED
      BY <1>3, <3>1, <3>2
  <2>4. CASE MergeScan(w)
    <3>1. UNCHANGED <<data, purge, overlap>>
      BY <2>4 DEF MergeScan, history
    <3>2. TasksKnown'
      BY <2>4, ScanNames DEF NamesInv
    <3> QED
      BY <1>3, <3>1, <3>2
  <2>5. CASE Merge(w)
    BY <2>5, MergeKeepsNames
  <2> QED
    BY <1>5, <2>1, <2>2, <2>3, <2>4, <2>5 DEF Work
<1>6. ASSUME NEW rows, session' = SoftDelete(rows), UNCHANGED <<rowOf, lastRow, lastId, writer, purge, overlap>>
      PROVE  RowsKnown' /\ TasksKnown' /\ Backed'
  <2>1. Picked' = Picked /\ purge'.rows \subseteq 1..lastRow
    BY <1>6 DEF Picked, NamesInv, RowsKnown
  <2>2. Tame /\ \A i \in Ids : Names(session'[i]) \subseteq Names(session[i])
    BY <1>6, SoftDeleteIsTame, SoftDeleteNames DEF NamesInv, OwnersInv
  <2>3. RowsKnown' /\ Backed'
    BY <1>6, <2>1, <2>2, NamesShrink DEF NamesInv
  <2> QED
    BY <1>6, <2>3, TasksStay DEF NamesInv, OwnersInv
<1>7. ASSUME NEW i \in Ids, UserDeletes(i) PROVE RowsKnown' /\ TasksKnown' /\ Backed'
  <2>1. session' = SoftDelete({i}) /\ UNCHANGED <<rowOf, lastRow, lastId, writer, purge, overlap>>
    BY <1>7 DEF UserDeletes
  <2> QED
    BY <1>6, <2>1
<1>8. CASE CleanupDelete
  <2>1. session' = SoftDelete(cleanup.rows) /\ UNCHANGED <<rowOf, lastRow, lastId, writer, purge, overlap>>
    BY <1>8 DEF CleanupDelete, history
  <2> QED
    BY <1>6, <2>1
<1>9. CASE (\E i \in Ids : GrowIdle(i)) \/ CleanupScan
  <2>1. UNCHANGED <<rowOf, lastRow, session, lastId, purge, overlap, writer>>
    BY <1>9 DEF GrowIdle, CleanupScan, data, history
  <2>2. Picked' = Picked /\ purge'.rows \subseteq 1..lastRow
    BY <2>1 DEF Picked, NamesInv, RowsKnown
  <2>3. Tame
    BY <2>1, UnchangedIsTame DEF NamesInv, OwnersInv
  <2>4. RowsKnown' /\ Backed'
    BY <1>2, <2>1, <2>2, <2>3
  <2> QED
    BY <2>1, <2>4, TasksStay DEF NamesInv, OwnersInv
<1>10. ASSUME UNCHANGED <<data, overlap, writer>>, purge'.rows \subseteq 1..lastRow,
              \/ Picked' \subseteq Picked
              \/ \A i \in Live : Names(session[i]) \cap Picked' = {}
       PROVE  RowsKnown' /\ TasksKnown' /\ Backed'
  <2>1. UNCHANGED <<rowOf, lastRow, session, lastId>>
    BY <1>10 DEF data
  <2>2. Tame
    BY <2>1, UnchangedIsTame DEF NamesInv, OwnersInv
  <2>3. RowsKnown' /\ Backed'
    BY <1>2, <1>10, <2>1, <2>2
  <2> QED
    BY <1>10, <2>1, <2>3, TasksStay DEF NamesInv, OwnersInv
<1>11. CASE PurgeReadDeleted
  <2>1. UNCHANGED <<data, overlap, writer>> /\ purge' = [pc |-> "candidates", rows |-> NamedBy(Deleted)]
    BY <1>11 DEF PurgeReadDeleted, history
  <2>2. NamedBy(Deleted) \subseteq 1..lastRow
    BY DEF NamedBy, Deleted, NamesInv, RowsKnown
  <2>3. purge'.rows \subseteq 1..lastRow /\ Picked' = {}
    BY <2>1, <2>2 DEF Picked
  <2> QED
    BY <1>10, <2>1, <2>3
<1>12. CASE PurgeReadActive
  <2>1. /\ UNCHANGED <<data, overlap, writer>>
        /\ purge' = [pc |-> "orphans", rows |-> purge.rows \ NamedBy(Live)]
    BY <1>12 DEF PurgeReadActive, history
  <2>2. purge'.rows \subseteq 1..lastRow
    BY <2>1 DEF NamesInv, RowsKnown
  <2>3. \A i \in Live : Names(session[i]) \cap Picked' = {}
    BY <2>1 DEF Picked, NamedBy
  <2> QED
    BY <1>10, <2>1, <2>2, <2>3
<1>13. CASE PurgeFails
  <2>1. UNCHANGED <<data, overlap, writer>> /\ purge' = NoJob
    BY <1>13 DEF PurgeFails, history
  <2> QED
    BY <1>10, <2>1 DEF NoJob, Picked
<1>14. CASE PurgeMessages
  <2>1. /\ Drop(Messages) /\ UNCHANGED <<lastRow, session, overlap, writer>>
        /\ purge.pc = "orphans" /\ purge' = [purge EXCEPT !.pc = "tools"]
    BY <1>14 DEF PurgeMessages, history
  <2>2. purge'.rows \subseteq purge.rows
    BY <2>1
  <2>3. RowsKnown' /\ Backed'
    BY <2>1, <2>2, DropBacks DEF NamesInv
  <2> QED
    BY <2>1, <2>3, TasksStay DEF NamesInv, OwnersInv
<1>15. CASE PurgeTools
  <2>1. /\ Drop(Tools) /\ UNCHANGED <<lastRow, session, overlap, writer>>
        /\ purge.pc = "tools" /\ purge' = [pc |-> "sessions", rows |-> {}]
    BY <1>15 DEF PurgeTools, history
  <2>2. purge'.rows \subseteq purge.rows
    BY <2>1
  <2>3. RowsKnown' /\ Backed'
    BY <2>1, <2>2, DropBacks DEF NamesInv
  <2> QED
    BY <2>1, <2>3, TasksStay DEF NamesInv, OwnersInv
<1>16. CASE PurgeSessions
  <2>1. UNCHANGED <<rowOf, lastRow, lastId, overlap, writer>> /\ purge' = NoJob
    BY <1>16 DEF PurgeSessions, history
  <2>2. Tame
    BY <1>16, PurgeSessionsIsTame DEF NamesInv, OwnersInv
  <2>3. Names([NoSession EXCEPT !.status = "gone"]) = {}
    BY DEF Names, NoSession, ToSet
  <2>4. \A i \in Ids : Names(session'[i]) \subseteq Names(session[i])
    BY <1>16, <2>3 DEF PurgeSessions
  <2>5. purge'.rows \subseteq 1..lastRow /\ Picked' = {}
    BY <2>1 DEF NoJob, Picked
  <2>6. RowsKnown' /\ Backed'
    BY <2>1, <2>2, <2>4, <2>5, NamesShrink DEF NamesInv
  <2> QED
    BY <2>1, <2>6, TasksStay DEF NamesInv, OwnersInv
<1> QED
  BY <1>4, <1>5, <1>7, <1>8, <1>9, <1>11, <1>12, <1>13, <1>14, <1>15, <1>16 DEF Next

LEMMA NamesInit ==
    ASSUME SessionAssumption, Init
    PROVE  NamesInv
<1>1. OwnersInv
  BY OwnersInit
<1>2. Names(NoSession) = {}
  BY DEF Names, NoSession, ToSet
<1>3. RowsKnown
  BY <1>2 DEF Init, RowsKnown, NoJob
<1>4. TasksKnown
  BY IdleTask DEF Init, TasksKnown
<1>5. Backed
  BY <1>2 DEF Init, Backed, Live
<1> QED
  BY <1>1, <1>3, <1>4, <1>5 DEF NamesInv

\* Whatever the purge, the merges, the deletions and the failures interleave to, a live
\* session names a message or tool that is gone only if a worker wrote, from its memory,
\* rows that a purge had taken or picked meanwhile.
THEOREM PurgeSpares == Spec => []DanglingOnlyFromOverlap
<1>1. Init => NamesInv
  BY NamesInit, SessionAssumption
<1>2. NamesInv /\ [Next]_vars => NamesInv'
  BY NamesStep, SessionAssumption
<1>3. NamesInv => DanglingOnlyFromOverlap
  BY DEF NamesInv, Backed, Held, DanglingOnlyFromOverlap, NoDangling
<1> QED
  BY <1>1, <1>2, <1>3, PTL DEF Spec

-----------------------------------------------------------------------------
(***************************************************************************)
(* Merging.  What the two remaining properties need of the tables: message *)
(* lists are sequences and never empty.                                    *)
(***************************************************************************)
Sequenced ==
    /\ \A i \in Ids : /\ session[i].msgs \in Seq(Nat)
                      /\ session[i].status = "live" => session[i].msgs # <<>>
    /\ \A w \in Writers :
        /\ writer[w].pc \in {"stored", "merging"} => writer[w].row.msgs \in Seq(Nat) \ {<<>>}
        /\ writer[w].pc = "storing" => writer[w].convo \in Seq(Messages) \ {<<>>}

\* Two rows of one conversation, one the beginning of the other.
Related(r, s) == SameGroup(r, s) /\ (IsPrefix(r.msgs, s.msgs) \/ IsPrefix(s.msgs, r.msgs))

\* A worker that will compare the two rows, one of which is its own.
WillCompare(v, i, j) ==
    \/ writer[v].pc = "stored"
    \/ writer[v].pc = "merging" /\ i \in writer[v].seen /\ j \in writer[v].seen

\* A worker's own row is of its group and, once it has scanned, among what it saw.
OwnSeen ==
    \A w \in Writers : writer[w].pc \in {"stored", "merging"} =>
        /\ writer[w].id \in 1..lastId
        /\ writer[w].id \in Live => SameGroup(session[writer[w].id], writer[w].row)
        /\ writer[w].pc = "merging" /\ writer[w].id \in Live => writer[w].id \in writer[w].seen

\* A scan sees its group: what it missed came later.
SeenFirst ==
    \A w \in Writers : writer[w].pc = "merging" =>
        \A i \in writer[w].seen :
            /\ i \in Live => SameGroup(session[i], writer[w].row)
            /\ \A j \in Live \ writer[w].seen : SameGroup(session[j], writer[w].row) => i < j

\* Duplicates are in debt, or one of the two is about to be merged with the other.
Attended ==
    \A i, j \in Live : i # j /\ Related(session[i], session[j]) =>
        \/ i \in debt \/ j \in debt
        \/ \E v \in Writers : writer[v].id \in {i, j} /\ WillCompare(v, i, j)

\* A merge that takes a row it saw out of debt does not forget a later row it missed.
MissedAttended ==
    \A w \in Writers : writer[w].pc = "merging" =>
        \A i \in Live \cap writer[w].seen, j \in Live \ writer[w].seen :
            Related(session[i], session[j]) =>
                j \in debt \/ \E v \in Writers : writer[v].id = j /\ WillCompare(v, i, j)

Healing == OwnSeen /\ SeenFirst /\ Attended /\ MissedAttended

MergeInv == NamesInv /\ Sequenced /\ Healing

-----------------------------------------------------------------------------
\* Prefixes, position by position.
LEMMA PrefixPointwise ==
    ASSUME NEW s \in Seq(Nat), NEW t \in Seq(Nat)
    PROVE  IsPrefix(s, t) <=> Len(s) <= Len(t) /\ \A n \in 1..Len(s) : s[n] = t[n]
<1>1. SubSeq(s, 1, Len(s)) = s
  BY SubSeqFull
<1>2. ASSUME Len(s) <= Len(t)
      PROVE  /\ SubSeq(t, 1, Len(s)) \in Seq(Nat) /\ Len(SubSeq(t, 1, Len(s))) = Len(s)
             /\ \A n \in 1..Len(s) : SubSeq(t, 1, Len(s))[n] = t[n]
  <2>1. Len(s) \in Nat /\ \A n \in 1..Len(s) : t[n] \in Nat
    BY <1>2
  <2> QED
    BY <2>1, SubSeqProperties
<1>3. ASSUME Len(s) <= Len(t)
      PROVE  s = SubSeq(t, 1, Len(s)) <=> \A n \in 1..Len(s) : s[n] = t[n]
  <2> DEFINE u == SubSeq(t, 1, Len(s))
  <2>1. u \in Seq(Nat) /\ Len(u) = Len(s) /\ \A n \in 1..Len(s) : u[n] = t[n]
    BY <1>2, <1>3
  <2> HIDE DEF u
  <2>2. s = u <=> \A n \in 1..Len(s) : s[n] = u[n]
    <3>1. ASSUME \A n \in 1..Len(s) : s[n] = u[n] PROVE s = u
      BY <2>1, <3>1, SeqEqual
    <3> QED
      BY <3>1
  <2>3. s = u <=> \A n \in 1..Len(s) : s[n] = t[n]
    BY <2>1, <2>2
  <2> QED
    BY <2>3 DEF u
<1> QED
  BY <1>1, <1>3 DEF IsPrefix

LEMMA PrefixOrder ==
    ASSUME NEW s \in Seq(Nat), NEW t \in Seq(Nat), NEW u \in Seq(Nat)
    PROVE  /\ IsPrefix(s, s)
           /\ IsPrefix(s, t) => Len(s) <= Len(t) /\ (Len(s) = Len(t) => s = t)
           /\ IsPrefix(s, t) /\ IsPrefix(t, u) => IsPrefix(s, u)
           /\ IsPrefix(s, u) /\ IsPrefix(t, u) => IsPrefix(s, t) \/ IsPrefix(t, s)
           /\ IsPrefix(s, t) /\ s # <<>> => Head(s) = Head(t) /\ t # <<>>
<1>1. Len(s) \in Nat /\ Len(t) \in Nat /\ Len(u) \in Nat
  OBVIOUS
<1>2. IsPrefix(s, s)
  BY <1>1, PrefixPointwise
<1>3. ASSUME IsPrefix(s, t) PROVE Len(s) <= Len(t) /\ (Len(s) = Len(t) => s = t)
  <2>1. Len(s) <= Len(t) /\ \A n \in 1..Len(s) : s[n] = t[n]
    BY <1>3, PrefixPointwise
  <2>2. ASSUME Len(s) = Len(t) PROVE s = t
    BY <2>1, <2>2, SeqEqual
  <2> QED
    BY <2>1, <2>2
<1>4. ASSUME IsPrefix(s, t), IsPrefix(t, u) PROVE IsPrefix(s, u)
  <2>1. /\ Len(s) <= Len(t) /\ \A n \in 1..Len(s) : s[n] = t[n]
        /\ Len(t) <= Len(u) /\ \A n \in 1..Len(t) : t[n] = u[n]
    BY <1>4, PrefixPointwise
  <2>2. Len(s) <= Len(u) /\ \A n \in 1..Len(s) : n \in 1..Len(t)
    BY <1>1, <2>1
  <2>3. \A n \in 1..Len(s) : s[n] = u[n]
    BY <2>1, <2>2
  <2> QED
    BY <2>2, <2>3, PrefixPointwise
<1>5. ASSUME IsPrefix(s, u), IsPrefix(t, u) PROVE IsPrefix(s, t) \/ IsPrefix(t, s)
  <2>1. /\ Len(s) <= Len(u) /\ \A n \in 1..Len(s) : s[n] = u[n]
        /\ Len(t) <= Len(u) /\ \A n \in 1..Len(t) : t[n] = u[n]
    BY <1>5, PrefixPointwise
  <2>2. CASE Len(s) <= Len(t)
    <3>1. \A n \in 1..Len(s) : s[n] = t[n]
      BY <1>1, <2>1, <2>2
    <3> QED
      BY <2>2, <3>1, PrefixPointwise
  <2>3. CASE Len(t) <= Len(s)
    <3>1. \A n \in 1..Len(t) : t[n] = s[n]
      BY <1>1, <2>1, <2>3
    <3> QED
      BY <2>3, <3>1, PrefixPointwise
  <2> QED
    BY <1>1, <2>2, <2>3
<1>6. ASSUME IsPrefix(s, t), s # <<>> PROVE Head(s) = Head(t) /\ t # <<>>
  <2>1. Len(s) <= Len(t) /\ \A n \in 1..Len(s) : s[n] = t[n]
    BY <1>6, PrefixPointwise
  <2>2. Len(s) >= 1
    BY <1>6, EmptySeq
  <2>3. t # <<>> /\ Head(s) = s[1] /\ Head(t) = t[1]
    BY <1>1, <2>1, <2>2, EmptySeq
  <2> QED
    BY <1>1, <2>1, <2>2, <2>3
<1> QED
  BY <1>2, <1>3, <1>4, <1>5, <1>6

-----------------------------------------------------------------------------
\* "Longer first, then older" is a strict total order.
LEMMA BeforeOrder ==
    ASSUME NEW s, NEW i \in Nat, NEW j \in Nat, NEW k \in Nat,
           Len(s[i].msgs) \in Nat, Len(s[j].msgs) \in Nat, Len(s[k].msgs) \in Nat
    PROVE  /\ Before(s, i, j) => i # j /\ ~Before(s, j, i)
           /\ Before(s, i, j) /\ Before(s, j, k) => Before(s, i, k)
           /\ i # j => Before(s, i, j) \/ Before(s, j, i)
<1> DEFINE a == Len(s[i].msgs)
           b == Len(s[j].msgs)
           c == Len(s[k].msgs)
<1>1. a \in Nat /\ b \in Nat /\ c \in Nat
  OBVIOUS
<1>2. /\ Before(s, i, j) <=> a > b \/ (a = b /\ i < j)
      /\ Before(s, j, i) <=> b > a \/ (b = a /\ j < i)
      /\ Before(s, j, k) <=> b > c \/ (b = c /\ j < k)
      /\ Before(s, i, k) <=> a > c \/ (a = c /\ i < k)
  BY DEF Before
<1> HIDE DEF a, b, c
<1>3. Before(s, i, j) => ~Before(s, j, i)
  BY <1>1, <1>2
<1>4. i = j => ~Before(s, i, j)
  BY <1>3
<1> QED
  BY <1>1, <1>2, <1>3, <1>4

\* Among the rows that cover one there is a first.
LEMMA FirstBefore ==
    ASSUME NEW s, NEW T, T \subseteq Ids, T # {}, MaxSnapshots \in Nat,
           \A i \in Ids : Len(s[i].msgs) \in Nat
    PROVE  \E i \in T : \A j \in T : j = i \/ Before(s, i, j)
<1> DEFINE ahead(i) == {j \in T : Before(s, j, i)}
           rank == [i \in T |-> Cardinality(ahead(i))]
           ranks == {rank[i] : i \in T}
<1>1. T \subseteq Nat /\ IsFiniteSet(T)
  <2>1. IsFiniteSet(Ids) /\ Ids \subseteq Nat
    BY FS_Interval DEF Ids
  <2>2. T \in SUBSET Ids
    OBVIOUS
  <2> QED
    BY <2>1, <2>2, FS_Subset
<1>2. \A i \in T : Len(s[i].msgs) \in Nat
  OBVIOUS
<1>3. ASSUME NEW i \in T PROVE IsFiniteSet(ahead(i)) /\ rank[i] \in Nat
  <2>1. IsFiniteSet(ahead(i))
    BY <1>1, FS_Subset
  <2> QED
    BY <2>1, FS_CardinalityType
<1>4. ASSUME NEW i \in T, NEW j \in T, Before(s, j, i) PROVE rank[j] < rank[i]
  <2>1. ahead(j) \subseteq ahead(i)
    <3>1. ASSUME NEW k \in T, Before(s, k, j) PROVE Before(s, k, i)
      <4>1. /\ Len(s[i].msgs) \in Nat /\ Len(s[j].msgs) \in Nat /\ Len(s[k].msgs) \in Nat
            /\ i \in Nat /\ j \in Nat /\ k \in Nat
        BY <1>1, <1>2
      <4> QED
        BY <1>4, <3>1, <4>1, BeforeOrder
    <3> QED
      BY <3>1
  <2>2. j \in ahead(i) /\ j \notin ahead(j)
    BY <1>1, <1>2, <1>4 DEF Before
  <2>3. /\ Cardinality(ahead(j)) <= Cardinality(ahead(i))
        /\ Cardinality(ahead(i)) = Cardinality(ahead(j)) => ahead(i) = ahead(j)
    BY <1>3, <2>1, FS_Subset
  <2>4. rank[j] # rank[i] /\ rank[j] <= rank[i]
    BY <2>2, <2>3
  <2>5. rank[i] \in Nat /\ rank[j] \in Nat
    BY <1>3
  <2> HIDE DEF rank
  <2> QED
    BY <2>4, <2>5
<1>5. PICK n \in ranks : \A m \in ranks : ~(<<m, n>> \in OpToRel(<, Nat))
  <2>1. ranks \subseteq Nat /\ ranks # {}
    BY <1>3
  <2> HIDE DEF ranks
  <2> QED
    BY <2>1, NatLessThanWellFounded, WFMin
<1>6. PICK i \in T : n = rank[i]
  BY <1>5
<1>7. ASSUME NEW j \in T PROVE ~Before(s, j, i)
  <2>1. rank[j] \in ranks /\ rank[j] \in Nat /\ rank[i] \in Nat
    BY <1>3
  <2>2. ~(rank[j] < rank[i])
    BY <1>5, <1>6, <2>1 DEF OpToRel
  <2> QED
    BY <1>4, <2>2
<1>8. ASSUME NEW j \in T, j # i PROVE Before(s, i, j)
  BY <1>1, <1>2, <1>7, <1>8 DEF Before
<1> QED
  BY <1>8

\* A redundant row has a container that stays.
LEMMA Contained ==
    ASSUME NEW s, NEW group, group \subseteq Ids, MaxSnapshots \in Nat,
           \A i \in Ids : s[i].msgs \in Seq(Nat), NEW j \in Redundant(s, group)
    PROVE  LET c == Container(s, group, j)
           IN  c \in group \ Redundant(s, group) /\ Covers(s, c, j)
<1> DEFINE covers == {i \in group : Covers(s, i, j)}
           stays == group \ Redundant(s, group)
<1>1. covers # {} /\ covers \subseteq Ids
  BY DEF Redundant
<1>2. \A i \in Ids : Len(s[i].msgs) \in Nat
  OBVIOUS
<1>3. PICK c \in covers : \A i \in covers : i = c \/ Before(s, c, i)
  <2> HIDE DEF covers
  <2> QED
    BY <1>1, <1>2, FirstBefore
<1>4. j \in Ids /\ j \in group
  BY DEF Redundant
<1>5. c \notin Redundant(s, group)
  <2> SUFFICES ASSUME NEW k \in group, Covers(s, k, c) PROVE FALSE
    BY DEF Redundant
  <2>1. /\ s[k].msgs \in Seq(Nat) /\ s[c].msgs \in Seq(Nat) /\ s[j].msgs \in Seq(Nat)
        /\ k \in Nat /\ c \in Nat /\ j \in Nat
    BY <1>1, <1>4 DEF Ids
  <2>2. IsPrefix(s[c].msgs, s[k].msgs) /\ IsPrefix(s[j].msgs, s[c].msgs)
    BY DEF Covers
  <2>3. IsPrefix(s[j].msgs, s[k].msgs)
    BY <2>1, <2>2, PrefixOrder
  <2>4. SameGroup(s[k], s[j]) /\ Before(s, k, c) /\ Before(s, c, j)
    BY DEF Covers, SameGroup
  <2>5. Before(s, k, j) /\ ~Before(s, c, k) /\ k # c
    <3>1. Len(s[k].msgs) \in Nat /\ Len(s[c].msgs) \in Nat /\ Len(s[j].msgs) \in Nat
      BY <2>1
    <3> QED
      BY <2>1, <2>4, <3>1, BeforeOrder
  <2>6. k \in covers
    BY <2>3, <2>4, <2>5 DEF Covers
  <2> QED
    BY <1>3, <2>5, <2>6
<1>6. \E i \in stays : Covers(s, i, j) /\ \A k \in stays : Covers(s, k, j) => k = i \/ Before(s, i, k)
  BY <1>3, <1>5
<1> QED
  BY <1>6 DEF Container

\* What folding does to each row.
LEMMA FoldView ==
    ASSUME NEW s, NEW group, group \subseteq Ids, Rowed(s), NEW i \in Ids
    PROVE  LET r == Fold(s, group)[i]
           IN  /\ r.key = s[i].key /\ r.msgs = s[i].msgs /\ s[i].tools \subseteq r.tools
               /\ r.status = IF i \in Redundant(s, group) THEN "soft" ELSE s[i].status
               /\ i \in group \ Redundant(s, group) =>
                    \A j \in Redundant(s, group) : Container(s, group, j) = i => s[j].tools \subseteq r.tools
<1> DEFINE gone == Redundant(s, group)
           into == {j \in gone : Container(s, group, j) = i}
           tools == UNION {s[j].tools : j \in into}
           from == UNION {s[j].from : j \in into}
           r == s[i]
           q == Fold(s, group)[i]
<1>1. gone \subseteq group
  BY DEF Redundant
<1>2. q = IF i \in gone THEN [r EXCEPT !.status = "soft"]
          ELSE IF i \in group THEN [r EXCEPT !.tools = @ \cup tools, !.from = @ \cup from]
          ELSE r
  BY DEF Fold
<1>3. IsRow(r)
  BY DEF Rowed
<1>4. \A j \in gone : Container(s, group, j) = i => s[j].tools \subseteq tools
  OBVIOUS
<1> HIDE DEF into, tools, from, r, q, gone
<1>5. CASE i \in gone
  <2>1. q.key = r.key /\ q.msgs = r.msgs /\ q.tools = r.tools /\ q.status = "soft"
    BY <1>2, <1>3, <1>5 DEF IsRow
  <2> QED
    BY <1>5, <2>1 DEF q, r, gone
<1>6. CASE i \notin gone /\ i \in group
  <2>1. q.key = r.key /\ q.msgs = r.msgs /\ q.tools = r.tools \cup tools /\ q.status = r.status
    BY <1>2, <1>3, <1>6 DEF IsRow
  <2>2. /\ r.tools \subseteq q.tools
        /\ \A j \in gone : Container(s, group, j) = i => s[j].tools \subseteq q.tools
    BY <1>4, <2>1
  <2> QED
    BY <1>6, <2>1, <2>2 DEF q, r, gone
<1>7. CASE i \notin gone /\ i \notin group
  BY <1>2, <1>7 DEF q, r, gone
<1> QED
  BY <1>5, <1>6, <1>7

\* Folding loses nothing: what is alive is continued by something alive.
Continues(r, q) ==
    /\ q.status = "live" /\ q.key = r.key /\ IsPrefix(r.msgs, q.msgs) /\ r.tools \subseteq q.tools

LEMMA FoldContinues ==
    ASSUME NEW s, NEW group, group \subseteq Ids, MaxSnapshots \in Nat, Rowed(s),
           \A i \in Ids : s[i].msgs \in Seq(Nat), \A i \in group : s[i].status = "live",
           NEW i \in Ids, s[i].status = "live"
    PROVE  \E j \in Ids : Continues(s[i], Fold(s, group)[j])
<1>1. CASE i \notin Redundant(s, group)
  <2>1. LET r == Fold(s, group)[i]
        IN  r.key = s[i].key /\ r.msgs = s[i].msgs /\ s[i].tools \subseteq r.tools /\ r.status = "live"
    BY <1>1, FoldView
  <2>2. IsPrefix(s[i].msgs, s[i].msgs)
    BY PrefixOrder
  <2> QED
    BY <2>1, <2>2 DEF Continues
<1>2. CASE i \in Redundant(s, group)
  <2> DEFINE c == Container(s, group, i)
  <2>1. c \in group \ Redundant(s, group) /\ Covers(s, c, i) /\ c \in Ids
    BY <1>2, Contained
  <2>2. LET r == Fold(s, group)[c]
        IN  /\ r.key = s[c].key /\ r.msgs = s[c].msgs /\ r.status = "live"
            /\ s[i].tools \subseteq r.tools
    BY <1>2, <2>1, FoldView
  <2>3. s[c].key = s[i].key /\ IsPrefix(s[i].msgs, s[c].msgs)
    BY <2>1 DEF Covers, SameGroup
  <2> QED
    BY <2>1, <2>2, <2>3 DEF Continues
<1> QED
  BY <1>1, <1>2

\* Rows that survive a fold are not the beginning of one another.
LEMMA FoldSeparates ==
    ASSUME NEW s, NEW group, group \subseteq Ids, \A i \in Ids : s[i].msgs \in Seq(Nat),
           NEW i \in group \ Redundant(s, group), NEW j \in group \ Redundant(s, group), i # j
    PROVE  ~Related(s[i], s[j])
<1>1. ASSUME NEW m \in group \ Redundant(s, group), NEW n \in group \ Redundant(s, group), m # n,
             SameGroup(s[m], s[n]), IsPrefix(s[m].msgs, s[n].msgs)
      PROVE  FALSE
  <2>1. /\ m \in Nat /\ n \in Nat /\ s[m].msgs \in Seq(Nat) /\ s[n].msgs \in Seq(Nat)
        /\ Len(s[m].msgs) \in Nat /\ Len(s[n].msgs) \in Nat
    BY DEF Ids
  <2>2. Len(s[m].msgs) <= Len(s[n].msgs) /\ (Len(s[m].msgs) = Len(s[n].msgs) => s[m].msgs = s[n].msgs)
    BY <1>1, <2>1, PrefixOrder
  <2>3. CASE Before(s, n, m)
    <3>1. Covers(s, n, m)
      BY <1>1, <2>3 DEF Covers, SameGroup
    <3> QED
      BY <3>1 DEF Redundant
  <2>4. CASE ~Before(s, n, m)
    <3>1. Before(s, m, n) /\ s[m].msgs = s[n].msgs
      BY <1>1, <2>1, <2>2, <2>4 DEF Before
    <3>2. IsPrefix(s[n].msgs, s[m].msgs)
      BY <1>1, <3>1
    <3>3. Covers(s, m, n)
      BY <1>1, <3>1, <3>2 DEF Covers
    <3> QED
      BY <3>3 DEF Redundant
  <2> QED
    BY <2>3, <2>4
<1>2. SameGroup(s[i], s[j]) <=> SameGroup(s[j], s[i])
  BY DEF SameGroup
<1> QED
  BY <1>1, <1>2 DEF Related

-----------------------------------------------------------------------------
\* What writing a snapshot back does to each row.
LEMMA RollView ==
    ASSUME NEW keeper, NEW id, NEW row, NEW i \in Ids, IsRow(session[i])
    PROVE  LET r == RollForward(keeper, id, row)[i]
           IN  /\ IsRow(r) /\ r.key = session[i].key /\ session[i].tools \subseteq r.tools
               /\ i = keeper => /\ r.msgs = row.msgs /\ row.tools \subseteq r.tools
                                /\ r.status = session[i].status
               /\ i # keeper => r.msgs = session[i].msgs
               /\ i # keeper /\ i = id => r.status # "live"
               /\ i # keeper /\ i # id => r = session[i]
               /\ i # keeper /\ session[i].status # "live" => r = session[i]
<1> DEFINE s == session[i]
           q == RollForward(keeper, id, row)[i]
<1>1. q = IF i = keeper
          THEN [s EXCEPT !.msgs = row.msgs, !.tools = @ \cup row.tools, !.from = @ \cup row.from]
          ELSE IF i = id /\ s.status = "live" THEN [s EXCEPT !.status = "soft"] ELSE s
  BY DEF RollForward
<1>2. IsRow(s)
  OBVIOUS
<1> HIDE DEF s, q
<1>3. CASE i = keeper
  <2>1. /\ IsRow(q) /\ q.key = s.key /\ q.tools = s.tools \cup row.tools
        /\ q.msgs = row.msgs /\ q.status = s.status
    BY <1>1, <1>2, <1>3 DEF IsRow
  <2> QED
    BY <1>3, <2>1 DEF s, q
<1>4. CASE i # keeper /\ i = id /\ s.status = "live"
  <2>1. IsRow(q) /\ q.key = s.key /\ q.tools = s.tools /\ q.msgs = s.msgs /\ q.status = "soft"
    BY <1>1, <1>2, <1>4 DEF IsRow
  <2> QED
    BY <1>4, <2>1 DEF s, q
<1>5. CASE i # keeper /\ ~(i = id /\ s.status = "live")
  <2>1. q = s
    BY <1>1, <1>5
  <2> QED
    BY <1>2, <1>5, <2>1 DEF s, q
<1> QED
  BY <1>3, <1>4, <1>5

\* What a merge finds again, and what it does.
Group(w) == writer[w].seen \cap Live

LEMMA MergePlain ==
    ASSUME NEW w \in Writers, Merge(w), ~WritesBack(w)
    PROVE  session' = Fold(session, Group(w))
  BY DEF Merge, WritesBack, Group

LEMMA MergeRolled ==
    ASSUME OwnersInv, NEW w \in Writers, Merge(w), WritesBack(w)
    PROVE  \E kept \in Group(w) \ {writer[w].id} :
              /\ session' = Fold(RollForward(kept, writer[w].id, writer[w].row), Group(w) \ {writer[w].id})
              /\ session[kept].key = writer[w].row.key
              /\ IsPrefix(session[kept].msgs, writer[w].row.msgs)
<1> DEFINE others == Group(w) \ {writer[w].id}
           keeper == Continued(writer[w].row, others)
           kept == CHOOSE i \in keeper : TRUE
<1>1. keeper # {}
  BY DEF WritesBack, Group
<1>2. kept \in keeper
  BY <1>1
<1>3. session' = Fold(RollForward(kept, writer[w].id, writer[w].row), others)
  BY <1>1 DEF Merge, Group
<1>4. /\ kept \in others /\ session[kept].key = writer[w].row.key
      /\ IsPrefix(session[kept].msgs, writer[w].row.msgs)
  BY <1>2 DEF Continued
<1> QED
  BY <1>3, <1>4

\* After a merge the rows of its group are as they were or continued by the worker's
\* row, no two that survive are related, and the other rows have not moved.
LEMMA MergeView ==
    ASSUME OwnersInv, Sequenced, NEW w \in Writers, Merge(w)
    PROVE  /\ \A i \in Ids : \/ session'[i].msgs = session[i].msgs
                             \/ /\ i \in Group(w) /\ session'[i].msgs = writer[w].row.msgs
                                /\ IsPrefix(session[i].msgs, writer[w].row.msgs)
           /\ \A i \in Ids : /\ session'[i].key = session[i].key
                             /\ session'[i].status = "live" => i \in Live
           /\ \A i \in Ids \ Group(w) : session'[i] = session[i] \/ (i = writer[w].id /\ i \in Live)
           /\ \A i, j \in Group(w) : i # j /\ session'[i].status = "live" /\ session'[j].status = "live" =>
                ~Related(session'[i], session'[j])
<1>1. Rowed(session) /\ Group(w) \subseteq Ids /\ \A i \in Ids : session[i].msgs \in Seq(Nat)
  BY DEF OwnersInv, SessionsApart, Rowed, Group, Live, Sequenced
<1>2. \A i \in Ids : session'[i].status = "live" => i \in Live
  BY MergeIsTame DEF Tame, Live
<1>3. \A i \in Group(w) : session[i].status = "live"
  BY DEF Group, Live
<1>4. CASE ~WritesBack(w)
  <2>1. session' = Fold(session, Group(w))
    BY <1>4, MergePlain
  <2>2. ASSUME NEW i \in Ids
        PROVE  /\ session'[i].key = session[i].key /\ session'[i].msgs = session[i].msgs
               /\ session'[i].status = "live" => i \notin Redundant(session, Group(w))
    BY <1>1, <2>1, FoldView
  <2>3. ASSUME NEW i \in Ids \ Group(w) PROVE session'[i] = session[i]
    BY <2>1, <2>3 DEF Fold, Redundant
  <2>4. ASSUME NEW i \in Group(w), NEW j \in Group(w), i # j,
               session'[i].status = "live", session'[j].status = "live"
        PROVE  ~Related(session'[i], session'[j])
    <3>1. i \in Ids /\ j \in Ids
      BY <1>1
    <3>2. i \in Group(w) \ Redundant(session, Group(w)) /\ j \in Group(w) \ Redundant(session, Group(w))
      BY <2>2, <2>4, <3>1
    <3>3. ~Related(session[i], session[j])
      BY <1>1, <2>4, <3>2, FoldSeparates
    <3> QED
      BY <2>2, <3>1, <3>3 DEF Related, SameGroup
  <2> QED
    BY <1>2, <2>2, <2>3, <2>4
<1>5. CASE WritesBack(w)
  <2> DEFINE id == writer[w].id
             row == writer[w].row
             others == Group(w) \ {id}
  <2>1. PICK kept \in others :
          /\ session' = Fold(RollForward(kept, id, row), others)
          /\ session[kept].key = row.key /\ IsPrefix(session[kept].msgs, row.msgs)
    BY <1>5, MergeRolled
  <2> DEFINE rolled == RollForward(kept, id, row)
  <2>2. row.msgs \in Seq(Nat)
    BY DEF Merge, Sequenced
  <2> HIDE DEF id, row
  <2>3. others \subseteq Ids /\ others \subseteq Group(w)
    BY <1>1
  <2>4. ASSUME NEW i \in Ids
        PROVE  /\ IsRow(rolled[i]) /\ rolled[i].key = session[i].key
               /\ i = kept => rolled[i].msgs = row.msgs
               /\ i # kept => rolled[i].msgs = session[i].msgs
               /\ i # kept /\ i = id => rolled[i].status # "live"
               /\ i # kept /\ i # id => rolled[i] = session[i]
               /\ i # kept /\ session[i].status # "live" => rolled[i] = session[i]
    BY <1>1, RollView DEF Rowed
  <2> HIDE DEF rolled
  <2>5. Rowed(rolled) /\ \A i \in Ids : rolled[i].msgs \in Seq(Nat)
    BY <1>1, <2>2, <2>4 DEF Rowed
  <2>6. session' = Fold(rolled, others)
    BY <2>1 DEF rolled
  <2>7. ASSUME NEW i \in Ids
        PROVE  /\ session'[i].key = rolled[i].key /\ session'[i].msgs = rolled[i].msgs
               /\ session'[i].status = "live" =>
                    rolled[i].status = "live" /\ i \notin Redundant(rolled, others)
    BY <2>3, <2>5, <2>6, FoldView
  <2>8. ASSUME NEW i \in Ids, i \notin others PROVE session'[i] = rolled[i]
    BY <2>6, <2>8 DEF Fold, Redundant
  <2>9. ASSUME NEW i \in Ids
        PROVE  \/ session'[i].msgs = session[i].msgs
               \/ /\ i \in Group(w) /\ session'[i].msgs = row.msgs
                  /\ IsPrefix(session[i].msgs, row.msgs)
    BY <2>1, <2>3, <2>4, <2>7
  <2>10. ASSUME NEW i \in Ids \ Group(w) PROVE session'[i] = session[i] \/ (i = id /\ i \in Live)
    <3>1. i \notin others /\ i # kept
      BY <2>1, <2>3, <2>10
    <3>2. session'[i] = rolled[i] /\ (i # id => rolled[i] = session[i])
          /\ (session[i].status # "live" => rolled[i] = session[i])
      BY <2>4, <2>8, <3>1
    <3> QED
      BY <3>2 DEF Live
  <2>11. ASSUME NEW i \in Group(w), session'[i].status = "live"
         PROVE  i \in others \ Redundant(rolled, others) /\ i \in Ids
    <3>1. i \in Ids
      BY <1>1
    <3>2. i # id
      <4> SUFFICES ASSUME i = id PROVE FALSE
        OBVIOUS
      <4>1. i \notin others /\ i # kept
        BY <2>1
      <4> QED
        BY <2>4, <2>8, <2>11, <3>1, <4>1
    <3> QED
      BY <2>7, <2>11, <3>1, <3>2
  <2>12. ASSUME NEW i \in Group(w), NEW j \in Group(w), i # j,
                session'[i].status = "live", session'[j].status = "live"
         PROVE  ~Related(session'[i], session'[j])
    <3>1. /\ i \in others \ Redundant(rolled, others) /\ i \in Ids
          /\ j \in others \ Redundant(rolled, others) /\ j \in Ids
      BY <2>11, <2>12
    <3> HIDE DEF others
    <3>2. ~Related(rolled[i], rolled[j])
      BY <2>3, <2>5, <2>12, <3>1, FoldSeparates
    <3> QED
      BY <2>7, <3>1, <3>2 DEF Related, SameGroup
  <2>13. \A i \in Ids : session'[i].key = session[i].key
    BY <2>4, <2>7
  <2> QED
    BY <1>2, <2>9, <2>10, <2>12, <2>13 DEF id, row
<1> QED
  BY <1>4, <1>5

\* A merge continues every row, if the one it remembers inserting is still as inserted.
LEMMA MergeContinues ==
    ASSUME SessionAssumption, OwnersInv, Sequenced, NEW w \in Writers, Merge(w),
           writer[w].id \in Live => session[writer[w].id] = writer[w].row, NEW i \in Live
    PROVE  \E j \in Ids : Continues(session[i], session'[j])
<1>1. Rowed(session) /\ Group(w) \subseteq Ids /\ \A k \in Ids : session[k].msgs \in Seq(Nat)
  BY DEF OwnersInv, SessionsApart, Rowed, Group, Live, Sequenced
<1>2. (\A k \in Group(w) : session[k].status = "live") /\ i \in Ids /\ session[i].status = "live"
  BY DEF Group, Live
<1>3. MaxSnapshots \in Nat
  BY DEF SessionAssumption
<1>4. CASE ~WritesBack(w)
  BY <1>1, <1>2, <1>3, <1>4, MergePlain, FoldContinues
<1>5. CASE WritesBack(w)
  <2> DEFINE id == writer[w].id
             row == writer[w].row
             others == Group(w) \ {id}
  <2>1. PICK kept \in others :
          /\ session' = Fold(RollForward(kept, id, row), others)
          /\ session[kept].key = row.key /\ IsPrefix(session[kept].msgs, row.msgs)
    BY <1>5, MergeRolled
  <2> DEFINE rolled == RollForward(kept, id, row)
  <2>2. row.msgs \in Seq(Nat) /\ (id \in Live => session[id] = row)
    BY DEF Merge, Sequenced
  <2> HIDE DEF id, row
  <2>3. others \subseteq Ids /\ kept \in Ids /\ session[kept].status = "live" /\ kept # id
    BY <1>1, <1>2, <2>1
  <2>4. ASSUME NEW k \in Ids
        PROVE  /\ IsRow(rolled[k]) /\ rolled[k].key = session[k].key /\ session[k].tools \subseteq rolled[k].tools
               /\ k = kept => /\ rolled[k].msgs = row.msgs /\ row.tools \subseteq rolled[k].tools
                              /\ rolled[k].status = session[k].status
               /\ k # kept => rolled[k].msgs = session[k].msgs
               /\ k # kept /\ k # id => rolled[k] = session[k]
    BY <1>1, RollView DEF Rowed
  <2> HIDE DEF rolled
  <2>5. Rowed(rolled) /\ \A k \in Ids : rolled[k].msgs \in Seq(Nat)
    BY <1>1, <2>2, <2>4 DEF Rowed
  <2>6. \A k \in others : rolled[k].status = "live"
    BY <1>2, <2>3, <2>4
  <2>7. PICK k \in Ids : Continues(session[i], rolled[k])
    <3>1. CASE i = id
      <4>1. session[i] = row
        BY <2>2, <3>1
      <4>2. IsPrefix(row.msgs, rolled[kept].msgs)
        BY <2>2, <2>3, <2>4, PrefixOrder
      <4> QED
        BY <2>1, <2>3, <2>4, <4>1, <4>2 DEF Continues
    <3>2. CASE i = kept
      BY <1>2, <2>1, <2>3, <2>4, <3>2 DEF Continues
    <3>3. CASE i # id /\ i # kept
      <4>1. rolled[i] = session[i] /\ IsPrefix(session[i].msgs, session[i].msgs)
        BY <1>1, <1>2, <2>4, <3>3, PrefixOrder
      <4> QED
        BY <1>2, <4>1 DEF Continues
    <3> QED
      BY <3>1, <3>2, <3>3
  <2> HIDE DEF others
  <2>8. rolled[k].status = "live"
    BY <2>7 DEF Continues
  <2>9. PICK j \in Ids : Continues(rolled[k], Fold(rolled, others)[j])
    BY <1>3, <2>3, <2>5, <2>6, <2>8, FoldContinues
  <2>10. session' = Fold(rolled, others)
    BY <2>1 DEF rolled, others
  <2>11. session'[j].msgs \in Seq(Nat)
    <3>1. Fold(rolled, others)[j].msgs = rolled[j].msgs
      BY <2>3, <2>5, FoldView
    <3> QED
      BY <2>5, <2>10, <3>1
  <2>12. IsPrefix(session[i].msgs, rolled[k].msgs) /\ IsPrefix(rolled[k].msgs, session'[j].msgs)
    BY <2>7, <2>9, <2>10 DEF Continues
  <2>13. IsPrefix(session[i].msgs, session'[j].msgs)
    BY <1>1, <1>2, <2>5, <2>11, <2>12, PrefixOrder
  <2> QED
    BY <2>7, <2>9, <2>10, <2>13 DEF Continues
<1> QED
  BY <1>4, <1>5

-----------------------------------------------------------------------------
\* A step in which sessions change only by leaving.
Fewer ==
    /\ lastId' = lastId
    /\ \A i \in Ids : \/ session'[i] = session[i]
                      \/ session'[i].status # "live" /\ session'[i].msgs \in Seq(Nat)

LEMMA SoftDeleteLeaves ==
    ASSUME OwnersInv, Sequenced, NEW rows, session' = SoftDelete(rows), lastId' = lastId
    PROVE  Fewer
<1> SUFFICES ASSUME NEW i \in Ids
             PROVE  \/ session'[i] = session[i]
                    \/ session'[i].status # "live" /\ session'[i].msgs \in Seq(Nat)
  BY DEF Fewer
<1>1. session'[i] = IF i \in rows \cap Live THEN [session[i] EXCEPT !.status = "soft"] ELSE session[i]
  BY DEF SoftDelete
<1>2. IsRow(session[i]) /\ session[i].msgs \in Seq(Nat)
  BY DEF OwnersInv, SessionsApart, Sequenced
<1>3. CASE i \in rows \cap Live
  <2>1. session'[i].msgs = session[i].msgs /\ session'[i].status = "soft"
    BY <1>1, <1>2, <1>3 DEF IsRow
  <2> QED
    BY <1>2, <2>1
<1> QED
  BY <1>1, <1>3

LEMMA PurgeSessionsLeaves ==
    ASSUME PurgeSessions
    PROVE  Fewer
<1>1. [NoSession EXCEPT !.status = "gone"].status = "gone" /\ [NoSession EXCEPT !.status = "gone"].msgs = <<>>
  BY DEF NoSession
<1>2. <<>> \in Seq(Nat)
  OBVIOUS
<1>3. \A i \in Ids : session'[i] = IF i \in Deleted THEN [NoSession EXCEPT !.status = "gone"] ELSE session[i]
  BY DEF PurgeSessions
<1>4. lastId' = lastId
  BY DEF PurgeSessions
<1> QED
  BY <1>1, <1>2, <1>3, <1>4 DEF Fewer

\* The steps that insert and merge, and the others: which only take sessions away, or
\* only move one worker.
LEMMA StepKinds ==
    ASSUME OwnersInv, Sequenced, [Next]_vars
    PROVE  \/ \E w \in Writers : Store(w) \/ Merge(w)
           \/ \E w \in Writers : \/ \E snapshot \in Snapshots : Lookup(w, snapshot)
                                 \/ StoreFails(w) \/ MergeScan(w) \/ MergeFails(w)
           \/ Fewer /\ UNCHANGED <<writer, debt>>
<1>1. CASE UNCHANGED vars
  BY <1>1 DEF vars, data, history, Fewer
<1>2. ASSUME NEW i \in Ids, UserDeletes(i) PROVE Fewer /\ UNCHANGED <<writer, debt>>
  <2>1. session' = SoftDelete({i}) /\ UNCHANGED <<lastId, writer, debt>>
    BY <1>2 DEF UserDeletes
  <2> QED
    BY <2>1, SoftDeleteLeaves
<1>3. CASE CleanupDelete
  <2>1. session' = SoftDelete(cleanup.rows) /\ UNCHANGED <<lastId, writer, debt>>
    BY <1>3 DEF CleanupDelete, history
  <2> QED
    BY <2>1, SoftDeleteLeaves
<1>4. CASE PurgeSessions
  BY <1>4, PurgeSessionsLeaves DEF PurgeSessions, history
<1>5. CASE \/ \E i \in Ids : GrowIdle(i)
           \/ CleanupScan \/ PurgeReadDeleted \/ PurgeReadActive
           \/ PurgeMessages \/ PurgeTools \/ PurgeFails
  BY <1>5 DEF GrowIdle, CleanupScan, PurgeReadDeleted, PurgeReadActive,
              PurgeMessages, PurgeTools, PurgeFails, data, history, Fewer
<1>6. CASE \E w \in Writers : Work(w)
  BY <1>6 DEF Work
<1> QED
  BY <1>1, <1>2, <1>3, <1>4, <1>5, <1>6 DEF Next

\* How the steps of a worker change what it holds.
LEMMA WorkerSteps ==
    ASSUME OwnersInv, NEW w \in Writers
    PROVE  /\ \/ \E snapshot \in Snapshots : Lookup(w, snapshot)
              \/ Store(w) \/ StoreFails(w) \/ MergeScan(w) \/ Merge(w) \/ MergeFails(w)
              => \A v \in Writers : v # w => writer'[v] = writer[v]
           /\ \A snapshot \in Snapshots : Lookup(w, snapshot) =>
                /\ writer[w].pc = "idle" /\ writer'[w].pc = "storing" /\ writer'[w].convo = snapshot.convo
                /\ UNCHANGED <<session, lastId, debt>>
           /\ StoreFails(w) =>
                writer[w].pc = "storing" /\ writer'[w] = NoTask /\ UNCHANGED <<session, lastId, debt>>
           /\ MergeFails(w) =>
                /\ writer'[w] = NoTask /\ UNCHANGED <<session, lastId>>
                /\ debt' = debt \cup {writer[w].id}
           /\ Merge(w) => writer'[w] = NoTask /\ writer[w].pc = "merging" /\ lastId' = lastId
           /\ MergeScan(w) =>
                /\ writer[w].pc = "stored" /\ writer'[w].pc = "merging" /\ writer'[w].id = writer[w].id
                /\ writer'[w].row = writer[w].row
                /\ writer'[w].seen = {i \in Live : SameGroup(session[i], writer[w].row)}
                /\ UNCHANGED <<session, lastId, debt>>
<1>1. DOMAIN writer = Writers /\ IsTask(writer[w])
  BY DEF OwnersInv, WorkersApart
<1>2. ASSUME NEW snapshot \in Snapshots, Lookup(w, snapshot)
      PROVE  /\ writer[w].pc = "idle" /\ writer'[w].pc = "storing" /\ writer'[w].convo = snapshot.convo
             /\ \A v \in Writers : v # w => writer'[v] = writer[v]
             /\ UNCHANGED <<session, lastId, debt>>
  BY <1>1, <1>2 DEF Lookup, data, history, NoTask
<1>3. ASSUME StoreFails(w) \/ MergeFails(w) \/ Merge(w)
      PROVE  writer'[w] = NoTask /\ \A v \in Writers : v # w => writer'[v] = writer[v]
  BY <1>1, <1>3 DEF StoreFails, MergeFails, Merge
<1>4. ASSUME MergeScan(w)
      PROVE  /\ writer[w].pc = "stored" /\ writer'[w].pc = "merging" /\ writer'[w].id = writer[w].id
             /\ writer'[w].row = writer[w].row
             /\ writer'[w].seen = {i \in Live : SameGroup(session[i], writer[w].row)}
             /\ \A v \in Writers : v # w => writer'[v] = writer[v]
             /\ UNCHANGED <<session, lastId, debt>>
  <2> DEFINE scan == {i \in Live : SameGroup(session[i], writer[w].row)}
  <2>1. /\ writer[w].pc = "stored" /\ UNCHANGED <<session, lastId, debt>>
        /\ writer' = [writer EXCEPT ![w].pc = "merging", ![w].seen = scan]
    BY <1>4 DEF MergeScan, data, history
  <2> HIDE DEF scan
  <2>2. /\ writer'[w].pc = "merging" /\ writer'[w].id = writer[w].id
        /\ writer'[w].row = writer[w].row /\ writer'[w].seen = scan
    BY <1>1, <2>1 DEF IsTask
  <2>3. \A v \in Writers : v # w => writer'[v] = writer[v]
    BY <1>1, <2>1
  <2> QED
    BY <2>1, <2>2, <2>3 DEF scan
<1>5. ASSUME Store(w) PROVE \A v \in Writers : v # w => writer'[v] = writer[v]
  BY <1>1, <1>5 DEF Store
<1>6. StoreFails(w) => writer[w].pc = "storing" /\ UNCHANGED <<session, lastId, debt>>
  BY DEF StoreFails, data, history
<1>7. MergeFails(w) => UNCHANGED <<session, lastId>> /\ debt' = debt \cup {writer[w].id}
  BY DEF MergeFails, data
<1>8. Merge(w) => writer[w].pc = "merging" /\ lastId' = lastId
  BY DEF Merge
<1> QED
  BY <1>2, <1>3, <1>4, <1>5, <1>6, <1>7, <1>8

\* What an insert adds: one row, held by its worker, of messages in order.
LEMMA StoreView ==
    ASSUME NamesInv, Sequenced, NEW w \in Writers, Store(w)
    PROVE  /\ lastId \in Nat /\ lastId' = lastId + 1 /\ lastId + 1 \in Ids
           /\ writer[w].pc = "storing" /\ debt' = debt
           /\ \A i \in Ids : i # lastId + 1 => session'[i] = session[i]
           /\ writer'[w].pc = "stored" /\ writer'[w].id = lastId + 1
           /\ session'[lastId + 1] = writer'[w].row
           /\ writer'[w].row.msgs \in Seq(Nat) \ {<<>>}
<1> DEFINE task == writer[w]
           rows == RowsFor(task.found)
           row == NewSession(task, rows)
           next == [NoTask EXCEPT !.pc = "stored", !.id = lastId + 1, !.row = row]
<1>1. /\ session' = [session EXCEPT ![lastId + 1] = row] /\ lastId' = lastId + 1
      /\ writer' = [writer EXCEPT ![w] = next] /\ task.pc = "storing" /\ lastId < MaxSnapshots /\ debt' = debt
  BY DEF Store
<1>2. /\ DOMAIN task.found = ToSet(task.convo) \cup task.tools
      /\ DOMAIN task.found \subseteq Items /\ IsFiniteSet(DOMAIN task.found)
      /\ \A x \in DOMAIN task.found : task.found[x] \in 0..lastRow
  BY <1>1 DEF NamesInv, TasksKnown
<1>3. /\ DOMAIN rows = DOMAIN task.found
      /\ \A x \in DOMAIN task.found : rows[x] \in Nat
  <2> DEFINE new == {x \in DOMAIN rows : rows[x] > lastRow}
  <2>1. RowsKnown
    BY DEF NamesInv
  <2>2. /\ DOMAIN rows = DOMAIN task.found
        /\ \A x \in DOMAIN task.found : rows[x] \in 1..(lastRow + Cardinality(new))
    BY <1>2, <2>1, RowsForContents
  <2> HIDE DEF rows, new
  <2> QED
    BY <2>2
<1>4. task.convo \in Seq(Messages) \ {<<>>}
  BY <1>1 DEF Sequenced
<1>5. row.msgs = [n \in DOMAIN task.convo |-> rows[task.convo[n]]]
  BY DEF NewSession
<1>6. next.pc = "stored" /\ next.id = lastId + 1 /\ next.row = row
  BY DEF NoTask
<1> HIDE DEF task, rows, row, next
<1>7. row.msgs \in Seq(Nat) \ {<<>>}
  <2>1. \A n \in 1..Len(task.convo) : rows[task.convo[n]] \in Nat
    BY <1>2, <1>3, <1>4 DEF ToSet
  <2>2. DOMAIN task.convo = 1..Len(task.convo) /\ Len(task.convo) \in Nat \ {0}
    BY <1>4, EmptySeq
  <2>3. row.msgs = [n \in 1..Len(task.convo) |-> rows[task.convo[n]]]
    BY <1>5, <2>2
  <2>4. row.msgs \in Seq(Nat) /\ Len(row.msgs) = Len(task.convo)
    BY <2>1, <2>2, <2>3
  <2> QED
    BY <2>2, <2>4, EmptySeq
<1>8. lastId \in Nat /\ DOMAIN session = Ids /\ DOMAIN writer = Writers
  BY DEF NamesInv, OwnersInv, SessionsApart, WorkersApart
<1>9. lastId + 1 \in Ids
  BY <1>1, <1>8, SessionAssumption DEF Ids, SessionAssumption
<1> QED
  BY <1>1, <1>6, <1>7, <1>8, <1>9 DEF task

LEMMA SequencedStep ==
    ASSUME SessionAssumption, NamesInv, Sequenced, [Next]_vars
    PROVE  Sequenced'
<1>1. OwnersInv
  BY DEF NamesInv
<1>2. NoTask.pc = "idle"
  BY IdleTask
<1>3. ASSUME NEW w \in Writers, Store(w) PROVE Sequenced'
  <2>1. \A v \in Writers : v # w => writer'[v] = writer[v]
    BY <1>1, <1>3, WorkerSteps
  <2> QED
    BY <1>3, <2>1, StoreView DEF Sequenced
<1>4. ASSUME NEW w \in Writers, Merge(w) PROVE Sequenced'
  <2>1. writer'[w] = NoTask /\ writer[w].pc = "merging" /\ \A v \in Writers : v # w => writer'[v] = writer[v]
    BY <1>1, <1>4, WorkerSteps
  <2>2. /\ \A i \in Ids : session'[i].msgs \in {session[i].msgs, writer[w].row.msgs}
        /\ \A i \in Ids : session'[i].status = "live" => session[i].status = "live"
    BY <1>1, <1>4, MergeView DEF Live
  <2> QED
    BY <1>2, <2>1, <2>2 DEF Sequenced
<1>5. ASSUME NEW w \in Writers, NEW snapshot \in Snapshots, Lookup(w, snapshot) PROVE Sequenced'
  <2>1. /\ writer'[w].pc = "storing" /\ writer'[w].convo = snapshot.convo /\ session' = session
        /\ \A v \in Writers : v # w => writer'[v] = writer[v]
    BY <1>1, <1>5, WorkerSteps
  <2>2. snapshot.convo \in Seq(Messages) \ {<<>>}
    BY DEF SessionAssumption
  <2> QED
    BY <2>1, <2>2 DEF Sequenced
<1>6. ASSUME NEW w \in Writers, StoreFails(w) \/ MergeFails(w) PROVE Sequenced'
  <2>1. writer'[w] = NoTask /\ session' = session /\ \A v \in Writers : v # w => writer'[v] = writer[v]
    BY <1>1, <1>6, WorkerSteps
  <2> QED
    BY <1>2, <2>1 DEF Sequenced
<1>7. ASSUME NEW w \in Writers, MergeScan(w) PROVE Sequenced'
  <2>1. /\ writer[w].pc = "stored" /\ writer'[w].pc = "merging" /\ writer'[w].row = writer[w].row
        /\ session' = session /\ \A v \in Writers : v # w => writer'[v] = writer[v]
    BY <1>1, <1>7, WorkerSteps
  <2> QED
    BY <2>1 DEF Sequenced
<1>8. CASE Fewer /\ UNCHANGED <<writer, debt>>
  BY <1>8 DEF Fewer, Sequenced
<1> QED
  BY <1>1, <1>3, <1>4, <1>5, <1>6, <1>7, <1>8, StepKinds

LEMMA SequencedInit ==
    ASSUME Init
    PROVE  Sequenced
<1>1. NoSession.status = "none" /\ NoSession.msgs = <<>> /\ <<>> \in Seq(Nat) /\ NoTask.pc = "idle"
  BY DEF NoSession, NoTask
<1> QED
  BY <1>1 DEF Init, Sequenced

\* A merge loses nothing: each session alive before it is continued by one alive after
\* it, with all its messages and all its tools, if the row its worker remembers
\* inserting has not been rolled forward meanwhile.
THEOREM MergesContinue == Spec => MergesKeepContent
<1>1. Init => NamesInv /\ Sequenced
  BY NamesInit, SequencedInit, SessionAssumption
<1>2. NamesInv /\ Sequenced /\ [Next]_vars => (NamesInv /\ Sequenced)'
  BY NamesStep, SequencedStep, SessionAssumption
<1>3. ASSUME NamesInv, Sequenced, NEW w \in Writers, Merge(w),
             writer[w].id \in Live => session[writer[w].id] = writer[w].row, NEW i \in Live
      PROVE  \E j \in Ids :
                /\ session'[j].status = "live" /\ session'[j].key = session[i].key
                /\ IsPrefix(session[i].msgs, session'[j].msgs)
                /\ session[i].tools \subseteq session'[j].tools
  BY <1>3, MergeContinues, SessionAssumption DEF NamesInv, Continues
<1>4. NamesInv /\ Sequenced =>
        [\A w \in Writers :
          /\ Merge(w)
          /\ writer[w].id \in Live => session[writer[w].id] = writer[w].row
          => \A i \in Live : \E j \in Ids :
                /\ session'[j].status = "live" /\ session'[j].key = session[i].key
                /\ IsPrefix(session[i].msgs, session'[j].msgs)
                /\ session[i].tools \subseteq session'[j].tools]_vars
  BY <1>3
<1> QED
  BY <1>1, <1>2, <1>4, PTL DEF Spec, MergesKeepContent

-----------------------------------------------------------------------------
(***************************************************************************)
(* Duplicates heal.  One lemma for each kind of step.                      *)
(***************************************************************************)
LEMMA RelatedSymmetric ==
    ASSUME NEW r, NEW s
    PROVE  /\ Related(r, s) <=> Related(s, r)
           /\ SameGroup(r, s) <=> SameGroup(s, r)
           /\ Related(r, s) => SameGroup(r, s)
  BY DEF Related, SameGroup

\* Sessions leave and no merge begins or ends.
LEMMA CalmHeals ==
    ASSUME Healing, Fewer, debt' = debt,
           \A v \in Writers : \/ writer'[v] = writer[v]
                              \/ /\ writer[v].pc \notin {"stored", "merging"}
                                 /\ writer'[v].pc \notin {"stored", "merging"}
    PROVE  Healing'
<1>1. ASSUME NEW i \in Ids, session'[i].status = "live" PROVE i \in Live /\ session'[i] = session[i]
  BY <1>1 DEF Fewer, Live
<1>2. ASSUME NEW v \in Writers, writer'[v].pc \in {"stored", "merging"} PROVE writer'[v] = writer[v]
  BY <1>2
<1>3. ASSUME NEW v \in Writers, NEW i, NEW j, WillCompare(v, i, j)
      PROVE  writer'[v] = writer[v] /\ WillCompare(v, i, j)'
  BY <1>3 DEF WillCompare
<1>4. OwnSeen'
  BY <1>1, <1>2 DEF Healing, OwnSeen, Fewer, Live
<1>5. SeenFirst'
  BY <1>1, <1>2 DEF Healing, SeenFirst, Live
<1>6. Attended'
  <2> SUFFICES ASSUME NEW i \in Live', NEW j \in Live', i # j, Related(session'[i], session'[j])
               PROVE  \/ i \in debt' \/ j \in debt'
                      \/ \E v \in Writers : writer'[v].id \in {i, j} /\ WillCompare(v, i, j)'
    BY DEF Attended
  <2>1. i \in Live /\ j \in Live /\ session'[i] = session[i] /\ session'[j] = session[j]
    BY <1>1 DEF Live
  <2>2. \/ i \in debt \/ j \in debt
        \/ \E v \in Writers : writer[v].id \in {i, j} /\ WillCompare(v, i, j)
    BY <2>1 DEF Healing, Attended
  <2> QED
    BY <1>3, <2>2
<1>7. MissedAttended'
  <2> SUFFICES ASSUME NEW w \in Writers, writer'[w].pc = "merging",
                      NEW i \in Live' \cap writer'[w].seen, NEW j \in Live' \ writer'[w].seen,
                      Related(session'[i], session'[j])
               PROVE  j \in debt' \/ \E v \in Writers : writer'[v].id = j /\ WillCompare(v, i, j)'
    BY DEF MissedAttended
  <2>1. i \in Live /\ j \in Live /\ session'[i] = session[i] /\ session'[j] = session[j]
    BY <1>1 DEF Live
  <2>2. writer'[w] = writer[w]
    BY <1>2
  <2>3. j \in debt \/ \E v \in Writers : writer[v].id = j /\ WillCompare(v, i, j)
    BY <2>1, <2>2 DEF Healing, MissedAttended
  <2> QED
    BY <1>3, <2>3
<1> QED
  BY <1>4, <1>5, <1>6, <1>7 DEF Healing

\* A lost merge puts its row in debt.
LEMMA LossHeals ==
    ASSUME OwnersInv, Healing, NEW w \in Writers, MergeFails(w)
    PROVE  Healing'
<1>1. /\ writer'[w].pc = "idle" /\ session' = session /\ lastId' = lastId
      /\ debt' = debt \cup {writer[w].id} /\ \A v \in Writers : v # w => writer'[v] = writer[v]
  BY WorkerSteps, IdleTask
<1>2. Live' = Live
  BY <1>1 DEF Live
<1>3. ASSUME NEW v \in Writers, NEW i, NEW j, WillCompare(v, i, j)
      PROVE  writer[v].id \in debt' \/ (writer'[v] = writer[v] /\ WillCompare(v, i, j)')
  BY <1>1, <1>3 DEF WillCompare
<1>4. OwnSeen' /\ SeenFirst'
  BY <1>1, <1>2 DEF Healing, OwnSeen, SeenFirst
<1>5. Attended'
  <2> SUFFICES ASSUME NEW i \in Live', NEW j \in Live', i # j, Related(session'[i], session'[j])
               PROVE  \/ i \in debt' \/ j \in debt'
                      \/ \E v \in Writers : writer'[v].id \in {i, j} /\ WillCompare(v, i, j)'
    BY DEF Attended
  <2>1. \/ i \in debt \/ j \in debt
        \/ \E v \in Writers : writer[v].id \in {i, j} /\ WillCompare(v, i, j)
    BY <1>1, <1>2 DEF Healing, Attended
  <2> QED
    BY <1>1, <1>3, <2>1
<1>6. MissedAttended'
  <2> SUFFICES ASSUME NEW u \in Writers, writer'[u].pc = "merging",
                      NEW i \in Live' \cap writer'[u].seen, NEW j \in Live' \ writer'[u].seen,
                      Related(session'[i], session'[j])
               PROVE  j \in debt' \/ \E v \in Writers : writer'[v].id = j /\ WillCompare(v, i, j)'
    BY DEF MissedAttended
  <2>1. writer'[u] = writer[u]
    BY <1>1
  <2>2. j \in debt \/ \E v \in Writers : writer[v].id = j /\ WillCompare(v, i, j)
    BY <1>1, <1>2, <2>1 DEF Healing, MissedAttended
  <2> QED
    BY <1>1, <1>3, <2>2
<1> QED
  BY <1>4, <1>5, <1>6 DEF Healing

\* A scan sees both of two duplicates when one is its worker's own row.
LEMMA ScanHeals ==
    ASSUME OwnersInv, Healing, NEW w \in Writers, MergeScan(w)
    PROVE  Healing'
<1> DEFINE row == writer[w].row
           scan == {i \in Live : SameGroup(session[i], row)}
<1>1. /\ writer[w].pc = "stored" /\ writer'[w].pc = "merging" /\ writer'[w].id = writer[w].id
      /\ writer'[w].row = row /\ writer'[w].seen = scan
      /\ session' = session /\ lastId' = lastId /\ debt' = debt
      /\ \A v \in Writers : v # w => writer'[v] = writer[v]
  BY WorkerSteps
<1>2. Live' = Live
  BY <1>1 DEF Live
<1>3. writer[w].id \in Live => SameGroup(session[writer[w].id], row) /\ writer[w].id \in scan
  BY <1>1 DEF Healing, OwnSeen
<1>4. ASSUME NEW i \in Live, NEW j \in Live, SameGroup(session[i], session[j]), i \in scan
      PROVE  j \in scan
  BY <1>4 DEF SameGroup
<1>5. ASSUME NEW v \in Writers, NEW i \in Live, NEW j \in Live, Related(session[i], session[j]),
             writer[v].id \in {i, j}, WillCompare(v, i, j)
      PROVE  writer'[v].id = writer[v].id /\ WillCompare(v, i, j)'
  <2>1. CASE v # w
    BY <1>1, <1>5, <2>1 DEF WillCompare
  <2>2. CASE v = w
    <3>1. SameGroup(session[i], session[j]) /\ SameGroup(session[j], session[i])
      BY <1>5, RelatedSymmetric
    <3>2. i \in scan /\ j \in scan
      BY <1>3, <1>4, <1>5, <2>2, <3>1
    <3> QED
      BY <1>1, <2>2, <3>2 DEF WillCompare
  <2> QED
    BY <2>1, <2>2
<1>6. OwnSeen'
  <2>1. ASSUME NEW v \in Writers, writer'[v].pc \in {"stored", "merging"}
        PROVE  /\ writer'[v].id \in 1..lastId
               /\ writer'[v].id \in Live => SameGroup(session[writer'[v].id], writer'[v].row)
               /\ writer'[v].pc = "merging" /\ writer'[v].id \in Live => writer'[v].id \in writer'[v].seen
    <3>1. CASE v # w
      BY <1>1, <2>1, <3>1 DEF Healing, OwnSeen
    <3>2. CASE v = w
      BY <1>1, <1>3, <3>2 DEF Healing, OwnSeen
    <3> QED
      BY <3>1, <3>2
  <2> QED
    BY <1>1, <1>2, <2>1 DEF OwnSeen
<1>7. SeenFirst'
  <2>1. ASSUME NEW v \in Writers, writer'[v].pc = "merging", NEW i \in writer'[v].seen
        PROVE  /\ i \in Live => SameGroup(session[i], writer'[v].row)
               /\ \A j \in Live \ writer'[v].seen : SameGroup(session[j], writer'[v].row) => i < j
    <3>1. CASE v # w
      BY <1>1, <2>1, <3>1 DEF Healing, SeenFirst
    <3>2. CASE v = w
      BY <1>1, <2>1, <3>2
    <3> QED
      BY <3>1, <3>2
  <2> QED
    BY <1>1, <1>2, <2>1 DEF SeenFirst
<1>8. Attended'
  <2> SUFFICES ASSUME NEW i \in Live', NEW j \in Live', i # j, Related(session'[i], session'[j])
               PROVE  \/ i \in debt' \/ j \in debt'
                      \/ \E v \in Writers : writer'[v].id \in {i, j} /\ WillCompare(v, i, j)'
    BY DEF Attended
  <2>1. i \in Live /\ j \in Live /\ Related(session[i], session[j])
    BY <1>1, <1>2
  <2>2. \/ i \in debt \/ j \in debt
        \/ \E v \in Writers : writer[v].id \in {i, j} /\ WillCompare(v, i, j)
    BY <2>1 DEF Healing, Attended
  <2> QED
    BY <1>1, <1>5, <2>1, <2>2
<1>9. MissedAttended'
  <2> SUFFICES ASSUME NEW u \in Writers, writer'[u].pc = "merging",
                      NEW i \in Live' \cap writer'[u].seen, NEW j \in Live' \ writer'[u].seen,
                      Related(session'[i], session'[j])
               PROVE  j \in debt' \/ \E v \in Writers : writer'[v].id = j /\ WillCompare(v, i, j)'
    BY DEF MissedAttended
  <2>1. i \in Live /\ j \in Live /\ Related(session[i], session[j]) /\ SameGroup(session[i], session[j])
    BY <1>1, <1>2, RelatedSymmetric
  <2>2. CASE u = w
    <3> HIDE DEF scan
    <3>1. i \in scan /\ j \notin scan
      BY <1>1, <2>2
    <3> QED
      BY <1>4, <2>1, <3>1
  <2>3. CASE u # w
    <3>1. writer'[u] = writer[u]
      BY <1>1, <2>3
    <3>2. j \in debt \/ \E v \in Writers : writer[v].id = j /\ WillCompare(v, i, j)
      BY <2>1, <3>1 DEF Healing, MissedAttended
    <3> QED
      BY <1>1, <1>5, <2>1, <3>2
  <2> QED
    BY <2>2, <2>3
<1> QED
  BY <1>6, <1>7, <1>8, <1>9 DEF Healing

\* A new row is attended by the worker that inserted it.
LEMMA StoreHeals ==
    ASSUME NamesInv, Sequenced, Healing, NEW w \in Writers, Store(w)
    PROVE  Healing'
<1> DEFINE new == lastId + 1
<1>1. /\ lastId \in Nat /\ lastId' = new /\ new \in Ids
      /\ writer[w].pc = "storing" /\ debt' = debt
      /\ \A i \in Ids : i # new => session'[i] = session[i]
      /\ writer'[w].pc = "stored" /\ writer'[w].id = new
      /\ session'[new] = writer'[w].row
  BY StoreView
<1>2. \A v \in Writers : v # w => writer'[v] = writer[v]
  BY WorkerSteps DEF NamesInv
<1>3. ASSUME NEW i \in Live', i # new PROVE i \in Live /\ session'[i] = session[i]
  BY <1>1, <1>3 DEF Live
<1>4. ASSUME NEW v \in Writers, NEW i, NEW j, WillCompare(v, i, j)
      PROVE  writer'[v].id = writer[v].id /\ WillCompare(v, i, j)'
  BY <1>1, <1>2, <1>4 DEF WillCompare
<1>5. ASSUME NEW i, NEW j PROVE WillCompare(w, i, j)'
  BY <1>1 DEF WillCompare
<1>6. OwnSeen'
  <2>1. ASSUME NEW v \in Writers, v # w, writer[v].pc \in {"stored", "merging"}
        PROVE  /\ writer[v].id \in 1..lastId'
               /\ writer[v].id \in Live' => SameGroup(session'[writer[v].id], writer[v].row)
               /\ writer[v].pc = "merging" /\ writer[v].id \in Live' => writer[v].id \in writer[v].seen
    <3>1. /\ writer[v].id \in 1..lastId
          /\ writer[v].id \in Live => SameGroup(session[writer[v].id], writer[v].row)
          /\ writer[v].pc = "merging" /\ writer[v].id \in Live => writer[v].id \in writer[v].seen
      BY <2>1 DEF Healing, OwnSeen
    <3>2. writer[v].id # new /\ writer[v].id \in 1..lastId'
      BY <1>1, <3>1
    <3> QED
      BY <1>3, <3>1, <3>2
  <2>2. new \in 1..lastId' /\ SameGroup(session'[new], writer'[w].row)
    BY <1>1 DEF SameGroup
  <2> QED
    BY <1>1, <1>2, <2>1, <2>2 DEF OwnSeen
<1>7. SeenFirst'
  <2>1. ASSUME NEW v \in Writers, writer'[v].pc = "merging", NEW i \in writer'[v].seen
        PROVE  /\ i \in Live' => SameGroup(session'[i], writer'[v].row)
               /\ \A j \in Live' \ writer'[v].seen : SameGroup(session'[j], writer'[v].row) => i < j
    <3>1. writer'[v] = writer[v] /\ writer[v].pc = "merging" /\ i \in writer[v].seen
      BY <1>1, <1>2, <2>1
    <3>2. i \in Ids /\ i <= lastId /\ i \in Nat
      BY <3>1 DEF NamesInv, OwnersInv, WorkersApart, Ids
    <3>3. i # new /\ i < new
      BY <1>1, <3>2
    <3>4. i \in Live' => SameGroup(session'[i], writer'[v].row)
      BY <1>3, <3>1, <3>3 DEF Healing, SeenFirst
    <3>5. ASSUME NEW j \in Live' \ writer'[v].seen, SameGroup(session'[j], writer'[v].row) PROVE i < j
      <4>1. CASE j = new
        BY <3>3, <4>1
      <4>2. CASE j # new
        BY <1>3, <3>1, <3>5, <4>2 DEF Healing, SeenFirst
      <4> QED
        BY <4>1, <4>2
    <3> QED
      BY <3>4, <3>5
  <2> QED
    BY <2>1 DEF SeenFirst
<1>8. Attended'
  <2> SUFFICES ASSUME NEW i \in Live', NEW j \in Live', i # j, Related(session'[i], session'[j])
               PROVE  \/ i \in debt' \/ j \in debt'
                      \/ \E v \in Writers : writer'[v].id \in {i, j} /\ WillCompare(v, i, j)'
    BY DEF Attended
  <2> HIDE DEF new
  <2>1. CASE i = new \/ j = new
    BY <1>1, <1>5, <2>1
  <2>2. CASE i # new /\ j # new
    <3>1. i \in Live /\ j \in Live /\ session'[i] = session[i] /\ session'[j] = session[j]
      BY <1>3, <2>2
    <3>2. \/ i \in debt \/ j \in debt
          \/ \E v \in Writers : writer[v].id \in {i, j} /\ WillCompare(v, i, j)
      BY <3>1 DEF Healing, Attended
    <3> QED
      BY <1>1, <1>4, <3>2
  <2> QED
    BY <2>1, <2>2
<1>9. MissedAttended'
  <2> SUFFICES ASSUME NEW u \in Writers, writer'[u].pc = "merging",
                      NEW i \in Live' \cap writer'[u].seen, NEW j \in Live' \ writer'[u].seen,
                      Related(session'[i], session'[j])
               PROVE  j \in debt' \/ \E v \in Writers : writer'[v].id = j /\ WillCompare(v, i, j)'
    BY DEF MissedAttended
  <2>1. writer'[u] = writer[u] /\ writer[u].pc = "merging"
    BY <1>1, <1>2
  <2>2. i <= lastId /\ i \in Ids
    BY <2>1 DEF NamesInv, OwnersInv, WorkersApart
  <2>3. i # new
    BY <1>1, <2>2 DEF Ids
  <2> HIDE DEF new
  <2>4. CASE j = new
    BY <1>1, <1>5, <2>4
  <2>5. CASE j # new
    <3>1. i \in Live /\ j \in Live /\ session'[i] = session[i] /\ session'[j] = session[j]
      BY <1>3, <2>3, <2>5
    <3>2. j \in debt \/ \E v \in Writers : writer[v].id = j /\ WillCompare(v, i, j)
      BY <2>1, <3>1 DEF Healing, MissedAttended
    <3> QED
      BY <1>1, <1>4, <3>2
  <2> QED
    BY <2>4, <2>5
<1> QED
  BY <1>6, <1>7, <1>8, <1>9 DEF Healing

\* A merge separates what it finds; what it misses came later and is attended.
LEMMA MergeHeals ==
    ASSUME OwnersInv, Sequenced, Healing, NEW w \in Writers, Merge(w)
    PROVE  Healing'
<1> DEFINE id == writer[w].id
           row == writer[w].row
<1>1. /\ writer'[w].pc = "idle" /\ writer[w].pc = "merging" /\ lastId' = lastId
      /\ \A v \in Writers : v # w => writer'[v] = writer[v]
  BY WorkerSteps, IdleTask
<1>2. debt' = debt \ (Group(w) \cup {id})
  BY DEF Merge, Group
<1>3. id \in Live => id \in Group(w)
  BY <1>1 DEF Healing, OwnSeen, Group
<1>4. /\ \A i \in Ids : \/ session'[i].msgs = session[i].msgs
                        \/ /\ i \in Group(w) /\ session'[i].msgs = row.msgs
                           /\ IsPrefix(session[i].msgs, row.msgs)
      /\ \A i \in Ids : /\ session'[i].key = session[i].key
                        /\ session'[i].status = "live" => i \in Live
      /\ \A i \in Ids \ Group(w) : session'[i] = session[i] \/ (i = id /\ i \in Live)
      /\ \A i, j \in Group(w) : i # j /\ session'[i].status = "live" /\ session'[j].status = "live" =>
           ~Related(session'[i], session'[j])
  BY MergeView
<1> HIDE DEF id, row
<1>5. row.msgs \in Seq(Nat) /\ \A i \in Live : session[i].msgs \in Seq(Nat) /\ session[i].msgs # <<>>
  BY <1>1 DEF Sequenced, Live, row
<1>6. ASSUME NEW i \in Live' PROVE i \in Ids /\ i \in Live /\ session'[i].status = "live"
  BY <1>4 DEF Live
<1>7. ASSUME NEW i \in Live', i \notin Group(w) PROVE session'[i] = session[i] /\ (i \in debt => i \in debt')
  BY <1>2, <1>3, <1>4, <1>6, <1>7
<1>8. ASSUME NEW i \in Live', NEW r PROVE SameGroup(session'[i], r) <=> SameGroup(session[i], r)
  <2>1. session'[i].key = session[i].key
    BY <1>4, <1>6
  <2>2. Head(session'[i].msgs) = Head(session[i].msgs)
    BY <1>4, <1>5, <1>6, PrefixOrder
  <2> QED
    BY <2>1, <2>2 DEF SameGroup
<1>9. ASSUME NEW i \in Live', NEW j \in Live', j \notin Group(w), Related(session'[i], session'[j])
      PROVE  Related(session[i], session[j])
  <2>1. session'[j] = session[j] /\ session[j].msgs \in Seq(Nat) /\ session[i].msgs \in Seq(Nat)
    BY <1>5, <1>6, <1>7, <1>9
  <2>2. SameGroup(session[i], session[j])
    BY <1>8, <1>9, <2>1, RelatedSymmetric
  <2>3. CASE session'[i].msgs = session[i].msgs
    BY <1>9, <2>1, <2>2, <2>3 DEF Related
  <2>4. CASE session'[i].msgs = row.msgs /\ IsPrefix(session[i].msgs, row.msgs)
    <3>1. IsPrefix(row.msgs, session[j].msgs) \/ IsPrefix(session[j].msgs, row.msgs)
      BY <1>9, <2>1, <2>4 DEF Related
    <3>2. IsPrefix(session[i].msgs, session[j].msgs) \/ IsPrefix(session[j].msgs, session[i].msgs)
      BY <1>5, <2>1, <2>4, <3>1, PrefixOrder
    <3> QED
      BY <2>2, <3>2 DEF Related
  <2> QED
    BY <1>4, <1>6, <2>3, <2>4
<1>10. ASSUME NEW i \in Live', NEW j \in Live', i # j, Related(session'[i], session'[j])
       PROVE  i \notin Group(w) \/ j \notin Group(w)
  BY <1>4, <1>6, <1>10
<1>11. ASSUME NEW v \in Writers, NEW i, NEW j, WillCompare(v, i, j), v # w
       PROVE  writer'[v].id = writer[v].id /\ WillCompare(v, i, j)'
  BY <1>1, <1>11 DEF WillCompare
<1>12. ASSUME NEW j \in Live', j \notin Group(w) PROVE j # id
  BY <1>3, <1>6, <1>12
<1>13. ASSUME NEW u \in Writers, writer'[u].pc \in {"stored", "merging"} PROVE u # w /\ writer'[u] = writer[u]
  BY <1>1, <1>13
<1>14. ASSUME NEW i \in Live', NEW j \in Live', i \in Group(w), j \notin Group(w),
              Related(session'[i], session'[j])
       PROVE  j \in debt' \/ \E v \in Writers : writer'[v].id = j /\ WillCompare(v, i, j)'
  <2>1. Related(session[i], session[j]) /\ j \in Live /\ i \in Live \cap writer[w].seen /\ j \notin writer[w].seen
    BY <1>6, <1>9, <1>14 DEF Group
  <2>2. j \in debt \/ \E v \in Writers : writer[v].id = j /\ WillCompare(v, i, j)
    BY <1>1, <2>1 DEF Healing, MissedAttended
  <2>3. j \in debt => j \in debt'
    BY <1>7, <1>14
  <2>4. ASSUME NEW v \in Writers, writer[v].id = j PROVE v # w
    BY <1>12, <1>14, <2>4 DEF id
  <2> QED
    BY <1>11, <2>2, <2>3, <2>4
<1>15. OwnSeen'
  <2>1. ASSUME NEW u \in Writers, writer'[u].pc \in {"stored", "merging"}
        PROVE  /\ writer'[u].id \in 1..lastId'
               /\ writer'[u].id \in Live' => SameGroup(session'[writer'[u].id], writer'[u].row)
               /\ writer'[u].pc = "merging" /\ writer'[u].id \in Live' => writer'[u].id \in writer'[u].seen
    BY <1>1, <1>6, <1>8, <1>13, <2>1 DEF Healing, OwnSeen
  <2> QED
    BY <2>1 DEF OwnSeen
<1>16. SeenFirst'
  <2>1. ASSUME NEW u \in Writers, writer'[u].pc = "merging", NEW i \in writer'[u].seen
        PROVE  /\ i \in Live' => SameGroup(session'[i], writer'[u].row)
               /\ \A j \in Live' \ writer'[u].seen : SameGroup(session'[j], writer'[u].row) => i < j
    BY <1>6, <1>8, <1>13, <2>1 DEF Healing, SeenFirst
  <2> QED
    BY <2>1 DEF SeenFirst
<1>17. Attended'
  <2> SUFFICES ASSUME NEW i \in Live', NEW j \in Live', i # j, Related(session'[i], session'[j])
               PROVE  \/ i \in debt' \/ j \in debt'
                      \/ \E v \in Writers : writer'[v].id \in {i, j} /\ WillCompare(v, i, j)'
    BY DEF Attended
  <2>1. CASE i \in Group(w) /\ j \notin Group(w)
    BY <1>14, <2>1
  <2>2. CASE j \in Group(w) /\ i \notin Group(w)
    <3>1. Related(session'[j], session'[i])
      BY RelatedSymmetric
    <3>2. i \in debt' \/ \E v \in Writers : writer'[v].id = i /\ WillCompare(v, j, i)'
      BY <1>14, <2>2, <3>1
    <3> QED
      BY <3>2 DEF WillCompare
  <2>3. CASE i \notin Group(w) /\ j \notin Group(w)
    <3>1. Related(session[i], session[j]) /\ i \in Live /\ j \in Live
      BY <1>6, <1>9, <2>3
    <3>2. \/ i \in debt \/ j \in debt
          \/ \E v \in Writers : writer[v].id \in {i, j} /\ WillCompare(v, i, j)
      BY <3>1 DEF Healing, Attended
    <3>3. (i \in debt => i \in debt') /\ (j \in debt => j \in debt')
      BY <1>7, <2>3
    <3>4. ASSUME NEW v \in Writers, writer[v].id \in {i, j} PROVE v # w
      BY <1>12, <2>3, <3>4 DEF id
    <3> QED
      BY <1>11, <3>2, <3>3, <3>4
  <2> QED
    BY <1>10, <2>1, <2>2, <2>3
<1>18. MissedAttended'
  <2> SUFFICES ASSUME NEW u \in Writers, writer'[u].pc = "merging",
                      NEW i \in Live' \cap writer'[u].seen, NEW j \in Live' \ writer'[u].seen,
                      Related(session'[i], session'[j])
               PROVE  j \in debt' \/ \E v \in Writers : writer'[v].id = j /\ WillCompare(v, i, j)'
    BY DEF MissedAttended
  <2>1. u # w /\ writer'[u] = writer[u] /\ i # j
    BY <1>13
  <2>2. i \in Live /\ j \in Live /\ i \in Nat /\ j \in Nat
    BY <1>6 DEF Ids
  <2>3. CASE i \in Group(w) /\ j \notin Group(w)
    BY <1>14, <2>3
  <2>4. CASE i \notin Group(w) /\ j \in Group(w)
    <3>1. Related(session'[j], session'[i])
      BY RelatedSymmetric
    <3>2. Related(session[j], session[i])
      BY <1>9, <2>4, <3>1
    <3>3. SameGroup(session[i], session[j])
      BY <3>2, RelatedSymmetric
    <3>4. SameGroup(session[i], writer[u].row)
      BY <2>1, <2>2 DEF Healing, SeenFirst
    <3>5. SameGroup(session[j], writer[u].row)
      BY <3>3, <3>4 DEF SameGroup
    <3>6. i < j
      BY <2>1, <2>2, <3>5 DEF Healing, SeenFirst
    <3>7. j \in writer[w].seen /\ i \notin writer[w].seen
      BY <2>2, <2>4 DEF Group
    <3>8. SameGroup(session[j], writer[w].row)
      BY <1>1, <2>2, <3>7 DEF Healing, SeenFirst
    <3>9. SameGroup(session[i], writer[w].row)
      BY <3>3, <3>8 DEF SameGroup
    <3>10. j < i
      BY <1>1, <2>2, <3>7, <3>9 DEF Healing, SeenFirst
    <3> QED
      BY <2>2, <3>6, <3>10
  <2>5. CASE i \notin Group(w) /\ j \notin Group(w)
    <3>1. Related(session[i], session[j])
      BY <1>9, <2>5
    <3>2. j \in debt \/ \E v \in Writers : writer[v].id = j /\ WillCompare(v, i, j)
      BY <2>1, <2>2, <3>1 DEF Healing, MissedAttended
    <3>3. j \in debt => j \in debt'
      BY <1>7, <2>5
    <3>4. ASSUME NEW v \in Writers, writer[v].id = j PROVE v # w
      BY <1>12, <2>5, <3>4 DEF id
    <3> QED
      BY <1>11, <3>2, <3>3, <3>4
  <2> QED
    BY <1>10, <2>1, <2>3, <2>4, <2>5
<1> QED
  BY <1>15, <1>16, <1>17, <1>18 DEF Healing

-----------------------------------------------------------------------------
LEMMA HealingStep ==
    ASSUME SessionAssumption, MergeInv, [Next]_vars
    PROVE  Healing'
<1>1. OwnersInv /\ NamesInv /\ Sequenced /\ Healing
  BY DEF MergeInv, NamesInv
<1>2. NoTask.pc = "idle"
  BY IdleTask
<1>3. ASSUME NEW w \in Writers, Store(w) \/ Merge(w) PROVE Healing'
  BY <1>1, <1>3, StoreHeals, MergeHeals
<1>4. ASSUME NEW w \in Writers, (\E snapshot \in Snapshots : Lookup(w, snapshot)) \/ StoreFails(w)
      PROVE  Healing'
  <2>1. /\ writer[w].pc \in {"idle", "storing"} /\ writer'[w].pc \in {"idle", "storing"}
        /\ UNCHANGED <<session, lastId, debt>>
        /\ \A v \in Writers : v # w => writer'[v] = writer[v]
    BY <1>1, <1>2, <1>4, WorkerSteps
  <2>2. Fewer
    BY <2>1 DEF Fewer
  <2> QED
    BY <1>1, <2>1, <2>2, CalmHeals
<1>5. ASSUME NEW w \in Writers, MergeScan(w) \/ MergeFails(w) PROVE Healing'
  BY <1>1, <1>5, ScanHeals, LossHeals
<1>6. CASE Fewer /\ UNCHANGED <<writer, debt>>
  BY <1>1, <1>6, CalmHeals
<1> QED
  BY <1>1, <1>3, <1>4, <1>5, <1>6, StepKinds

LEMMA HealingInit ==
    ASSUME Init
    PROVE  Healing
<1>1. NoSession.status = "none" /\ NoTask.pc = "idle"
  BY DEF NoSession, NoTask
<1>2. Live = {} /\ \A w \in Writers : writer[w].pc = "idle"
  BY <1>1 DEF Init, Live
<1> QED
  BY <1>2 DEF Healing, OwnSeen, SeenFirst, Attended, MissedAttended

\* When no worker is busy, no live session is the beginning of another of its group,
\* unless the merge of one of the two was lost and no later merge has seen it: however
\* inserts and merges of one conversation overlap, somebody compares every two rows.
THEOREM DuplicatesFound == Spec => []DuplicatesHeal
<1>1. Init => MergeInv
  BY NamesInit, SequencedInit, HealingInit, SessionAssumption DEF MergeInv
<1>2. MergeInv /\ [Next]_vars => MergeInv'
  BY NamesStep, SequencedStep, HealingStep, SessionAssumption DEF MergeInv
<1>3. MergeInv => DuplicatesHeal
  <2> SUFFICES ASSUME MergeInv, \A w \in Writers : writer[w].pc = "idle",
                      NEW i \in Live \ debt, NEW j \in Live \ debt, i # j,
                      SameGroup(session[i], session[j]), IsPrefix(session[i].msgs, session[j].msgs)
               PROVE  FALSE
    BY DEF DuplicatesHeal
  <2>1. Related(session[i], session[j])
    BY DEF Related
  <2>2. PICK v \in Writers : WillCompare(v, i, j)
    BY <2>1 DEF MergeInv, Healing, Attended
  <2> QED
    BY <2>2 DEF WillCompare
<1> QED
  BY <1>1, <1>2, <1>3, PTL DEF Spec
=============================================================================
