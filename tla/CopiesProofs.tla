---------------------------- MODULE CopiesProofs ----------------------------
(***************************************************************************)
(* Proofs about the copies that are made of rows: the read cache           *)
(* (ReadCache), the cached permissions (Account) and the schedulers that   *)
(* follow a cron job's row (CronReload).  Each is an INSTANCE of its       *)
(* module, for every value of the constants; OAuthToken and KeyAuth have   *)
(* proof modules of their own.                                             *)
(***************************************************************************)
EXTENDS Copies, Integers, SequenceTheorems, TLAPS

-----------------------------------------------------------------------------
(* The read cache *)

\* Every variable of the read cache keeps its type, and no flight sets a value
\* newer than the table.
LEMMA ReadsTypeCorrect == Reads!Spec => []Reads!TypeOK
<1>1. Reads!Init => Reads!TypeOK
  BY DEF Reads!Init, Reads!TypeOK, Reads!Idle, Reads!Absent
<1>2. Reads!TypeOK /\ [Reads!Next]_Reads!vars => Reads!TypeOK'
  <2> SUFFICES ASSUME Reads!TypeOK, [Reads!Next]_Reads!vars PROVE Reads!TypeOK'
    OBVIOUS
  <2> USE DEF Reads!TypeOK, Reads!At, Reads!Idle, Reads!Absent
  <2>1. ASSUME NEW r \in Flights, NEW k \in CacheKeys, Reads!Miss(r, k) PROVE Reads!TypeOK'
    BY <2>1 DEF Reads!Miss
  <2>2. ASSUME NEW r \in Flights, Reads!Load(r) PROVE Reads!TypeOK'
    BY <2>2 DEF Reads!Load
  <2>3. ASSUME NEW r \in Flights, Reads!SetEntry(r) PROVE Reads!TypeOK'
    BY <2>3 DEF Reads!SetEntry
  <2>4. ASSUME NEW w \in RowWriters, Reads!Write(w) PROVE Reads!TypeOK'
    BY <2>4 DEF Reads!Write
  <2>5. ASSUME NEW w \in RowWriters, NEW b \in SUBSET CacheKeys, Reads!Sweep(w, b)
        PROVE  Reads!TypeOK'
    BY <2>5 DEF Reads!Sweep
  <2>6. ASSUME NEW w \in RowWriters, Reads!SweepFails(w) PROVE Reads!TypeOK'
    BY <2>6 DEF Reads!SweepFails
  <2>7. ASSUME NEW k \in CacheKeys, Reads!Expires(k) PROVE Reads!TypeOK'
    BY <2>7 DEF Reads!Expires
  <2>8. CASE UNCHANGED Reads!vars
    BY <2>8 DEF Reads!vars
  <2>9. QED
    BY <2>1, <2>2, <2>3, <2>4, <2>5, <2>6, <2>7, <2>8 DEF Reads!Next
<1>3. QED
  BY <1>1, <1>2, PTL DEF Reads!Spec

\* An entry that is behind the table is on an invalidation's way, or an
\* invalidation failed on it, or a write overlapped the load it comes from: for
\* any keys, flights and writers.
THEOREM CacheCurrent == Reads!Spec => []EntriesCurrent
<1>1. Reads!Init => Reads!EntriesCurrent
  BY DEF Reads!Init, Reads!EntriesCurrent, Reads!Stale, Reads!Absent
<1>2. Reads!TypeOK /\ Reads!EntriesCurrent /\ [Reads!Next]_Reads!vars => Reads!EntriesCurrent'
  <2> SUFFICES ASSUME Reads!TypeOK, Reads!EntriesCurrent, [Reads!Next]_Reads!vars,
                      NEW k \in CacheKeys, Reads!Stale(k)'
               PROVE  (Reads!Sweeping(k) \/ k \in late \/ k \in unswept)'
    BY DEF Reads!EntriesCurrent
  <2> USE DEF Reads!TypeOK, Reads!Stale, Reads!Sweeping, Reads!EntriesCurrent, Reads!Idle,
              Reads!Absent, Reads!At
  <2>1. ASSUME NEW r \in Flights, Reads!SetEntry(r)
        PROVE  (Reads!Sweeping(k) \/ k \in late \/ k \in unswept)'
    BY <2>1 DEF Reads!SetEntry
  <2>2. ASSUME NEW w \in RowWriters, Reads!Write(w)
        PROVE  (Reads!Sweeping(k) \/ k \in late \/ k \in unswept)'
    BY <2>2 DEF Reads!Write
  <2>3. ASSUME NEW w \in RowWriters, NEW b \in SUBSET CacheKeys, Reads!Sweep(w, b)
        PROVE  (Reads!Sweeping(k) \/ k \in late \/ k \in unswept)'
    <3>1. k \notin b /\ Reads!Stale(k)
      BY <2>3 DEF Reads!Sweep
    <3>2. CASE Reads!Sweeping(k)
      BY <2>3, <3>1, <3>2 DEF Reads!Sweep
    <3>3. QED
      BY <2>3, <3>1, <3>2 DEF Reads!Sweep
  <2>4. ASSUME NEW w \in RowWriters, Reads!SweepFails(w)
        PROVE  (Reads!Sweeping(k) \/ k \in late \/ k \in unswept)'
    BY <2>4 DEF Reads!SweepFails
  <2>5. ASSUME NEW j \in CacheKeys, Reads!Expires(j)
        PROVE  (Reads!Sweeping(k) \/ k \in late \/ k \in unswept)'
    BY <2>5 DEF Reads!Expires
  <2>6. CASE UNCHANGED <<table, cacheEntry, writer, late, unswept>>
    BY <2>6
  <2>7. QED
    BY <2>1, <2>2, <2>3, <2>4, <2>5, <2>6
       DEF Reads!Next, Reads!vars, Reads!Miss, Reads!Load
<1>3. QED
  BY <1>1, <1>2, ReadsTypeCorrect, PTL DEF Reads!Spec, EntriesCurrent

-----------------------------------------------------------------------------
(* Cached permissions *)

\* Every variable of the accounts keeps its type.
LEMMA AccountsTypeCorrect == Accounts!Spec => []Accounts!TypeOK
<1> USE DEF Accounts!TypeOK, Accounts!Roles, Accounts!Idle, Accounts!At, Accounts!Become,
            Accounts!rows, Accounts!Operations
<1>1. Accounts!Init => Accounts!TypeOK
  BY DEF Accounts!Init
<1>2. Accounts!TypeOK /\ [Accounts!Next]_Accounts!vars => Accounts!TypeOK'
  <2> SUFFICES ASSUME Accounts!TypeOK, [Accounts!Next]_Accounts!vars PROVE Accounts!TypeOK'
    OBVIOUS
  <2>1. ASSUME NEW a \in Handlers, Accounts!Change(a) PROVE Accounts!TypeOK'
    <3>1. ASSUME NEW u \in People, NEW op \in Accounts!Operations, Accounts!ReadForChange(a, op, u)
          PROVE  Accounts!TypeOK'
      BY <3>1 DEF Accounts!ReadForChange
    <3>2. ASSUME NEW u \in People, Accounts!SetDemo(a, u) PROVE Accounts!TypeOK'
      BY <3>2 DEF Accounts!SetDemo
    <3>3. ASSUME NEW u \in People, Accounts!Evict(a, u) PROVE Accounts!TypeOK'
      BY <3>3 DEF Accounts!Evict, Accounts!Cached
    <3>4. ASSUME NEW u \in People, Accounts!ReadProfile(a, u) PROVE Accounts!TypeOK'
      BY <3>4 DEF Accounts!ReadProfile, Accounts!Live
    <3>5. CASE Accounts!SaveChange(a)
      BY <3>5 DEF Accounts!SaveChange, Accounts!To
    <3>6. CASE Accounts!DeleteUser(a)
      BY <3>6 DEF Accounts!DeleteUser
    <3>7. CASE Accounts!SaveProfile(a)
      BY <3>7 DEF Accounts!SaveProfile, Accounts!Cached
    <3>8. QED
      BY <2>1, <3>1, <3>2, <3>3, <3>4, <3>5, <3>6, <3>7 DEF Accounts!Change
  <2>2. ASSUME NEW a \in Handlers, Accounts!Admit(a) PROVE Accounts!TypeOK'
    <3>1. ASSUME NEW u \in People, Accounts!Token(a, u) PROVE Accounts!TypeOK'
      BY <3>1 DEF Accounts!Token
    <3>2. CASE Accounts!UserHit(a)
      BY <3>2 DEF Accounts!UserHit
    <3>3. CASE Accounts!LoadUser(a)
      BY <3>3 DEF Accounts!LoadUser, Accounts!Live
    <3>4. CASE Accounts!SaveUser(a)
      BY <3>4 DEF Accounts!SaveUser
    <3>5. CASE Accounts!Leave(a)
      BY <3>5 DEF Accounts!Leave
    <3>6. QED
      BY <2>2, <3>1, <3>2, <3>3, <3>4, <3>5 DEF Accounts!Admit
  <2>3. ASSUME NEW u \in People, Accounts!Register(u) PROVE Accounts!TypeOK'
    BY <2>3 DEF Accounts!Register
  <2>4. ASSUME NEW u \in People, Accounts!UserExpires(u) PROVE Accounts!TypeOK'
    BY <2>4 DEF Accounts!UserExpires
  <2>5. CASE UNCHANGED Accounts!vars
    BY <2>5 DEF Accounts!vars
  <2>6. QED
    BY <2>1, <2>2, <2>3, <2>4, <2>5 DEF Accounts!Next
<1>3. QED
  BY <1>1, <1>2, PTL DEF Accounts!Spec

\* A cached permission differs from the row's only while the change is being
\* evicted, or for a user the history excuses: for any users, requests and
\* administrators.
THEOREM PermissionCacheFollows == Accounts!Spec => []CacheFollowsRow
<1> DEFINE Evicting(u) == \E a \in Handlers : handler[a].at = "evict" /\ u \in handler[a].users
           Follows(u) == \/ userCache[u] = Nobody
                         \/ Accounts!Live(u) /\ userCache[u] = role[u]
                         \/ u \in excused
                         \/ Evicting(u)
<1>1. Accounts!Init => Accounts!CacheFollowsRow
  BY DEF Accounts!Init, Accounts!CacheFollowsRow
<1>2. Accounts!TypeOK /\ Accounts!CacheFollowsRow /\ [Accounts!Next]_Accounts!vars
         => Accounts!CacheFollowsRow'
  <2> SUFFICES ASSUME Accounts!TypeOK, Accounts!CacheFollowsRow, [Accounts!Next]_Accounts!vars,
                      NEW v \in People
               PROVE  Follows(v)'
    BY DEF Accounts!CacheFollowsRow, Accounts!At
  <2>0. Follows(v)
    BY DEF Accounts!CacheFollowsRow, Accounts!At
  <2> USE DEF Accounts!TypeOK, Accounts!Idle, Accounts!At, Accounts!Become, Accounts!rows,
              Accounts!Live
  \* Who was evicting still is, when the request that moves was not.
  <2>1. ASSUME NEW a \in Handlers, handler[a].at # "evict",
               \A c \in Handlers \ {a} : handler'[c] = handler[c]
        PROVE  Evicting(v) => Evicting(v)'
    BY <2>1
  <2>2. ASSUME NEW a \in Handlers, Accounts!Change(a) PROVE Follows(v)'
    <3>1. ASSUME NEW u \in People, NEW op \in Accounts!Operations, Accounts!ReadForChange(a, op, u)
          PROVE  Follows(v)'
      BY <2>0, <2>1, <3>1 DEF Accounts!ReadForChange
    <3>2. ASSUME NEW u \in People, Accounts!SetDemo(a, u) PROVE Follows(v)'
      <4>1. CASE role'[v] = role[v]
        BY <2>0, <2>1, <3>2, <4>1 DEF Accounts!SetDemo
      <4>2. CASE role'[v] # role[v]
        BY <3>2, <4>2 DEF Accounts!SetDemo
      <4>3. QED
        BY <4>1, <4>2
    <3>3. ASSUME NEW u \in People, Accounts!Evict(a, u) PROVE Follows(v)'
      <4>1. CASE u = v
        BY <2>0, <3>3, <4>1 DEF Accounts!Evict, Accounts!Cached
      <4>2. CASE u # v
        <5>1. Evicting(v) => Evicting(v)'
          BY <3>3, <4>2 DEF Accounts!Evict
        <5>2. QED
          BY <2>0, <3>3, <4>2, <5>1 DEF Accounts!Evict, Accounts!Cached
      <4>3. QED
        BY <4>1, <4>2
    <3>4. ASSUME NEW u \in People, Accounts!ReadProfile(a, u) PROVE Follows(v)'
      BY <2>0, <2>1, <3>4 DEF Accounts!ReadProfile
    <3>5. CASE Accounts!SaveChange(a)
      BY <2>0, <2>1, <3>5 DEF Accounts!SaveChange
    <3>6. CASE Accounts!DeleteUser(a)
      BY <2>0, <2>1, <3>6 DEF Accounts!DeleteUser
    <3>7. CASE Accounts!SaveProfile(a)
      BY <2>0, <2>1, <3>7 DEF Accounts!SaveProfile, Accounts!Cached
    <3>8. QED
      BY <2>2, <3>1, <3>2, <3>3, <3>4, <3>5, <3>6, <3>7 DEF Accounts!Change, Accounts!Operations
  <2>3. ASSUME NEW a \in Handlers, Accounts!Admit(a) PROVE Follows(v)'
    <3>1. ASSUME NEW u \in People, Accounts!Token(a, u) PROVE Follows(v)'
      BY <2>0, <2>1, <3>1 DEF Accounts!Token
    <3>2. CASE Accounts!UserHit(a) \/ Accounts!LoadUser(a) \/ Accounts!Leave(a)
      BY <2>0, <2>1, <3>2 DEF Accounts!UserHit, Accounts!LoadUser, Accounts!Leave
    <3>3. CASE Accounts!SaveUser(a)
      BY <2>0, <2>1, <3>3 DEF Accounts!SaveUser
    <3>4. QED
      BY <2>3, <3>1, <3>2, <3>3 DEF Accounts!Admit
  <2>4. ASSUME NEW u \in People, Accounts!Register(u) PROVE Follows(v)'
    BY <2>0, <2>4 DEF Accounts!Register
  <2>5. ASSUME NEW u \in People, Accounts!UserExpires(u) PROVE Follows(v)'
    BY <2>0, <2>5 DEF Accounts!UserExpires
  <2>6. CASE UNCHANGED Accounts!vars
    BY <2>0, <2>6 DEF Accounts!vars
  <2>7. QED
    BY <2>2, <2>3, <2>4, <2>5, <2>6 DEF Accounts!Next
<1>3. QED
  BY <1>1, <1>2, AccountsTypeCorrect, PTL DEF Accounts!Spec, CacheFollowsRow

-----------------------------------------------------------------------------
(* The schedulers that follow a cron job's row *)

\* What a handler and a listener have in hand at each step.
LEMMA InHand ==
    ASSUME Reloads!TypeOK, NEW p \in Pods
    PROVE  /\ update[p].step = "reload" =>
                update[p].action \in Reloads!Actions /\ update[p].spec \in Specs
           /\ update[p].step = "publish" => update[p].action \in Reloads!Notices
           /\ heard[p] # Reloads!Idle => heard[p].action \in Reloads!Actions /\ heard[p].spec \in Specs
           /\ heard[p].step = "apply" => heard[p] # Reloads!Idle
<1>1. update[p] \in {Reloads!Idle}
          \cup [step : {"read"}, enabled : {"on", "off", Reloads!Keep}, spec : Specs \cup {Reloads!Keep}]
          \cup [step : {"reload"}, action : Reloads!Actions, spec : Specs]
          \cup [step : {"publish"}, action : Reloads!Notices]
  BY DEF Reloads!TypeOK
<1>2. heard[p] \in {Reloads!Idle} \cup [step : {"apply"}, action : Reloads!Actions, spec : Specs]
  BY DEF Reloads!TypeOK
<1>3. QED
  BY <1>1, <1>2 DEF Reloads!Idle

\* What enableLocked, restart and disable leave in the manager has its type.
LEMMA ApplyTyped ==
    ASSUME Reloads!TypeOK, NEW p \in Pods, NEW action \in Reloads!Actions, NEW s \in Specs,
           Reloads!Apply(p, action, s)
    PROVE  /\ scheduled' \in [Pods -> [spec : Specs, on : BOOLEAN]]
           /\ orphans' \in [Pods -> SUBSET Specs]
<1> USE DEF Reloads!TypeOK, Reloads!Started
<1>1. CASE Reloads!Restart(p, s)
  BY <1>1 DEF Reloads!Restart
<1>2. CASE Reloads!Disable(p)
  BY <1>2 DEF Reloads!Disable
<1>3. CASE Reloads!Enable(p, s)
  BY <1>3 DEF Reloads!Enable
<1>4. CASE UNCHANGED <<scheduled, orphans>>
  BY <1>4
<1>5. QED
  BY <1>1, <1>2, <1>3, <1>4 DEF Reloads!Apply

\* Every variable of the reload keeps its type.
LEMMA ReloadsTypeCorrect == Reloads!Spec => []Reloads!TypeOK
<1> USE DEF Reloads!TypeOK, Reloads!Idle
<1>1. Reloads!Init => Reloads!TypeOK
  <2> SUFFICES ASSUME Reloads!Init PROVE Reloads!TypeOK
    OBVIOUS
  <2>1. row \in Reloads!Rows /\ scheduled \in [Pods -> [spec : Specs, on : BOOLEAN]]
    BY DEF Reloads!Init, Reloads!Rows, Reloads!Started
  <2>2. inbox \in [Pods -> Seq(Reloads!Notices)] /\ orphans \in [Pods -> SUBSET Specs]
    BY DEF Reloads!Init
  <2>3. QED
    BY <2>1, <2>2 DEF Reloads!Init
<1>2. Reloads!TypeOK /\ [Reloads!Next]_Reloads!vars => Reloads!TypeOK'
  <2> SUFFICES ASSUME Reloads!TypeOK, [Reloads!Next]_Reloads!vars PROVE Reloads!TypeOK'
    OBVIOUS
  <2>1. ASSUME NEW p \in Pods, NEW e \in {"on", "off", Reloads!Keep},
               NEW s \in Specs \cup {Reloads!Keep}, Reloads!WriteRow(p, e, s)
        PROVE  Reloads!TypeOK'
    <3>1. row' \in Reloads!Rows
      BY <2>1 DEF Reloads!WriteRow, Reloads!Rows, Reloads!Keep
    <3>2. astray' \subseteq Pods
      BY <2>1 DEF Reloads!WriteRow
    <3>3. QED
      BY <2>1, <3>1, <3>2 DEF Reloads!WriteRow
  <2>2. ASSUME NEW p \in Pods, Reloads!ReadBack(p) PROVE Reloads!TypeOK'
    <3>1. Reloads!Decide(row, update[p]) \in Reloads!Actions
      BY DEF Reloads!Decide, Reloads!Actions, Reloads!Notices
    <3>2. row.spec \in Specs
      BY DEF Reloads!Rows
    <3>3. QED
      BY <2>2, <3>1, <3>2 DEF Reloads!ReadBack
  <2>2a. ASSUME NEW p \in Pods, Reloads!ReadBackFails(p) PROVE Reloads!TypeOK'
    BY <2>2a DEF Reloads!ReadBackFails
  <2>3. ASSUME NEW p \in Pods, Reloads!Reload(p) PROVE Reloads!TypeOK'
    <3>1. update[p].action \in Reloads!Actions /\ update[p].spec \in Specs
      BY <2>3, InHand DEF Reloads!Reload
    <3>2. /\ scheduled' \in [Pods -> [spec : Specs, on : BOOLEAN]]
          /\ orphans' \in [Pods -> SUBSET Specs]
      BY <2>3, <3>1, ApplyTyped DEF Reloads!Reload
    <3>3. astray' \subseteq Pods
      BY <2>3 DEF Reloads!Reload, Reloads!Reenabled
    <3>4. update[p].action # "nothing" => update[p].action \in Reloads!Notices
      BY <3>1 DEF Reloads!Actions
    <3>5. QED
      BY <2>3, <3>2, <3>3, <3>4 DEF Reloads!Reload
  <2>4. ASSUME NEW p \in Pods, Reloads!Publish(p) PROVE Reloads!TypeOK'
    <3>1. update[p].action \in Reloads!Notices
      BY <2>4, InHand DEF Reloads!Publish
    <3>2. ASSUME NEW q \in Pods
          PROVE  Append(inbox[q], update[p].action) \in Seq(Reloads!Notices)
      <4>1. inbox[q] \in Seq(Reloads!Notices)
        OBVIOUS
      <4>2. QED
        BY <3>1, <4>1, AppendProperties
    <3>3. inbox' \in [Pods -> Seq(Reloads!Notices)]
      BY <2>4, <3>2 DEF Reloads!Publish
    <3>4. astray' \subseteq Pods
      BY <2>4 DEF Reloads!Publish
    <3>5. lostNotices' \in Nat /\ update' = [update EXCEPT ![p] = Reloads!Idle]
      BY <2>4 DEF Reloads!Publish
    <3>6. QED
      BY <2>4, <3>3, <3>4, <3>5 DEF Reloads!Publish
  <2>5. ASSUME NEW p \in Pods, Reloads!HearNotice(p) PROVE Reloads!TypeOK'
    <3>1. Head(inbox[p]) \in Reloads!Notices /\ Tail(inbox[p]) \in Seq(Reloads!Notices)
      BY <2>5, HeadTailProperties DEF Reloads!HearNotice
    <3>2. row.spec \in Specs
      BY DEF Reloads!Rows
    <3>3. inbox' \in [Pods -> Seq(Reloads!Notices)]
      BY <2>5, <3>1 DEF Reloads!HearNotice
    <3>4. heard' = [heard EXCEPT ![p] = heard'[p]]
      BY <2>5 DEF Reloads!HearNotice
    <3>5. heard'[p] \in [step : {"apply"}, action : Reloads!Actions, spec : Specs]
      BY <2>5, <3>1, <3>2 DEF Reloads!HearNotice, Reloads!Actions
    <3>6. QED
      BY <2>5, <3>3, <3>4, <3>5 DEF Reloads!HearNotice
  <2>5a. ASSUME NEW p \in Pods, Reloads!HearFails(p) PROVE Reloads!TypeOK'
    <3>1. Tail(inbox[p]) \in Seq(Reloads!Notices)
      BY <2>5a, HeadTailProperties DEF Reloads!HearFails
    <3>2. inbox' \in [Pods -> Seq(Reloads!Notices)]
      BY <2>5a, <3>1 DEF Reloads!HearFails
    <3>3. QED
      BY <2>5a, <3>2 DEF Reloads!HearFails
  <2>6. ASSUME NEW p \in Pods, Reloads!ApplyNotice(p) PROVE Reloads!TypeOK'
    <3>1. heard[p].action \in Reloads!Actions /\ heard[p].spec \in Specs
      BY <2>6, InHand DEF Reloads!ApplyNotice
    <3>2. /\ scheduled' \in [Pods -> [spec : Specs, on : BOOLEAN]]
          /\ orphans' \in [Pods -> SUBSET Specs]
      BY <2>6, <3>1, ApplyTyped DEF Reloads!ApplyNotice
    <3>3. astray' \subseteq Pods
      BY <2>6 DEF Reloads!ApplyNotice, Reloads!Reenabled
    <3>4. QED
      BY <2>6, <3>2, <3>3 DEF Reloads!ApplyNotice
  <2>7a. ASSUME NEW p \in Pods, NEW sp \in Specs, Reloads!Reborn(p, sp),
                lostNotices' \in Nat, astray' \subseteq Pods
         PROVE  Reloads!TypeOK'
    <3>1. [scheduled[p] EXCEPT !.on = FALSE] \in [spec : Specs, on : BOOLEAN]
      <4>1. scheduled[p] \in [spec : Specs, on : BOOLEAN]
        OBVIOUS
      <4>2. QED
        BY <4>1
    <3>2. scheduled' \in [Pods -> [spec : Specs, on : BOOLEAN]]
      BY <2>7a, <3>1 DEF Reloads!Reborn
    <3>3. inbox' \in [Pods -> Seq(Reloads!Notices)]
      BY <2>7a DEF Reloads!Reborn
    <3>4. QED
      BY <2>7a, <3>2, <3>3 DEF Reloads!Reborn
  <2>7. ASSUME NEW p \in Pods, Reloads!BootRead(p) PROVE Reloads!TypeOK'
    <3>1. row.spec \in Specs
      BY DEF Reloads!Rows
    <3>2. astray' \subseteq Pods /\ lostNotices' \in Nat /\ Reloads!Reborn(p, row.spec)
      BY <2>7 DEF Reloads!BootRead, Reloads!Forgone
    <3>3. QED
      BY <2>7a, <3>1, <3>2
  <2>7b. ASSUME NEW p \in Pods, Reloads!BootBlind(p) PROVE Reloads!TypeOK'
    <3>1. PICK sp \in Specs : Reloads!Reborn(p, sp)
      BY <2>7b DEF Reloads!BootBlind
    <3>2. astray' \subseteq Pods /\ lostNotices' \in Nat
      BY <2>7b DEF Reloads!BootBlind, Reloads!Forgone
    <3>3. QED
      BY <2>7a, <3>1, <3>2
  <2>8. ASSUME NEW p \in Pods, Reloads!BootRegister(p) PROVE Reloads!TypeOK'
    <3>1. astray' \subseteq Pods
      BY <2>8 DEF Reloads!BootRegister
    <3>2. QED
      BY <2>8, <3>1 DEF Reloads!BootRegister, Reloads!Started
  <2>9. CASE UNCHANGED Reloads!vars
    BY <2>9 DEF Reloads!vars
  <2>10. QED
    BY <2>1, <2>2, <2>2a, <2>3, <2>4, <2>5, <2>5a, <2>6, <2>7, <2>7b, <2>8, <2>9 DEF Reloads!Next
<1>3. QED
  BY <1>1, <1>2, PTL DEF Reloads!Spec

\* What the handler decides on is what the row asks for, or nothing to do.
LEMMA DecideFits ==
    ASSUME NEW params
    PROVE  Reloads!Decide(row, params) = "nothing" \/ Reloads!Fits(Reloads!Decide(row, params))
BY DEF Reloads!Decide, Reloads!Fits, Reloads!Notices

\* A manager touches no other instance, and gives up no scheduler unless it
\* enables a job that runs.
LEMMA ApplyLocal ==
    ASSUME Reloads!TypeOK, NEW p \in Pods, NEW action, NEW s, Reloads!Apply(p, action, s)
    PROVE  /\ \A q \in Pods \ {p} : orphans'[q] = orphans[q] /\ scheduled'[q] = scheduled[q]
           /\ p \notin Reloads!Reenabled(p, action) => orphans' = orphans
BY DEF Reloads!TypeOK, Reloads!Apply, Reloads!Restart, Reloads!Disable, Reloads!Enable,
       Reloads!Reenabled

\* Applying what the row asks for makes the entry follow the row.
LEMMA ApplyFollows ==
    ASSUME Reloads!TypeOK, NEW p \in Pods, NEW action, Reloads!Fits(action),
           Reloads!Apply(p, action, row.spec), row' = row
    PROVE  Reloads!Follows(p)'
<1> USE DEF Reloads!TypeOK, Reloads!Rows, Reloads!Follows, Reloads!Fits, Reloads!Started
<1>1. CASE action = "disable"
  <2>1. scheduled' = [scheduled EXCEPT ![p].on = FALSE]
    BY <1>1 DEF Reloads!Apply, Reloads!Disable
  <2>2. scheduled'[p].on = FALSE
    BY <2>1
  <2>3. ~row.enabled
    BY <1>1
  <2>4. QED
    BY <2>2, <2>3
<1>2. CASE action # "disable"
  <2>1. scheduled'[p] = [spec |-> row.spec, on |-> TRUE]
    BY <1>2 DEF Reloads!Apply, Reloads!Restart, Reloads!Enable, Reloads!Notices
  <2>2. row.enabled
    BY <1>2
  <2>3. scheduled'[p].on = TRUE /\ scheduled'[p].spec = row.spec
    BY <2>1
  <2>4. QED
    BY <2>2, <2>3
<1>3. QED
  BY <1>1, <1>2

\* InStep is inductive: what an instance that is not led astray has not applied
\* yet is on its way.
LEMMA InStepKept ==
    ASSUME Reloads!Up \notin Specs, Reloads!TypeOK, Reloads!InStep, [Reloads!Next]_Reloads!vars
    PROVE  Reloads!InStep'
<1> SUFFICES ASSUME NEW w \in Pods, w \notin astray'
             PROVE  /\ Reloads!OneUpdate' /\ Reloads!UpdaterHearsNothing' /\ Reloads!NoOrphans'
                    /\ Reloads!ReloadFits' /\ Reloads!PublishFits' /\ Reloads!AllCaught'
  BY DEF Reloads!InStep
<1> DEFINE Goal == /\ Reloads!OneUpdate /\ Reloads!UpdaterHearsNothing /\ Reloads!NoOrphans
                   /\ Reloads!ReloadFits /\ Reloads!PublishFits /\ Reloads!AllCaught
<1> USE DEF Reloads!OneUpdate, Reloads!UpdaterHearsNothing, Reloads!NoOrphans, Reloads!Idle,
    Reloads!Registered
<1>0. ASSUME NEW q \in Pods, q \notin astray PROVE Goal
  BY <1>0 DEF Reloads!InStep
<1>1. ASSUME NEW p \in Pods, NEW e \in {"on", "off", Reloads!Keep},
             NEW s \in Specs \cup {Reloads!Keep}, Reloads!WriteRow(p, e, s)
      PROVE  Goal'
  <2>1. /\ astray \subseteq astray' /\ \A q \in Pods : update[q] = Reloads!Idle
        /\ p \notin astray' => heard[p] = Reloads!Idle /\ inbox[p] = <<>>
        /\ boot[p] = Reloads!Up
    BY <1>1 DEF Reloads!WriteRow
  <2>2. update' = [update EXCEPT ![p] = [step |-> "read", enabled |-> e, spec |-> s]]
    BY <1>1 DEF Reloads!WriteRow
  <2>3. /\ update'[p] = [step |-> "read", enabled |-> e, spec |-> s]
        /\ \A q \in Pods \ {p} : update'[q] = Reloads!Idle
    BY <2>1, <2>2 DEF Reloads!TypeOK
  <2>4. Reloads!OneUpdate' /\ Reloads!UpdaterHearsNothing' /\ Reloads!NoOrphans'
    BY <1>0, <1>1, <2>1, <2>3 DEF Reloads!WriteRow
  <2>5. Reloads!ReloadFits' /\ Reloads!PublishFits'
    BY <2>3 DEF Reloads!ReloadFits, Reloads!PublishFits
  <2>6. CASE Reloads!Void(p)'
    <3>1. row'.enabled /\ s = Reloads!Keep /\ e # "on"
      BY <2>3, <2>6 DEF Reloads!Void, Reloads!Decide
    <3>2. row' = [enabled |-> IF e = Reloads!Keep THEN row.enabled ELSE e = "on", spec |-> row.spec]
      BY <1>1, <3>1 DEF Reloads!WriteRow
    <3>3. e = Reloads!Keep
      BY <3>1, <3>2
    <3>4. row' = row
      BY <3>2, <3>3 DEF Reloads!TypeOK, Reloads!Rows
    <3>5. \A q \in Pods \ astray' : Reloads!Caught(q)
      BY <1>0, <2>1 DEF Reloads!AllCaught, Reloads!Awaited
    <3>6. UNCHANGED <<inbox, heard, boot, scheduled>>
      BY <1>1 DEF Reloads!WriteRow
    <3>7. \A q \in Pods \ astray' : Reloads!Caught(q)'
      BY <3>4, <3>5, <3>6 DEF Reloads!Caught, Reloads!Fits, Reloads!Follows
    <3>8. QED
      BY <2>4, <2>5, <3>7 DEF Reloads!AllCaught
  <2>7. CASE ~Reloads!Void(p)'
    BY <2>3, <2>4, <2>5, <2>7 DEF Reloads!AllCaught, Reloads!Awaited
  <2>8. QED
    BY <2>6, <2>7
<1>2. ASSUME NEW p \in Pods, Reloads!ReadBack(p) PROVE Goal'
  <2>1. astray' = astray /\ update[p] # Reloads!Idle /\ update[p].step = "read" /\ Goal
    BY <1>0, <1>2 DEF Reloads!ReadBack
  <2>2. UNCHANGED <<row, scheduled, orphans, inbox, heard, boot>>
    BY <1>2 DEF Reloads!ReadBack
  <2>3. /\ update'[p] = [step |-> "reload", action |-> Reloads!Decide(row, update[p]), spec |-> row.spec]
        /\ \A q \in Pods \ {p} : update'[q] = update[q]
    BY <1>2 DEF Reloads!ReadBack, Reloads!TypeOK
  <2>4. Reloads!OneUpdate' /\ Reloads!UpdaterHearsNothing' /\ Reloads!NoOrphans'
    BY <2>1, <2>2, <2>3
  <2>5. Reloads!ReloadFits' /\ Reloads!PublishFits'
    <3>1. Reloads!Decide(row, update[p]) = "nothing" \/ Reloads!Fits(Reloads!Decide(row, update[p]))
      BY DecideFits
    <3>2. QED
      BY <2>1, <2>2, <2>3, <3>1 DEF Reloads!ReloadFits, Reloads!PublishFits, Reloads!Fits,
          Reloads!Follows
  <2>6. CASE Reloads!Void(p)
    <3>1. ~Reloads!Awaited
      BY <2>1, <2>6 DEF Reloads!Awaited
    <3>2. \A q \in Pods \ astray' : Reloads!Caught(q)'
      BY <2>1, <2>2, <3>1 DEF Reloads!AllCaught, Reloads!Caught, Reloads!Fits, Reloads!Follows
    <3>3. QED
      BY <2>4, <2>5, <3>2 DEF Reloads!AllCaught
  <2>7. CASE ~Reloads!Void(p)
    <3>1. ~Reloads!Void(p)'
      BY <2>1, <2>3, <2>7 DEF Reloads!Void
    <3>2. QED
      BY <2>3, <2>4, <2>5, <3>1 DEF Reloads!AllCaught, Reloads!Awaited
  <2>8. QED
    BY <2>6, <2>7
<1>3. ASSUME NEW p \in Pods, Reloads!ReadBackFails(p) PROVE Goal'
  BY <1>3 DEF Reloads!ReadBackFails
<1>4. ASSUME NEW p \in Pods, Reloads!Reload(p) PROVE Goal'
  <2> DEFINE action == update[p].action
  <2>1. astray' = astray \cup Reloads!Reenabled(p, action) /\ UNCHANGED <<row, inbox, heard, boot>>
    BY <1>4 DEF Reloads!Reload
  <2>2. update[p] # Reloads!Idle /\ update[p].step = "reload" /\ Goal
    BY <1>0, <1>4, <2>1 DEF Reloads!Reload
  <2>3. update[p].spec = row.spec /\ Reloads!Apply(p, action, row.spec)
    BY <1>4, <2>2 DEF Reloads!Reload, Reloads!ReloadFits
  <2>4. \A q \in Pods \ {p} : update'[q] = Reloads!Idle /\ update[q] = Reloads!Idle
    BY <1>4, <2>2 DEF Reloads!Reload, Reloads!TypeOK
  <2>5. Reloads!NoOrphans'
    BY <2>1, <2>2, <2>3, ApplyLocal
  <2>6. CASE action = "nothing"
    <3>1. update'[p] = Reloads!Idle
      BY <1>4, <2>6 DEF Reloads!Reload, Reloads!TypeOK
    <3>2. ~Reloads!Awaited
      BY <2>2, <2>4, <2>6 DEF Reloads!Awaited, Reloads!Void
    <3>3. scheduled' = scheduled
      BY <2>3, <2>6 DEF Reloads!Apply
    <3>4. \A q \in Pods \ astray' : Reloads!Caught(q)'
      BY <2>1, <2>2, <3>2, <3>3 DEF Reloads!AllCaught, Reloads!Caught, Reloads!Fits,
          Reloads!Follows
    <3>5. QED
      BY <2>2, <2>4, <2>5, <3>1, <3>4 DEF Reloads!ReloadFits, Reloads!PublishFits,
          Reloads!AllCaught
  <2>7. CASE action # "nothing"
    <3>1. update'[p] = [step |-> "publish", action |-> action]
      BY <1>4, <2>7 DEF Reloads!Reload, Reloads!TypeOK
    <3>2. Reloads!Fits(action)
      BY <2>2, <2>7 DEF Reloads!ReloadFits
    <3>3. Reloads!Follows(p)'
      BY <2>1, <2>3, <3>2, ApplyFollows
    <3>4. Reloads!ReloadFits' /\ Reloads!PublishFits'
      BY <2>1, <2>4, <3>1, <3>2, <3>3 DEF Reloads!ReloadFits, Reloads!PublishFits, Reloads!Fits
    <3>5. Reloads!Awaited'
      BY <3>1 DEF Reloads!Awaited, Reloads!Void
    <3>6. QED
      BY <2>1, <2>2, <2>4, <2>5, <3>1, <3>4, <3>5 DEF Reloads!AllCaught
  <2>8. QED
    BY <2>6, <2>7
<1>5. ASSUME NEW p \in Pods, Reloads!Publish(p) PROVE Goal'
  <2>1. astray \subseteq astray' /\ update[p] # Reloads!Idle /\ update[p].step = "publish" /\ Goal
    BY <1>0, <1>5 DEF Reloads!Publish
  <2>2. UNCHANGED <<row, scheduled, orphans, heard, boot>>
    BY <1>5 DEF Reloads!Publish
  <2>3. \A q \in Pods : update'[q] = Reloads!Idle
    BY <1>5, <2>1 DEF Reloads!Publish, Reloads!TypeOK
  <2>4. inbox'[p] = inbox[p]
    BY <1>5 DEF Reloads!Publish
  <2>5. ASSUME NEW q \in Pods, q # p, q \notin astray'
        PROVE  inbox'[q] = Append(inbox[q], update[p].action)
    BY <1>5, <2>5 DEF Reloads!Publish
  <2>6. Reloads!Fits(update[p].action) /\ (p \notin astray => Reloads!Follows(p))
    BY <2>1 DEF Reloads!PublishFits
  <2>7. ASSUME NEW q \in Pods \ astray' PROVE Reloads!Caught(q)'
    <3>1. CASE q = p
      BY <2>1, <2>2, <2>4, <2>6, <3>1 DEF Reloads!Caught, Reloads!Follows
    <3>2. CASE q # p
      <4>1. inbox[q] \in Seq(Reloads!Notices) /\ update[p].action \in Reloads!Notices
        BY <2>6 DEF Reloads!TypeOK, Reloads!Fits
      <4>2. inbox'[q] # <<>> /\ inbox'[q][Len(inbox'[q])] = update[p].action
        BY <2>5, <3>2, <4>1, AppendProperties
      <4>3. QED
        BY <2>2, <2>6, <4>2 DEF Reloads!Caught, Reloads!Fits
    <3>3. QED
      BY <3>1, <3>2
  <2>8. QED
    BY <2>1, <2>2, <2>3, <2>7 DEF Reloads!ReloadFits, Reloads!PublishFits, Reloads!AllCaught
<1>6. ASSUME NEW p \in Pods, Reloads!HearNotice(p) PROVE Goal'
  <2>1. astray' = astray /\ Goal /\ inbox[p] # <<>> /\ heard[p] = Reloads!Idle
    BY <1>0, <1>6 DEF Reloads!HearNotice
  <2>2. UNCHANGED <<row, scheduled, orphans, update, boot>>
    BY <1>6 DEF Reloads!HearNotice
  <2>3. \A q \in Pods \ {p} : inbox'[q] = inbox[q] /\ heard'[q] = heard[q]
    BY <1>6 DEF Reloads!HearNotice, Reloads!TypeOK
  <2>4. p \notin astray => update[p] = Reloads!Idle
    BY <2>1
  <2>5. Reloads!ReloadFits' /\ Reloads!PublishFits'
    BY <2>1, <2>2 DEF Reloads!ReloadFits, Reloads!PublishFits, Reloads!Fits, Reloads!Follows
  <2>6. Reloads!Awaited => Reloads!Awaited'
    BY <2>2 DEF Reloads!Awaited, Reloads!Void
  <2>7. ASSUME ~Reloads!Awaited, NEW q \in Pods \ astray' PROVE Reloads!Caught(q)'
    <3>1. Reloads!Caught(q)
      BY <2>1, <2>7 DEF Reloads!AllCaught
    <3>2. CASE q # p
      BY <2>2, <2>3, <3>1, <3>2 DEF Reloads!Caught, Reloads!Fits, Reloads!Follows
    <3>3. CASE q = p
      <4>1. inbox[p] \in Seq(Reloads!Notices) /\ inbox'[p] = Tail(inbox[p])
        BY <1>6 DEF Reloads!HearNotice, Reloads!TypeOK
      <4>2. Reloads!Fits(inbox[p][Len(inbox[p])])
        BY <2>1, <3>1, <3>3 DEF Reloads!Caught
      <4>3. CASE Tail(inbox[p]) # <<>>
        <5>1. Tail(inbox[p])[Len(Tail(inbox[p]))] = inbox[p][Len(inbox[p])]
          BY <2>1, <4>1, <4>3, HeadTailProperties, EmptySeq
        <5>2. QED
          BY <2>2, <3>3, <4>1, <4>2, <4>3, <5>1 DEF Reloads!Caught, Reloads!Fits
      <4>4. CASE Tail(inbox[p]) = <<>>
        <5>1. Head(inbox[p]) = inbox[p][Len(inbox[p])]
          <6>1. Len(Tail(inbox[p])) = Len(inbox[p]) - 1 /\ Len(inbox[p]) \in Nat
            BY <2>1, <4>1, HeadTailProperties, LenProperties
          <6>2. Len(inbox[p]) = 1
            <7>1. Len(Tail(inbox[p])) = 0
              BY <4>4, EmptySeq
            <7>2. QED
              BY <6>1, <7>1
          <6>3. QED
            BY <4>1, <6>2
        <5>2. Head(inbox[p]) = "disable" \/ row.enabled
          BY <4>2, <5>1 DEF Reloads!Fits
        <5>3. heard'[p] = [step |-> "apply", spec |-> row.spec, action |-> Head(inbox[p])]
          BY <1>6, <5>2 DEF Reloads!HearNotice, Reloads!TypeOK
        <5>4. heard'[p] # Reloads!Idle /\ heard'[p].spec = row.spec /\ heard'[p].action = Head(inbox[p])
          BY <5>3
        <5>5. QED
          BY <2>2, <3>3, <4>1, <4>2, <4>4, <5>1, <5>4 DEF Reloads!Caught, Reloads!Fits
      <4>5. QED
        BY <4>3, <4>4
    <3>4. QED
      BY <3>2, <3>3
  <2>8. Reloads!OneUpdate' /\ Reloads!UpdaterHearsNothing' /\ Reloads!NoOrphans'
    BY <2>1, <2>2, <2>3, <2>4
  <2>9. QED
    BY <2>5, <2>6, <2>7, <2>8 DEF Reloads!AllCaught
<1>7. ASSUME NEW p \in Pods, Reloads!HearFails(p) PROVE Goal'
  <2>1. astray' = astray \cup {p} /\ Goal
    BY <1>0, <1>7 DEF Reloads!HearFails
  <2>2. UNCHANGED <<row, scheduled, orphans, update, heard, boot>>
    BY <1>7 DEF Reloads!HearFails
  <2>3. \A q \in Pods \ {p} : inbox'[q] = inbox[q]
    BY <1>7 DEF Reloads!HearFails, Reloads!TypeOK
  <2>4. Reloads!ReloadFits' /\ Reloads!PublishFits'
    BY <2>1, <2>2 DEF Reloads!ReloadFits, Reloads!PublishFits, Reloads!Fits, Reloads!Follows
  <2>5. Reloads!Awaited => Reloads!Awaited'
    BY <2>2 DEF Reloads!Awaited, Reloads!Void
  <2>6. ASSUME ~Reloads!Awaited, NEW q \in Pods \ astray' PROVE Reloads!Caught(q)'
    BY <2>1, <2>2, <2>3, <2>6 DEF Reloads!AllCaught, Reloads!Caught, Reloads!Fits,
        Reloads!Follows
  <2>7. Reloads!OneUpdate' /\ Reloads!UpdaterHearsNothing' /\ Reloads!NoOrphans'
    BY <2>1, <2>2, <2>3
  <2>8. QED
    BY <2>4, <2>5, <2>6, <2>7 DEF Reloads!AllCaught
<1>8. ASSUME NEW p \in Pods, Reloads!ApplyNotice(p) PROVE Goal'
  <2> DEFINE action == heard[p].action
  <2>1. astray \subseteq astray' /\ Goal /\ heard[p].step = "apply"
    BY <1>0, <1>8 DEF Reloads!ApplyNotice
  <2>2. p \notin astray' => /\ Reloads!Registered(p) /\ p \notin Reloads!Reenabled(p, action)
                            /\ Reloads!Apply(p, action, heard[p].spec)
    BY <1>8 DEF Reloads!ApplyNotice
  <2>3. UNCHANGED <<row, update, inbox, boot>>
    BY <1>8 DEF Reloads!ApplyNotice
  <2>4. heard'[p] = Reloads!Idle /\ \A q \in Pods \ {p} : heard'[q] = heard[q]
    BY <1>8 DEF Reloads!ApplyNotice, Reloads!TypeOK
  <2>5. heard[p] # Reloads!Idle /\ (p \notin astray => update[p] = Reloads!Idle)
    BY <2>1, InHand
  <2>6. \A q \in Pods \ {p} : orphans'[q] = orphans[q] /\ scheduled'[q] = scheduled[q]
    BY <1>8, ApplyLocal DEF Reloads!ApplyNotice
  <2>7. p \notin astray' => orphans' = orphans
    BY <2>2, ApplyLocal
  <2>8. Reloads!ReloadFits' /\ Reloads!PublishFits'
    BY <2>1, <2>3, <2>5, <2>6 DEF Reloads!ReloadFits, Reloads!PublishFits, Reloads!Fits,
        Reloads!Follows
  <2>9. Reloads!OneUpdate' /\ Reloads!UpdaterHearsNothing' /\ Reloads!NoOrphans'
    BY <2>1, <2>3, <2>4, <2>5, <2>6, <2>7
  <2>10. Reloads!Awaited => Reloads!Awaited'
    BY <2>3 DEF Reloads!Awaited, Reloads!Void
  <2>11. ASSUME ~Reloads!Awaited, NEW q \in Pods \ astray' PROVE Reloads!Caught(q)'
    <3>1. Reloads!Caught(q)
      BY <2>1, <2>11 DEF Reloads!AllCaught
    <3>2. CASE q # p
      BY <2>3, <2>4, <2>6, <3>1, <3>2 DEF Reloads!Caught, Reloads!Fits, Reloads!Follows
    <3>3. CASE q = p /\ inbox[p] # <<>>
      BY <2>3, <3>1, <3>3 DEF Reloads!Caught, Reloads!Fits
    <3>4. CASE q = p /\ inbox[p] = <<>>
      <4>1. Reloads!Fits(action) /\ heard[p].spec = row.spec
        BY <2>5, <3>1, <3>4 DEF Reloads!Caught
      <4>2. Reloads!Follows(p)'
        BY <2>2, <2>3, <3>4, <4>1, ApplyFollows
      <4>3. QED
        BY <2>2, <2>3, <2>4, <3>4, <4>2 DEF Reloads!Caught
    <3>5. QED
      BY <3>2, <3>3, <3>4
  <2>12. QED
    BY <2>8, <2>9, <2>10, <2>11 DEF Reloads!AllCaught
<1>9. ASSUME NEW p \in Pods, Reloads!BootRead(p) PROVE Goal'
  <2>1. row' = row /\ update' = [update EXCEPT ![p] = Reloads!Idle]
    BY <1>9 DEF Reloads!BootRead, Reloads!Reborn
  <2>2. inbox'[p] = <<>> /\ heard'[p] = Reloads!Idle /\ boot'[p] = row.spec /\ orphans'[p] = {}
    BY <1>9 DEF Reloads!BootRead, Reloads!Reborn, Reloads!TypeOK
  <2>3. \A q \in Pods \ {p} : /\ inbox'[q] = inbox[q] /\ heard'[q] = heard[q]
                              /\ boot'[q] = boot[q] /\ orphans'[q] = orphans[q]
                              /\ scheduled'[q] = scheduled[q]
    BY <1>9 DEF Reloads!BootRead, Reloads!Reborn, Reloads!TypeOK
  <2>4. Reloads!Caught(p)'
    <3>1. row.spec # Reloads!Up
      BY DEF Reloads!TypeOK, Reloads!Rows
    <3>2. QED
      BY <2>1, <2>2, <3>1 DEF Reloads!Caught
  <2>5. CASE \E q \in Pods \ {p} : update[q] # Reloads!Idle
    <3>1. astray' = astray /\ update[p] = Reloads!Idle /\ Goal
      BY <1>0, <1>9, <2>5 DEF Reloads!BootRead, Reloads!Forgone
    <3>2. update' = update
      BY <2>1, <3>1 DEF Reloads!TypeOK
    <3>3. Reloads!ReloadFits' /\ Reloads!PublishFits'
      BY <2>1, <2>3, <3>1, <3>2 DEF Reloads!ReloadFits, Reloads!PublishFits, Reloads!Fits,
          Reloads!Follows
    <3>4. Reloads!OneUpdate' /\ Reloads!UpdaterHearsNothing' /\ Reloads!NoOrphans'
      BY <2>2, <2>3, <3>1, <3>2
    <3>5. Reloads!Awaited => Reloads!Awaited'
      BY <2>1, <3>2 DEF Reloads!Awaited, Reloads!Void
    <3>6. ASSUME ~Reloads!Awaited, NEW q \in Pods \ astray', q # p PROVE Reloads!Caught(q)'
      BY <2>1, <2>3, <3>1, <3>6 DEF Reloads!AllCaught, Reloads!Caught, Reloads!Fits,
          Reloads!Follows
    <3>7. QED
      BY <2>4, <3>3, <3>4, <3>5, <3>6 DEF Reloads!AllCaught
  <2>6. CASE \A q \in Pods \ {p} : update[q] = Reloads!Idle
    <3>1. \A q \in Pods : update'[q] = Reloads!Idle
      BY <2>1, <2>6 DEF Reloads!TypeOK
    <3>2. ASSUME NEW q \in Pods \ astray', q # p
          PROVE  Reloads!Caught(q)' /\ orphans'[q] = {}
      <4>1. update[p] = Reloads!Idle /\ q \notin astray
        BY <1>9, <3>2 DEF Reloads!BootRead, Reloads!Forgone
      <4>2. Goal /\ ~Reloads!Awaited
        BY <1>0, <2>6, <4>1 DEF Reloads!Awaited
      <4>3. QED
        BY <2>1, <2>3, <3>2, <4>1, <4>2 DEF Reloads!AllCaught, Reloads!Caught, Reloads!Fits,
            Reloads!Follows
    <3>3. QED
      BY <2>2, <2>4, <3>1, <3>2 DEF Reloads!ReloadFits, Reloads!PublishFits, Reloads!AllCaught
  <2>7. QED
    BY <2>5, <2>6
<1>10. ASSUME NEW p \in Pods, Reloads!BootBlind(p) PROVE Goal'
  <2>1. astray' = astray \cup {p} /\ update[p] = Reloads!Idle /\ Goal
    BY <1>0, <1>10 DEF Reloads!BootBlind, Reloads!Forgone
  <2>2. row' = row /\ update' = update
    BY <1>10, <2>1 DEF Reloads!BootBlind, Reloads!Reborn, Reloads!TypeOK
  <2>3. \A q \in Pods \ {p} : /\ inbox'[q] = inbox[q] /\ heard'[q] = heard[q]
                              /\ boot'[q] = boot[q] /\ orphans'[q] = orphans[q]
                              /\ scheduled'[q] = scheduled[q]
    BY <1>10 DEF Reloads!BootBlind, Reloads!Reborn, Reloads!TypeOK
  <2>4. Reloads!ReloadFits' /\ Reloads!PublishFits'
    BY <2>1, <2>2, <2>3 DEF Reloads!ReloadFits, Reloads!PublishFits, Reloads!Fits, Reloads!Follows
  <2>5. Reloads!Awaited => Reloads!Awaited'
    BY <2>2 DEF Reloads!Awaited, Reloads!Void
  <2>6. ASSUME ~Reloads!Awaited, NEW q \in Pods \ astray' PROVE Reloads!Caught(q)'
    BY <2>1, <2>2, <2>3, <2>6 DEF Reloads!AllCaught, Reloads!Caught, Reloads!Fits,
        Reloads!Follows
  <2>7. Reloads!OneUpdate' /\ Reloads!UpdaterHearsNothing' /\ Reloads!NoOrphans'
    BY <2>1, <2>2, <2>3
  <2>8. QED
    BY <2>4, <2>5, <2>6, <2>7 DEF Reloads!AllCaught
<1>11. ASSUME NEW p \in Pods, Reloads!BootRegister(p) PROVE Goal'
  <2>1. astray \subseteq astray' /\ Goal /\ boot[p] # Reloads!Up /\ (p \notin astray' => row.enabled)
    BY <1>0, <1>11 DEF Reloads!BootRegister
  <2>2. UNCHANGED <<row, orphans, update, inbox, heard>>
    BY <1>11 DEF Reloads!BootRegister
  <2>3. boot'[p] = Reloads!Up /\ scheduled'[p] = [spec |-> boot[p], on |-> TRUE]
    BY <1>11 DEF Reloads!BootRegister, Reloads!TypeOK, Reloads!Started
  <2>4. \A q \in Pods \ {p} : boot'[q] = boot[q] /\ scheduled'[q] = scheduled[q]
    BY <1>11 DEF Reloads!BootRegister, Reloads!TypeOK
  <2>5. p \notin astray' => update[p] = Reloads!Idle
    BY <2>1
  <2>6. Reloads!ReloadFits' /\ Reloads!PublishFits'
    BY <2>1, <2>2, <2>4, <2>5 DEF Reloads!ReloadFits, Reloads!PublishFits, Reloads!Fits,
        Reloads!Follows
  <2>7. Reloads!OneUpdate' /\ Reloads!UpdaterHearsNothing' /\ Reloads!NoOrphans'
    BY <2>1, <2>2, <2>3, <2>4
  <2>8. Reloads!Awaited => Reloads!Awaited'
    BY <2>2 DEF Reloads!Awaited, Reloads!Void
  <2>9. ASSUME ~Reloads!Awaited, NEW q \in Pods \ astray' PROVE Reloads!Caught(q)'
    <3>1. Reloads!Caught(q)
      BY <2>1, <2>9 DEF Reloads!AllCaught
    <3>2. CASE q = p
      <4>1. scheduled'[p].on = TRUE /\ scheduled'[p].spec = boot[p]
        BY <2>3
      <4>2. QED
        BY <2>1, <2>2, <2>3, <3>1, <3>2, <4>1 DEF Reloads!Caught, Reloads!Fits, Reloads!Follows
    <3>3. CASE q # p
      BY <2>2, <2>4, <3>1, <3>3 DEF Reloads!Caught, Reloads!Fits, Reloads!Follows
    <3>4. QED
      BY <3>2, <3>3
  <2>10. QED
    BY <2>6, <2>7, <2>8, <2>9 DEF Reloads!AllCaught
<1>12. CASE UNCHANGED Reloads!vars
  <2>1. Goal
    BY <1>0, <1>12 DEF Reloads!vars
  <2>2. QED
    BY <1>12, <2>1
       DEF Reloads!vars, Reloads!ReloadFits, Reloads!PublishFits, Reloads!AllCaught,
           Reloads!Awaited, Reloads!Void, Reloads!Caught, Reloads!Fits, Reloads!Follows
<1>13. QED
  BY <1>1, <1>2, <1>3, <1>4, <1>5, <1>6, <1>7, <1>8, <1>9, <1>10, <1>11, <1>12 DEF Reloads!Next

\* With nothing in progress, every instance that no gap has led astray since its
\* last restart runs what the row says: for any instances, specs, updates,
\* failures and restarts.
THEOREM SchedulesFollow ==
    ASSUME Reloads!Up \notin Specs
    PROVE  Reloads!Spec => []SettledFollowsRow
<1>1. Reloads!Init => Reloads!InStep
  <2> SUFFICES ASSUME Reloads!Init PROVE Reloads!InStep
    OBVIOUS
  <2>1. row.enabled = TRUE
    BY DEF Reloads!Init
  <2>2. ASSUME NEW p \in Pods
        PROVE Reloads!Caught(p) /\ update[p] = Reloads!Idle /\ orphans[p] = {}
    <3>1. scheduled[p] = [spec |-> row.spec, on |-> TRUE]
      BY DEF Reloads!Init, Reloads!Started
    <3>2. scheduled[p].on = TRUE /\ scheduled[p].spec = row.spec
      BY <3>1
    <3>3. QED
      BY <2>1, <3>2 DEF Reloads!Init, Reloads!Caught, Reloads!Registered, Reloads!Follows
  <2>3. QED
    BY <2>2 DEF Reloads!InStep, Reloads!OneUpdate, Reloads!UpdaterHearsNothing, Reloads!NoOrphans,
        Reloads!ReloadFits, Reloads!PublishFits,
                Reloads!AllCaught, Reloads!Idle
<1>2. Reloads!TypeOK /\ Reloads!InStep /\ [Reloads!Next]_Reloads!vars => Reloads!InStep'
  BY InStepKept
<1>3. Reloads!TypeOK /\ Reloads!InStep => Reloads!SettledFollowsRow
  <2> SUFFICES ASSUME Reloads!TypeOK, Reloads!InStep, Reloads!Settled,
                      NEW p \in Pods \ astray
               PROVE  Reloads!Running(p) = IF row.enabled THEN {row.spec} ELSE {}
    BY DEF Reloads!SettledFollowsRow
  <2>1. ~Reloads!Awaited
    BY DEF Reloads!Settled, Reloads!Awaited
  <2>2. Reloads!Follows(p) /\ orphans[p] = {}
    BY <2>1 DEF Reloads!InStep, Reloads!AllCaught, Reloads!Caught, Reloads!Settled,
        Reloads!NoOrphans
  <2>3. QED
    BY <2>2 DEF Reloads!Running, Reloads!Follows
<1>4. QED
  BY <1>1, <1>2, <1>3, ReloadsTypeCorrect, PTL DEF Reloads!Spec, SettledFollowsRow
=============================================================================
