---------------------------- MODULE OAuthProofs ----------------------------
(***************************************************************************)
(* Proofs about OAuthToken for any number of goroutines of each kind, any  *)
(* bound on token sets and faults, and a provider that rotates refresh     *)
(* tokens, keeps them, or does either.                                     *)
(***************************************************************************)
EXTENDS OAuthToken, TLAPS

\* A step of p that only moves p and leaves its aggregate alone, or reads the row.
LEMMA MoveTyped ==
    ASSUME TypeOK, NEW p \in Procs, NEW label \in Labels, Goto(p, label)
    PROVE  pc' \in [Procs -> Labels]
BY DEF TypeOK, Goto

LEMMA CredTyped ==
    ASSUME TypeOK, NEW p \in Procs, NEW c \in Credential, cred' = [cred EXCEPT ![p] = c]
    PROVE  cred' \in [Procs -> Credential]
BY DEF TypeOK

LEMMA FaultTyped ==
    ASSUME TypeOK, Fault \/ NoFault
    PROVE  faults' \in 0 .. MaxFaults
BY OAuthAssumption DEF TypeOK, Fault, NoFault

\* The provider numbers token sets without gaps.
LEMMA IssueTyped ==
    ASSUME TypeOK, NEW f \in Token \union {NoToken}, NEW S, Issue(f, S),
           S \subseteq live \union {issued + 1}
    PROVE  /\ issued' \in Token
           /\ issued + 1 \in Token
           /\ family' \in [Token -> Token]
           /\ live' \subseteq 1 .. issued'
BY OAuthAssumption DEF TypeOK, Issue, Token, NoToken

LEMMA ApplyTyped ==
    ASSUME NEW c \in Credential, NEW a \in Token, NEW r \in Token \union {NoToken}
    PROVE  /\ ApplyTokens(c, a, r) \in Credential
           /\ ApplyTokens(c, a, r).access = a
           /\ ApplyTokens(c, a, r).refresh = IF r = NoToken THEN c.refresh ELSE r
           /\ ApplyTokens(c, a, r).active = TRUE
BY DEF ApplyTokens, Credential, Token, NoToken

LEMMA MarkTyped ==
    ASSUME NEW c \in Credential
    PROVE  /\ MarkReauth(c) \in Credential
           /\ MarkReauth(c).access = c.access /\ MarkReauth(c).refresh = c.refresh
BY DEF MarkReauth, Credential

LEMMA InitTyped == Init => TypeOK
<1> SUFFICES ASSUME Init PROVE TypeOK
  OBVIOUS
<1>1. 1 \in Token
  BY OAuthAssumption DEF Token
<1>2. db \in Credential
  BY <1>1 DEF Init, Credential
<1>3. cred \in [Procs -> Credential] /\ pc \in [Procs -> Labels]
  BY <1>2 DEF Init, Labels
<1>4. issued \in Token /\ life \in [Token -> Life] /\ family \in [Token -> Token]
  BY <1>1 DEF Init, Life
<1>5. faults \in 0 .. MaxFaults
  BY OAuthAssumption DEF Init
<1>6. live \subseteq 1 .. issued
  BY DEF Init
<1>7. cache \in Token \union {NoToken} /\ lock \in Procs \union {NoHolder} /\ lost \in BOOLEAN
  BY DEF Init
<1>8. QED
  BY <1>2, <1>3, <1>4, <1>5, <1>6, <1>7 DEF TypeOK

LEMMA RefreshTyped ==
    ASSUME TypeOK, NEW p \in Procs, Refresh(p)
    PROVE  TypeOK'
<1> USE DEF TypeOK
<1>1. CASE CacheMiss(p)
  BY <1>1, MoveTyped DEF CacheMiss, NoFault, provider, Labels
<1>2. CASE StartSweep(p)
  BY <1>2, MoveTyped DEF StartSweep, NoFault, provider, Labels
<1>3. CASE FindByEndpointID(p)
  <2>1. cred' \in [Procs -> Credential]
    BY <1>3, CredTyped DEF FindByEndpointID
  <2>2. pc' \in [Procs -> Labels]
    BY <1>3, MoveTyped DEF FindByEndpointID, Labels
  <2>3. QED
    BY <1>3, <2>1, <2>2 DEF FindByEndpointID, NoFault, provider
<1>4. CASE SweepFind(p)
  <2>1. cred' \in [Procs -> Credential]
    BY <1>4, CredTyped DEF SweepFind
  <2>2. pc' \in [Procs -> Labels]
    BY <1>4, MoveTyped DEF SweepFind, Labels
  <2>3. QED
    BY <1>4, <2>1, <2>2 DEF SweepFind, NoFault, provider
<1>5. CASE PutUnlocked(p) \/ PutLocked(p)
  <2>1. cache' \in Token \union {NoToken}
    BY <1>5 DEF PutUnlocked, PutLocked, CacheAccess, Credential
  <2>2. pc' \in [Procs -> Labels]
    BY <1>5, MoveTyped DEF PutUnlocked, PutLocked, CacheAccess, Labels, Locked
  <2>3. QED
    BY <1>5, <2>1, <2>2 DEF PutUnlocked, PutLocked, CacheAccess, NoFault, provider
<1>6. CASE TakeLock(p)
  BY <1>6, MoveTyped DEF TakeLock, NoFault, provider, Labels, Locked
<1>7. CASE LockTaken(p)
  BY <1>7, MoveTyped DEF LockTaken, NoFault, provider, Labels
<1>8. CASE Reread(p)
  <2>1. cred' \in [Procs -> Credential]
    BY <1>8, CredTyped DEF Reread
  <2>2. pc' \in [Procs -> Labels]
    BY <1>8, MoveTyped DEF Reread, Labels, Locked
  <2>3. QED
    BY <1>8, <2>1, <2>2 DEF Reread, NoFault, provider
<1>9. CASE RefreshSucceeds(p)
  <2>1. PICK rotate \in Rotations :
          /\ Rotate(cred[p].refresh, rotate)
          /\ cred' = [cred EXCEPT ![p] = ApplyTokens(@, issued + 1,
                                     IF rotate THEN issued + 1 ELSE NoToken)]
    BY <1>9 DEF RefreshSucceeds
  <2>2. cred[p] \in Credential /\ cred[p].refresh \in Token
    BY DEF Credential
  <2>3. /\ issued' \in Token /\ issued + 1 \in Token
        /\ family' \in [Token -> Token] /\ live' \subseteq 1 .. issued'
    <3>1. family[cred[p].refresh] \in Token \union {NoToken}
      BY <2>2
    <3>2. Issue(family[cred[p].refresh],
                IF rotate THEN (live \ {cred[p].refresh}) \union {issued + 1} ELSE live)
      BY <2>1 DEF Rotate
    <3>3. QED
      BY <3>1, <3>2, IssueTyped
  <2>4. cred' \in [Procs -> Credential]
    <3>1. ApplyTokens(cred[p], issued + 1, IF rotate THEN issued + 1 ELSE NoToken)
            \in Credential
      BY <2>2, <2>3, ApplyTyped
    <3>2. QED
      BY <2>1, <3>1
  <2>5. pc' \in [Procs -> Labels]
    BY <1>9, MoveTyped DEF RefreshSucceeds, Labels, Locked
  <2>6. QED
    BY <1>9, <2>3, <2>4, <2>5 DEF RefreshSucceeds, NoFault
<1>10. CASE RefreshRefused(p)
  <2>1. cred' \in [Procs -> Credential]
    BY <1>10, MarkTyped DEF RefreshRefused
  <2>2. pc' \in [Procs -> Labels]
    BY <1>10, MoveTyped DEF RefreshRefused, Labels, Locked
  <2>3. live' \subseteq 1 .. issued'
    BY <1>10 DEF RefreshRefused
  <2>4. QED
    BY <1>10, <2>1, <2>2, <2>3 DEF RefreshRefused, NoFault
<1>11. CASE Evict(p)
  BY <1>11, MoveTyped DEF Evict, NoFault, provider, Labels, Locked
<1>12. CASE SaveReauth(p)
  BY <1>12, MoveTyped DEF SaveReauth, NoFault, provider, Labels, Locked
<1>13. CASE SaveTokens(p)
  BY <1>13, MoveTyped DEF SaveTokens, NoFault, provider, Labels, Locked
<1>14. CASE Unlock(p)
  BY <1>14, MoveTyped DEF Unlock, NoFault, provider, Labels
<1>15. QED
  BY <1>1, <1>2, <1>3, <1>4, <1>5, <1>6, <1>7, <1>8, <1>9, <1>10, <1>11, <1>12,
     <1>13, <1>14 DEF Refresh

LEMMA FailureTyped ==
    ASSUME TypeOK, NEW p \in Procs, Failure(p)
    PROVE  TypeOK'
<1> USE DEF TypeOK
<1>1. CASE LockFails(p)
  BY <1>1, MoveTyped, FaultTyped DEF LockFails, provider, Labels
<1>2. CASE RefreshFails(p)
  <2>1. faults' \in 0 .. MaxFaults
    BY <1>2, FaultTyped DEF RefreshFails
  <2>2. QED
    BY <1>2, <2>1, MoveTyped DEF RefreshFails, provider, Labels, Locked
<1>3. CASE RefreshReplyLost(p)
  <2>1. PICK rotate \in Rotations : Rotate(cred[p].refresh, rotate)
    BY <1>3 DEF RefreshReplyLost
  <2>2. family[cred[p].refresh] \in Token \union {NoToken}
    BY DEF Credential
  <2>3. /\ issued' \in Token /\ family' \in [Token -> Token] /\ live' \subseteq 1 .. issued'
    <3>1. Issue(family[cred[p].refresh],
                IF rotate THEN (live \ {cred[p].refresh}) \union {issued + 1} ELSE live)
      BY <2>1 DEF Rotate
    <3>2. QED
      BY <2>2, <3>1, IssueTyped
  <2>4. pc' \in [Procs -> Labels] /\ faults' \in 0 .. MaxFaults
    BY <1>3, MoveTyped, FaultTyped DEF RefreshReplyLost, Labels, Locked
  <2>5. QED
    BY <1>3, <2>3, <2>4 DEF RefreshReplyLost
<1>4. CASE SaveFails(p)
  BY <1>4, MoveTyped, FaultTyped DEF SaveFails, provider, Labels, Locked
<1>5. CASE CallFails(p)
  BY <1>5, MoveTyped, FaultTyped DEF CallFails, provider, Labels, Locked
<1>6. CASE CallIgnored(p)
  <2>1. pc' \in [Procs -> Labels]
    BY <1>6, MoveTyped DEF CallIgnored, Labels, Locked
  <2>2. QED
    BY <1>6, <2>1, FaultTyped DEF CallIgnored, provider
<1>7. CASE Crash(p)
  BY <1>7, MoveTyped, FaultTyped DEF Crash, provider, Labels
<1>8. QED
  BY <1>1, <1>2, <1>3, <1>4, <1>5, <1>6, <1>7 DEF Failure

LEMMA ReauthTyped ==
    ASSUME TypeOK, NEW r \in Procs, Reauth(r)
    PROVE  TypeOK'
<1> USE DEF TypeOK
<1>1. CASE ReauthExchange(r)
  <2>1. Issue(NoToken, live \union {issued + 1})
    BY <1>1 DEF ReauthExchange
  <2>2. /\ issued' \in Token /\ issued + 1 \in Token
        /\ family' \in [Token -> Token] /\ live' \subseteq 1 .. issued'
    BY <2>1, IssueTyped
  <2>3. cred' \in [Procs -> Credential]
    BY <1>1, <2>2, ApplyTyped, CredTyped DEF ReauthExchange
  <2>4. pc' \in [Procs -> Labels]
    BY <1>1, MoveTyped DEF ReauthExchange, Labels
  <2>5. QED
    BY <1>1, <2>2, <2>3, <2>4 DEF ReauthExchange, NoFault
<1>2. CASE ReauthSave(r)
  <2>1. pc' \in [Procs -> Labels] /\ db' \in Credential
    BY <1>2, MoveTyped DEF ReauthSave, Labels
  <2>2. faults' \in 0 .. MaxFaults /\ lost' \in BOOLEAN
    BY <1>2, FaultTyped DEF ReauthSave, NoFault
  <2>3. QED
    BY <1>2, <2>1, <2>2 DEF ReauthSave, provider
<1>3. CASE ReauthEvict(r)
  BY <1>3, MoveTyped DEF ReauthEvict, NoFault, provider, Labels
<1>4. QED
  BY <1>1, <1>2, <1>3 DEF Reauth

LEMMA StepTyped == TypeOK /\ [Next]_vars => TypeOK'
<1> SUFFICES ASSUME TypeOK, [Next]_vars PROVE TypeOK'
  OBVIOUS
<1>1. CASE \E p \in Procs : Refresh(p) \/ Failure(p) \/ Reauth(p)
  BY <1>1, RefreshTyped, FailureTyped, ReauthTyped
<1>2. CASE LockExpires
  BY <1>2 DEF LockExpires, TypeOK, NoFault, local, provider
<1>3. CASE \E t \in Token : TimePasses(t)
  <2>1. PICK t \in Token : TimePasses(t)
    BY <1>3
  <2>2. life' \in [Token -> Life]
    <3>1. life[t] \in Life /\ life[t] - 1 \in Life
      BY <2>1 DEF TimePasses, TypeOK, Life
    <3>2. QED
      BY <2>1, <3>1 DEF TimePasses, TypeOK
  <2>3. QED
    BY <2>1, <2>2 DEF TimePasses, TypeOK, NoFault, local, provider
<1>4. CASE \E t \in Token : Revoke(t)
  <2>1. PICK t \in Token : Revoke(t)
    BY <1>4
  <2>2. QED
    BY <2>1, FaultTyped DEF Revoke, TypeOK, local
<1>5. CASE UNCHANGED vars
  BY <1>5 DEF vars, local, provider, TypeOK
<1>6. QED
  BY <1>1, <1>2, <1>3, <1>4, <1>5 DEF Next

\* Every variable keeps its type.
THEOREM OAuthTypeCorrect == Spec => []TypeOK
BY InitTyped, StepTyped, PTL DEF Spec

-----------------------------------------------------------------------------
(* The refresh lock *)

\* No step but TakeLock leads into the refresh section, and none but Unlock and
\* LockExpires frees the key.
LEMMA LockOwnedStep ==
    ASSUME TypeOK, LockOwned, [Next]_vars
    PROVE  LockOwned'
<1> USE DEF LockOwned, TypeOK
<1>1. ASSUME NEW p \in Procs, NEW label \in Labels, Goto(p, label), lock' = lock,
             pc[p] \in Locked \/ label \notin Locked
      PROVE  LockOwned'
  BY <1>1 DEF Goto
<1>2. ASSUME NEW p \in Procs, Refresh(p)
      PROVE  LockOwned'
  <2>1. CASE TakeLock(p)
    BY <2>1, OAuthAssumption DEF TakeLock, Goto
  <2>2. CASE Unlock(p)
    BY <2>2, OAuthAssumption DEF Unlock, Goto, Locked
  <2>3. CASE CacheMiss(p) \/ StartSweep(p) \/ FindByEndpointID(p) \/ SweepFind(p)
             \/ PutUnlocked(p) \/ LockTaken(p)
    BY <2>3, <1>1 DEF CacheMiss, StartSweep, FindByEndpointID, SweepFind, PutUnlocked,
                      LockTaken, CacheAccess, Locked, Labels
  <2>4. CASE Reread(p) \/ RefreshSucceeds(p) \/ RefreshRefused(p) \/ Evict(p)
             \/ SaveReauth(p) \/ SaveTokens(p) \/ PutLocked(p)
    BY <2>4, <1>1 DEF Reread, RefreshSucceeds, RefreshRefused, Evict, SaveReauth,
                      SaveTokens, PutLocked, CacheAccess, Locked, Labels
  <2>5. QED
    BY <1>2, <2>1, <2>2, <2>3, <2>4 DEF Refresh
<1>3. ASSUME NEW p \in Procs, Failure(p)
      PROVE  LockOwned'
  BY <1>1, <1>3 DEF Failure, LockFails, RefreshFails, RefreshReplyLost, SaveFails, CallFails,
                    CallIgnored, Crash, Locked, Labels
<1>4. ASSUME NEW r \in Procs, Reauth(r)
      PROVE  LockOwned'
  BY <1>1, <1>4 DEF Reauth, ReauthExchange, ReauthSave, ReauthEvict, Locked, Labels
<1>5. CASE LockExpires
  BY <1>5 DEF LockExpires, local
<1>6. CASE \E t \in Token : TimePasses(t) \/ Revoke(t)
  BY <1>6 DEF TimePasses, Revoke, local
<1>7. CASE UNCHANGED vars
  BY <1>7 DEF vars, local
<1>8. QED
  BY <1>2, <1>3, <1>4, <1>5, <1>6, <1>7 DEF Next

\* Two goroutines in the refresh section would both own the key.
THEOREM RefreshIsExclusive == Spec => []OneRefresher
<1>1. Init => TypeOK /\ LockOwned
  BY InitTyped DEF Init, LockOwned, Locked
<1>2. TypeOK /\ LockOwned /\ [Next]_vars => (TypeOK /\ LockOwned)'
  BY StepTyped, LockOwnedStep
<1>3. LockOwned => OneRefresher
  BY DEF LockOwned, OneRefresher, Procs
<1>4. QED
  BY <1>1, <1>2, <1>3, PTL DEF Spec

-----------------------------------------------------------------------------
(* No authorization is lost by the program *)

\* The steps that change no row, no aggregate and nothing at the provider: they
\* move one goroutine, or only the clock and the key.
Quiet(p) ==
    \/ CacheMiss(p) \/ StartSweep(p) \/ PutUnlocked(p) \/ PutLocked(p) \/ TakeLock(p)
    \/ LockTaken(p) \/ Evict(p) \/ Unlock(p)
    \/ LockFails(p) \/ RefreshFails(p) \/ SaveFails(p) \/ CallFails(p) \/ CallIgnored(p)
    \/ Crash(p) \/ ReauthEvict(p)

\* The steps that read the row into the goroutine's aggregate.
Reads(p) == FindByEndpointID(p) \/ SweepFind(p) \/ Reread(p)

\* The steps that write the goroutine's aggregate to the row.
Writes(p) == SaveReauth(p) \/ SaveTokens(p) \/ ReauthSave(p)

LEMMA StepKinds ==
    ASSUME NEW p \in Procs, Refresh(p) \/ Failure(p) \/ Reauth(p)
    PROVE  \/ Quiet(p) \/ Reads(p) \/ Writes(p)
           \/ RefreshSucceeds(p) \/ RefreshReplyLost(p) \/ RefreshRefused(p)
           \/ ReauthExchange(p)
BY DEF Refresh, Failure, Reauth, Quiet, Reads, Writes

\* A quiet step that does not lose a token set leads neither into a state that
\* presents or writes tokens nor out of "save".
LEMMA QuietStep ==
    ASSUME TypeOK, NEW p \in Procs, Quiet(p)
    PROVE  /\ UNCHANGED <<db, cred, issued, family, live>>
           /\ \E label \in Labels :
                 /\ pc' = [pc EXCEPT ![p] = label]
                 /\ label \notin {"refresh", "save", "evict", "reauthSave"}
                 /\ label = "saveReauth" => pc[p] = "evict"
                 /\ pc[p] = "save" => lost'
           /\ lost => lost'
<1> USE DEF Goto, Labels, Locked, provider
<1>1. CASE CacheMiss(p) \/ StartSweep(p)
  BY <1>1 DEF CacheMiss, StartSweep, NoFault
<1>2. CASE PutUnlocked(p) \/ PutLocked(p)
  BY <1>2 DEF PutUnlocked, PutLocked, CacheAccess, NoFault
<1>3. CASE TakeLock(p) \/ LockTaken(p) \/ LockFails(p)
  BY <1>3 DEF TakeLock, LockTaken, LockFails, NoFault
<1>4. CASE Evict(p) \/ Unlock(p) \/ ReauthEvict(p)
  BY <1>4 DEF Evict, Unlock, ReauthEvict, NoFault
<1>5. CASE RefreshFails(p) \/ SaveFails(p)
  BY <1>5 DEF RefreshFails, SaveFails
<1>6. CASE CallFails(p)
  <2>1. (IF pc[p] \in Locked THEN "unlock" ELSE "idle") \in {"unlock", "idle"}
    OBVIOUS
  <2>2. pc[p] # "save"
    BY <1>6 DEF CallFails
  <2>3. pc' = [pc EXCEPT ![p] = IF pc[p] \in Locked THEN "unlock" ELSE "idle"]
    BY <1>6 DEF CallFails
  <2>4. \E label \in {"unlock", "idle"} : pc' = [pc EXCEPT ![p] = label]
    BY <2>1, <2>3
  <2>5. QED
    BY <1>6, <2>2, <2>4 DEF CallFails
<1>7. CASE CallIgnored(p)
  BY <1>7 DEF CallIgnored
<1>8. CASE Crash(p)
  BY <1>8 DEF Crash
<1>9. QED
  BY <1>1, <1>2, <1>3, <1>4, <1>5, <1>6, <1>7, <1>8 DEF Quiet

LEMMA ReadStep ==
    ASSUME TypeOK, NEW p \in Procs, Reads(p)
    PROVE  /\ UNCHANGED <<db, issued, family, live, lock, lost>>
           /\ cred' = [cred EXCEPT ![p] = db]
           /\ \E label \in Labels :
                 /\ pc' = [pc EXCEPT ![p] = label]
                 /\ label \notin {"save", "evict", "saveReauth", "reauthSave"}
                 /\ label = "refresh" => pc[p] = "reread"
           /\ pc[p] \in {"find", "sweep", "reread"}
BY DEF Reads, FindByEndpointID, SweepFind, Reread, Goto, Labels, Locked, provider, NoFault

LEMMA WriteStep ==
    ASSUME TypeOK, NEW p \in Procs, Writes(p)
    PROVE  /\ UNCHANGED <<cred, issued, family, live, lock, lost>>
           /\ db' = cred[p] \/ (db' = db /\ pc[p] = "reauthSave")
           /\ \E label \in Labels :
                 /\ pc' = [pc EXCEPT ![p] = label]
                 /\ label \notin Presenting
           /\ pc[p] \in {"saveReauth", "save", "reauthSave"}
<1> USE DEF Goto, Labels, Locked, Presenting, provider, NoFault
<1>1. CASE SaveReauth(p)
  BY <1>1 DEF SaveReauth
<1>2. CASE SaveTokens(p)
  BY <1>2 DEF SaveTokens
<1>3. CASE ReauthSave(p)
  BY <1>3 DEF ReauthSave
<1>4. QED
  BY <1>1, <1>2, <1>3 DEF Writes

LEMMA ExchangeStep ==
    ASSUME TypeOK, NEW r \in Procs, ReauthExchange(r)
    PROVE  /\ issued' = issued + 1 /\ live' = live \union {issued + 1}
           /\ issued' \in Token
           /\ UNCHANGED <<db, lost>>
           /\ pc[r] = "idle" /\ pc' = [pc EXCEPT ![r] = "reauthSave"]
           /\ \A q \in Procs \ {r} : cred'[q] = cred[q]
           /\ cred'[r].access = issued + 1 /\ cred'[r].refresh = issued + 1
           /\ cred'[r].active
<1>1. Issue(NoToken, live \union {issued + 1})
  BY DEF ReauthExchange
<1>2. issued' = issued + 1 /\ live' = live \union {issued + 1} /\ issued' \in Token
  BY <1>1, IssueTyped DEF Issue
<1>3. cred' = [cred EXCEPT ![r] = ApplyTokens(db, issued + 1, issued + 1)]
  BY DEF ReauthExchange
<1>4. issued + 1 # NoToken
  BY <1>2 DEF Token, NoToken
<1>5. /\ ApplyTokens(db, issued + 1, issued + 1).access = issued + 1
      /\ ApplyTokens(db, issued + 1, issued + 1).refresh = issued + 1
      /\ ApplyTokens(db, issued + 1, issued + 1).active
  BY <1>4 DEF ApplyTokens
<1>6. cred'[r] = ApplyTokens(db, issued + 1, issued + 1) /\ \A q \in Procs \ {r} : cred'[q] = cred[q]
  BY <1>3 DEF TypeOK
<1>7. QED
  BY <1>2, <1>5, <1>6 DEF ReauthExchange, Goto, NoFault

LEMMA SuccessStep ==
    ASSUME TypeOK, NEW p \in Procs, RefreshSucceeds(p)
    PROVE  /\ issued' = issued + 1 /\ issued' \in Token
           /\ UNCHANGED <<db, lost, lock>>
           /\ pc[p] = "refresh" /\ pc' = [pc EXCEPT ![p] = "save"]
           /\ \A q \in Procs \ {p} : cred'[q] = cred[q]
           /\ cred'[p].access = issued + 1 /\ cred'[p].active
           /\ cred'[p].refresh \in {cred[p].refresh, issued + 1}
           /\ cred'[p].refresh \in live'
           /\ live \ {cred[p].refresh} \subseteq live'
<1>1. PICK rotate \in Rotations :
        /\ Rotate(cred[p].refresh, rotate)
        /\ cred' = [cred EXCEPT ![p] = ApplyTokens(@, issued + 1,
                                   IF rotate THEN issued + 1 ELSE NoToken)]
  BY DEF RefreshSucceeds
<1>2. issued' = issued + 1 /\ issued' \in Token /\ issued + 1 # NoToken
  BY <1>1, OAuthAssumption DEF Rotate, Issue, TypeOK, Token, NoToken
<1>3. cred[p].refresh \in live
      /\ live' = IF rotate THEN (live \ {cred[p].refresh}) \union {issued + 1} ELSE live
  BY <1>1 DEF Rotate, Issue
<1>4. /\ cred'[p] = ApplyTokens(cred[p], issued + 1, IF rotate THEN issued + 1 ELSE NoToken)
      /\ \A q \in Procs \ {p} : cred'[q] = cred[q]
  BY <1>1 DEF TypeOK
<1>5. /\ cred'[p].access = issued + 1 /\ cred'[p].active
      /\ cred'[p].refresh = IF rotate THEN issued + 1 ELSE cred[p].refresh
  BY <1>2, <1>4 DEF ApplyTokens
<1>6. QED
  BY <1>2, <1>3, <1>4, <1>5 DEF RefreshSucceeds, Goto, NoFault

LEMMA RefusedStep ==
    ASSUME TypeOK, NEW p \in Procs, RefreshRefused(p)
    PROVE  /\ UNCHANGED <<db, issued, lost>>
           /\ pc[p] = "refresh" /\ cred[p].refresh \notin live
           /\ pc' = [pc EXCEPT ![p] = "evict"]
           /\ \A q \in Procs : cred'[q].access = cred[q].access /\ cred'[q].refresh = cred[q].refresh
<1>1. cred' = [cred EXCEPT ![p] = MarkReauth(@)] /\ cred[p] \in Credential
  BY DEF RefreshRefused, TypeOK
<1>2. \A q \in Procs : cred'[q].access = cred[q].access /\ cred'[q].refresh = cred[q].refresh
  BY <1>1, MarkTyped DEF TypeOK
<1>3. QED
  BY <1>2 DEF RefreshRefused, Goto, NoFault

LEMMA LostReplyStep ==
    ASSUME TypeOK, NEW p \in Procs, RefreshReplyLost(p)
    PROVE  /\ issued' = issued + 1 /\ UNCHANGED <<db, cred>> /\ lost'
           /\ pc' = [pc EXCEPT ![p] = "unlock"]
BY DEF RefreshReplyLost, Rotate, Issue, Goto

\* The steps no goroutine takes.
LEMMA ElseStep ==
    ASSUME LockExpires \/ (\E t \in Token : TimePasses(t) \/ Revoke(t)) \/ UNCHANGED vars
    PROVE  /\ UNCHANGED <<db, pc, cred, issued>>
           /\ ~lost' => UNCHANGED <<live, lost>>
<1>1. CASE LockExpires
  BY <1>1 DEF LockExpires, local, provider, NoFault
<1>2. CASE \E t \in Token : TimePasses(t)
  BY <1>2 DEF TimePasses, local, provider, NoFault
<1>3. CASE \E t \in Token : Revoke(t)
  BY <1>3 DEF Revoke, local
<1>4. CASE UNCHANGED vars
  BY <1>4 DEF vars, local, provider
<1>5. QED
  BY <1>1, <1>2, <1>3, <1>4
-----------------------------------------------------------------------------

LEMMA TokensIssuedStep ==
    ASSUME TypeOK, TokensIssued, [Next]_vars
    PROVE  TokensIssued'
<1>0. /\ issued \in Int
      /\ db.access \in Int /\ db.refresh \in Int
      /\ \A p \in Procs : cred[p].access \in Int /\ cred[p].refresh \in Int
  <2>1. \A t \in Token : t \in Int
    BY OAuthAssumption DEF Token
  <2>2. db \in Credential /\ issued \in Token /\ \A p \in Procs : cred[p] \in Credential
    BY DEF TypeOK
  <2>3. QED
    BY <2>1, <2>2 DEF Credential
<1>1. ASSUME NEW p \in Procs, Refresh(p) \/ Failure(p) \/ Reauth(p)
      PROVE  TokensIssued'
  <2>1. CASE Quiet(p)
    BY <2>1, QuietStep DEF TokensIssued
  <2>2. CASE Reads(p)
    <3>1. UNCHANGED <<db, issued>> /\ \A q \in Procs : cred'[q] \in {cred[q], db}
      BY <2>2, ReadStep DEF TypeOK
    <3>2. QED
      BY <3>1 DEF TokensIssued
  <2>3. CASE Writes(p)
    BY <2>3, WriteStep DEF TokensIssued
  <2>4. CASE RefreshSucceeds(p)
    <3>1. /\ issued' = issued + 1 /\ db' = db
          /\ \A q \in Procs : \/ cred'[q] = cred[q]
                              \/ /\ cred'[q].access = issued + 1
                                 /\ cred'[q].refresh \in {cred[q].refresh, issued + 1}
      BY <2>4, SuccessStep
    <3>2. QED
      BY <3>1, <1>0 DEF TokensIssued
  <2>5. CASE RefreshReplyLost(p)
    BY <2>5, <1>0, LostReplyStep DEF TokensIssued
  <2>6. CASE RefreshRefused(p)
    BY <2>6, RefusedStep DEF TokensIssued
  <2>7. CASE ReauthExchange(p)
    <3>1. /\ issued' = issued + 1 /\ db' = db
          /\ \A q \in Procs : \/ cred'[q] = cred[q]
                              \/ cred'[q].access = issued + 1 /\ cred'[q].refresh = issued + 1
      BY <2>7, ExchangeStep
    <3>2. QED
      BY <3>1, <1>0 DEF TokensIssued
  <2>8. QED
    BY <1>1, StepKinds, <2>1, <2>2, <2>3, <2>4, <2>5, <2>6, <2>7
<1>2. CASE LockExpires \/ (\E t \in Token : TimePasses(t) \/ Revoke(t)) \/ UNCHANGED vars
  BY <1>2, ElseStep DEF TokensIssued
<1>3. QED
  BY <1>1, <1>2 DEF Next

\* A reauthorization's refresh token is new when the provider issues it, and
\* nobody can read it before the handler has saved it.
LEMMA ReauthUnsharedStep ==
    ASSUME TypeOK, TokensIssued, ReauthUnshared, [Next]_vars
    PROVE  ReauthUnshared'
<1>0. /\ issued \in Int /\ ~(issued + 1 <= issued)
      /\ db.refresh # issued + 1
      /\ \A p \in Procs : cred[p].refresh # issued + 1
  <2>1. /\ issued \in Int /\ db.refresh \in Int /\ \A p \in Procs : cred[p].refresh \in Int
    BY OAuthAssumption DEF TypeOK, Credential, Token
  <2>2. QED
    BY <2>1 DEF TokensIssued
<1>1. ASSUME NEW p \in Procs, Refresh(p) \/ Failure(p) \/ Reauth(p)
      PROVE  ReauthUnshared'
  <2>1. CASE Quiet(p)
    <3>1. PICK label \in Labels :
             /\ pc' = [pc EXCEPT ![p] = label]
             /\ label \notin {"refresh", "save", "evict", "reauthSave"}
             /\ label = "saveReauth" => pc[p] = "evict"
      BY <2>1, QuietStep
    <3>2. \A q \in Procs : /\ pc'[q] = "reauthSave" => pc[q] = "reauthSave"
                           /\ pc'[q] \in Presenting => pc[q] \in Presenting
      BY <3>1 DEF TypeOK, Presenting
    <3>3. QED
      BY <2>1, <3>2, QuietStep DEF ReauthUnshared
  <2>2. CASE Reads(p)
    <3>1. /\ db' = db /\ cred'[p] = db /\ pc'[p] # "reauthSave"
          /\ \A q \in Procs \ {p} : cred'[q] = cred[q] /\ pc'[q] = pc[q]
      BY <2>2, ReadStep DEF TypeOK
    <3>2. QED
      BY <3>1 DEF ReauthUnshared
  <2>3. CASE Writes(p)
    <3>1. /\ cred' = cred /\ db' \in {db, cred[p]}
          /\ pc[p] \in Presenting /\ pc'[p] \notin Presenting
          /\ \A q \in Procs \ {p} : pc'[q] = pc[q]
      BY <2>3, WriteStep DEF TypeOK, Presenting
    <3>2. pc'[p] # "reauthSave"
      BY <3>1 DEF Presenting
    <3>3. QED
      BY <3>1, <3>2 DEF ReauthUnshared
  <2>4. CASE RefreshSucceeds(p)
    <3>1. /\ db' = db /\ pc[p] \in Presenting /\ pc'[p] # "reauthSave"
          /\ cred'[p].refresh \in {cred[p].refresh, issued + 1}
          /\ \A q \in Procs \ {p} : cred'[q] = cred[q] /\ pc'[q] = pc[q]
      BY <2>4, SuccessStep DEF TypeOK, Presenting
    <3>2. QED
      BY <3>1, <1>0 DEF ReauthUnshared
  <2>5. CASE RefreshReplyLost(p)
    <3>1. /\ UNCHANGED <<db, cred>> /\ pc'[p] \notin Presenting /\ pc'[p] # "reauthSave"
          /\ \A q \in Procs \ {p} : pc'[q] = pc[q]
      BY <2>5, LostReplyStep DEF TypeOK, Presenting
    <3>2. QED
      BY <3>1 DEF ReauthUnshared
  <2>6. CASE RefreshRefused(p)
    <3>1. /\ db' = db /\ pc[p] \in Presenting /\ pc'[p] # "reauthSave"
          /\ \A q \in Procs : cred'[q].refresh = cred[q].refresh
          /\ \A q \in Procs \ {p} : pc'[q] = pc[q]
      BY <2>6, RefusedStep DEF TypeOK, Presenting
    <3>2. QED
      BY <3>1 DEF ReauthUnshared
  <2>7. CASE ReauthExchange(p)
    <3>1. /\ db' = db /\ cred'[p].refresh = issued + 1
          /\ \A q \in Procs \ {p} : cred'[q] = cred[q] /\ pc'[q] = pc[q]
      BY <2>7, ExchangeStep DEF TypeOK
    <3>2. QED
      BY <3>1, <1>0 DEF ReauthUnshared
  <2>8. QED
    BY <1>1, StepKinds, <2>1, <2>2, <2>3, <2>4, <2>5, <2>6, <2>7
<1>2. CASE LockExpires \/ (\E t \in Token : TimePasses(t) \/ Revoke(t)) \/ UNCHANGED vars
  BY <1>2, ElseStep DEF ReauthUnshared
<1>3. QED
  BY <1>1, <1>2 DEF Next

\* While nothing is lost, the holder of the key is the only one to present and
\* to rotate the token of the row; a reauthorization rotates nothing.
LEMMA GrantKeptStep ==
    ASSUME OAuthInv, [Next]_vars
    PROVE  GrantKept'
<1>0. TypeOK /\ LockOwned /\ TokensIssued /\ ReauthUnshared /\ GrantKept
  BY DEF OAuthInv
<1>1. ASSUME NEW p \in Procs, Refresh(p) \/ Failure(p) \/ Reauth(p), ~lost'
      PROVE  GrantKept'
  <2>1. CASE Quiet(p)
    <3>1. PICK label \in Labels :
             /\ pc' = [pc EXCEPT ![p] = label]
             /\ label \notin {"refresh", "save", "evict", "reauthSave"}
             /\ label = "saveReauth" => pc[p] = "evict"
             /\ pc[p] = "save" => lost'
      BY <1>0, <2>1, QuietStep
    <3>2. ~lost /\ UNCHANGED <<db, cred, live>>
      BY <1>0, <1>1, <2>1, QuietStep
    <3>3. \A q \in Procs :
             /\ pc'[q] \in {"refresh", "save", "evict", "reauthSave"} => pc'[q] = pc[q]
             /\ pc'[q] # "saveReauth"
             /\ pc[q] = "save" => pc'[q] = "save"
      BY <1>0, <1>1, <3>1, <3>2 DEF TypeOK, GrantKept
    <3>4. QED
      BY <1>0, <3>2, <3>3 DEF GrantKept
  <2>2. CASE Reads(p)
    <3>1. /\ UNCHANGED <<db, live, lost>> /\ cred'[p] = db
          /\ pc'[p] \notin {"save", "evict", "saveReauth", "reauthSave"}
          /\ pc'[p] = "refresh" => pc[p] = "reread"
          /\ pc[p] # "save"
          /\ \A q \in Procs \ {p} : cred'[q] = cred[q] /\ pc'[q] = pc[q]
      BY <1>0, <2>2, ReadStep DEF TypeOK
    <3>2. pc[p] = "reread" => \A q \in Procs : pc[q] # "save"
      BY <1>0, <3>1 DEF LockOwned, Locked
    <3>3. pc'[p] = "refresh" => db.refresh \in live
      BY <1>0, <1>1, <3>1, <3>2 DEF GrantKept
    <3>4. QED
      BY <1>0, <1>1, <3>1, <3>3 DEF GrantKept
  <2>3. CASE Writes(p)
    <3>1. /\ UNCHANGED <<cred, live, lost>>
          /\ db' = cred[p] \/ (db' = db /\ pc[p] = "reauthSave")
          /\ pc[p] \in {"saveReauth", "save", "reauthSave"}
          /\ pc'[p] \notin Presenting
          /\ \A q \in Procs \ {p} : pc'[q] = pc[q]
      BY <1>0, <2>3, WriteStep DEF TypeOK
    <3>2. pc[p] \in {"save", "reauthSave"} /\ cred[p].refresh \in live /\ cred[p].active
      BY <1>0, <1>1, <3>1 DEF GrantKept
    <3>3. db'.refresh \in live \/ \E q \in Procs : pc'[q] = "save"
      BY <1>0, <1>1, <3>1, <3>2 DEF GrantKept
    <3>4. QED
      BY <1>0, <1>1, <3>1, <3>2, <3>3 DEF GrantKept, Presenting
  <2>4. CASE RefreshSucceeds(p)
    <3>1. /\ UNCHANGED <<db, lost, lock>> /\ pc[p] = "refresh" /\ pc'[p] = "save"
          /\ \A q \in Procs \ {p} : cred'[q] = cred[q] /\ pc'[q] = pc[q]
          /\ cred'[p].refresh \in live' /\ cred'[p].active
          /\ live \ {cred[p].refresh} \subseteq live'
      BY <1>0, <2>4, SuccessStep DEF TypeOK
    <3>2. \A q \in Procs \ {p} : pc[q] \notin {"refresh", "save"}
      BY <1>0, <3>1 DEF LockOwned, Locked
    <3>3. \A q \in Procs \ {p} : pc[q] = "reauthSave" => cred[q].refresh # cred[p].refresh
      BY <1>0, <3>1 DEF ReauthUnshared, Presenting
    <3>4. \A q \in Procs \ {p} : pc[q] = "reauthSave" => cred[q].refresh \in live'
      BY <1>0, <1>1, <3>1, <3>3 DEF GrantKept
    <3>5. QED
      BY <1>0, <1>1, <3>1, <3>2, <3>4 DEF GrantKept
  <2>5. CASE RefreshReplyLost(p)
    BY <1>0, <1>1, <2>5, LostReplyStep
  <2>6. CASE RefreshRefused(p)
    BY <1>0, <1>1, <2>6, RefusedStep DEF GrantKept
  <2>7. CASE ReauthExchange(p)
    <3>1. /\ UNCHANGED <<db, lost>> /\ live \subseteq live'
          /\ pc[p] = "idle" /\ pc'[p] = "reauthSave"
          /\ cred'[p].refresh \in live' /\ cred'[p].active
          /\ \A q \in Procs \ {p} : cred'[q] = cred[q] /\ pc'[q] = pc[q]
      BY <1>0, <2>7, ExchangeStep DEF TypeOK
    <3>2. QED
      BY <1>0, <1>1, <3>1 DEF GrantKept
  <2>8. QED
    BY <1>1, StepKinds, <2>1, <2>2, <2>3, <2>4, <2>5, <2>6, <2>7
<1>2. CASE LockExpires \/ (\E t \in Token : TimePasses(t) \/ Revoke(t)) \/ UNCHANGED vars
  BY <1>0, <1>2, ElseStep DEF GrantKept
<1>3. QED
  BY <1>1, <1>2 DEF Next, GrantKept

LEMMA OAuthInvariant == Spec => []OAuthInv
<1>1. Init => OAuthInv
  <2> SUFFICES ASSUME Init PROVE OAuthInv
    OBVIOUS
  <2>1. LockOwned
    BY DEF Init, LockOwned, Locked
  <2>2. TokensIssued
    BY DEF Init, TokensIssued
  <2>3. ReauthUnshared
    BY DEF Init, ReauthUnshared
  <2>4. GrantKept
    BY DEF Init, GrantKept
  <2>5. QED
    BY InitTyped, <2>1, <2>2, <2>3, <2>4 DEF OAuthInv
<1>2. OAuthInv /\ [Next]_vars => OAuthInv'
  BY StepTyped, LockOwnedStep, TokensIssuedStep, ReauthUnsharedStep, GrantKeptStep DEF OAuthInv
<1>3. QED
  BY <1>1, <1>2, PTL DEF Spec

\* The provider refuses a refresh only after something was lost: no interleaving
\* of refreshers and reauthorizations presents a refresh token twice.
THEOREM GrantLostOnlyOutside == Spec => []OnlyLossCostsGrant
<1>1. OAuthInv => OnlyLossCostsGrant
  BY DEF OAuthInv, GrantKept, OnlyLossCostsGrant
<1>2. QED
  BY <1>1, OAuthInvariant, PTL

-----------------------------------------------------------------------------
(* Older token sets do not come back while nobody reauthorizes *)

\* A new login shows in the numbers of the token sets for ever after.
LEMMA LoginShows ==
    ASSUME TypeOK, [Next]_vars
    PROVE  /\ Unreauthorized' => Unreauthorized
           /\ \A r \in Procs : ReauthExchange(r) => ~Unreauthorized'
<1>1. issued \in Nat /\ issued >= 1 /\ \A t \in Token : t \in Int
  BY OAuthAssumption DEF TypeOK, Token
<1>2. \/ issued' = issued /\ family' = family
      \/ /\ issued' = issued + 1 /\ issued < MaxToken
         /\ \E f \in Int : family' = [family EXCEPT ![issued + 1] = f]
  <2>1. ASSUME NEW p \in Procs, RefreshSucceeds(p) \/ RefreshReplyLost(p)
        PROVE  /\ issued' = issued + 1 /\ issued < MaxToken
               /\ \E f \in Int : family' = [family EXCEPT ![issued + 1] = f]
    <3>1. PICK rotate \in Rotations : Rotate(cred[p].refresh, rotate)
      BY <2>1 DEF RefreshSucceeds, RefreshReplyLost
    <3>2. family[cred[p].refresh] \in Token
      BY DEF TypeOK, Credential
    <3>3. family[cred[p].refresh] \in Int /\ issued + 1 \in Int
      BY <1>1, <3>2
    <3>4. \E f \in Int : family' = [family EXCEPT ![issued + 1] = f]
      BY <3>1, <3>3 DEF Rotate, Issue
    <3>5. QED
      BY <3>1, <3>4 DEF Rotate, Issue
  <2>2. ASSUME NEW p \in Procs, ReauthExchange(p)
        PROVE  /\ issued' = issued + 1 /\ issued < MaxToken
               /\ \E f \in Int : family' = [family EXCEPT ![issued + 1] = f]
    <3>1. Issue(NoToken, live \union {issued + 1})
      BY <2>2 DEF ReauthExchange
    <3>2. family' = [family EXCEPT ![issued + 1] = issued + 1] /\ issued + 1 \in Int
      BY <1>1, <3>1 DEF Issue
    <3>3. QED
      BY <3>1, <3>2 DEF Issue
  <2>3. ASSUME NEW p \in Procs, Quiet(p) \/ Reads(p) \/ Writes(p) \/ RefreshRefused(p)
        PROVE  issued' = issued /\ family' = family
    BY <2>3, QuietStep, ReadStep, WriteStep DEF RefreshRefused
  <2>4. CASE LockExpires \/ (\E t \in Token : TimePasses(t) \/ Revoke(t)) \/ UNCHANGED vars
    BY <2>4 DEF LockExpires, TimePasses, Revoke, vars, local, provider
  <2>5. QED
    BY <2>1, <2>2, <2>3, <2>4, StepKinds DEF Next
<1>3. Unreauthorized' => Unreauthorized
  <2>1. ASSUME Unreauthorized', NEW t \in 1 .. issued PROVE family[t] = 1
    <3>1. t \in 1 .. issued' /\ t # issued + 1
      BY <1>1, <1>2
    <3>2. family'[t] = family[t]
      <4>1. t \in Token /\ family \in [Token -> Token]
        BY <1>1, <2>1, OAuthAssumption DEF TypeOK, Token
      <4>2. QED
        BY <1>2, <3>1, <4>1
    <3>3. QED
      BY <2>1, <3>1, <3>2 DEF Unreauthorized
  <2>2. QED
    BY <2>1 DEF Unreauthorized
<1>4. ASSUME NEW r \in Procs, ReauthExchange(r) PROVE ~Unreauthorized'
  <2>1. Issue(NoToken, live \union {issued + 1})
    BY <1>4 DEF ReauthExchange
  <2>2. /\ issued' = issued + 1 /\ issued + 1 \in Token
        /\ family' = [family EXCEPT ![issued + 1] = issued + 1]
    BY <2>1, IssueTyped DEF Issue
  <2>3. family'[issued + 1] = issued + 1
    BY <2>2 DEF TypeOK
  <2>4. issued + 1 \in 1 .. issued' /\ issued + 1 # 1
    BY <1>1, <2>2
  <2>5. QED
    BY <2>3, <2>4 DEF Unreauthorized
<1>5. QED
  BY <1>3, <1>4

\* Who writes the row holds the key, so nobody else read the row to write it; and
\* who caches a token has read it from the row, or just written it there.
LEMMA InOrderStep ==
    ASSUME OAuthInv, InOrder, [Next]_vars, Unreauthorized'
    PROVE  /\ db'.access >= db.access
           /\ \A p \in Procs : pc'[p] \notin {"reauthSave", "reauthEvict"}
           /\ cache' <= db'.access
           /\ \A p \in Procs : pc'[p] \in {"put", "cache"} => cred'[p].access <= db'.access
           /\ \A p \in Procs : pc'[p] \in {"refresh", "save", "evict", "saveReauth"} =>
                   cred'[p].access >= db'.access
<1>0. TypeOK /\ LockOwned /\ TokensIssued
  BY DEF OAuthInv
<1>1. /\ \A p \in Procs : pc[p] \notin {"reauthSave", "reauthEvict"}
      /\ cache <= db.access
      /\ \A p \in Procs : pc[p] \in {"put", "cache"} => cred[p].access <= db.access
      /\ \A p \in Procs : pc[p] \in {"refresh", "save", "evict", "saveReauth"} =>
              cred[p].access >= db.access
  BY <1>0, LoginShows DEF InOrder
<1>2. /\ issued \in Int /\ db.access \in Int /\ cache \in Int /\ db.access <= issued
      /\ 0 <= db.access
      /\ \A p \in Procs : cred[p].access \in Int /\ cred[p].access <= issued
  <2>1. \A t \in Token : t \in Int /\ 0 <= t
    BY OAuthAssumption DEF Token
  <2>2. db \in Credential /\ issued \in Token /\ \A p \in Procs : cred[p] \in Credential
    BY <1>0 DEF TypeOK
  <2>3. cache \in Int
    BY <1>0, <2>1 DEF TypeOK, NoToken
  <2>4. QED
    BY <1>0, <2>1, <2>2, <2>3 DEF Credential, TokensIssued
<1>3. ASSUME NEW p \in Procs, Quiet(p)
      PROVE  /\ UNCHANGED <<db, cred>> /\ cache' \in {cache, NoToken, cred[p].access}
             /\ cache' = cred[p].access => pc[p] \in {"put", "cache"} \/ cache' \in {cache, NoToken}
             /\ \A q \in Procs \ {p} : pc'[q] = pc[q]
             /\ pc'[p] \notin {"refresh", "save", "evict", "reauthSave", "reauthEvict", "put", "cache"}
             /\ pc'[p] = "saveReauth" => pc[p] = "evict"
  <2>1. /\ UNCHANGED <<db, cred>> /\ \A q \in Procs \ {p} : pc'[q] = pc[q]
        /\ pc'[p] = "saveReauth" => pc[p] = "evict"
    BY <1>0, <1>3, QuietStep DEF TypeOK
  <2>2. /\ pc'[p] \in {"find", "sweep", "idle", "unlock", "reread", "saveReauth"}
    <3> USE <1>0 DEF TypeOK, Goto
    <3>1. CASE CacheMiss(p) \/ StartSweep(p) \/ PutUnlocked(p) \/ PutLocked(p)
      BY <3>1 DEF CacheMiss, StartSweep, PutUnlocked, PutLocked, CacheAccess
    <3>2. CASE TakeLock(p) \/ LockTaken(p) \/ LockFails(p) \/ Evict(p) \/ Unlock(p)
      BY <3>2 DEF TakeLock, LockTaken, LockFails, Evict, Unlock
    <3>3. CASE RefreshFails(p) \/ SaveFails(p) \/ Crash(p) \/ ReauthEvict(p)
      BY <3>3 DEF RefreshFails, SaveFails, Crash, ReauthEvict
    <3>4. CASE CallFails(p)
      BY <3>4 DEF CallFails
    <3>5. CASE CallIgnored(p)
      BY <3>5 DEF CallIgnored
    <3>6. QED
      BY <1>3, <3>1, <3>2, <3>3, <3>4, <3>5 DEF Quiet
  <2>3. \/ cache' \in {cache, NoToken}
        \/ pc[p] \in {"put", "cache"} /\ cache' = cred[p].access
    BY <1>3 DEF Quiet, CacheMiss, StartSweep, PutUnlocked, PutLocked, CacheAccess, TakeLock,
                LockTaken, LockFails, Evict, Unlock, RefreshFails, SaveFails, Crash,
                ReauthEvict, CallFails, CallIgnored
  <2>4. QED
    BY <2>1, <2>2, <2>3
<1>4. ASSUME NEW p \in Procs, Reads(p) \/ Writes(p) \/ RefreshSucceeds(p) \/ RefreshRefused(p)
                             \/ RefreshReplyLost(p)
      PROVE  cache' = cache
  BY <1>4 DEF Reads, FindByEndpointID, SweepFind, Reread, Writes, SaveReauth, SaveTokens,
              ReauthSave, RefreshSucceeds, RefreshRefused, RefreshReplyLost
<1>5. ASSUME NEW p \in Procs, Refresh(p) \/ Failure(p) \/ Reauth(p)
      PROVE  /\ db'.access >= db.access
             /\ \A q \in Procs : pc'[q] \notin {"reauthSave", "reauthEvict"}
             /\ cache' <= db'.access
             /\ \A q \in Procs : pc'[q] \in {"put", "cache"} => cred'[q].access <= db'.access
             /\ \A q \in Procs : pc'[q] \in {"refresh", "save", "evict", "saveReauth"} =>
                     cred'[q].access >= db'.access
  <2>1. CASE Quiet(p)
    <3>1. cache' <= db.access
      BY <1>1, <1>2, <1>3, <2>1 DEF NoToken
    <3>2. QED
      BY <1>1, <1>2, <1>3, <2>1, <3>1
  <2>2. CASE Reads(p)
    <3>1. /\ db' = db /\ cred'[p] = db
          /\ pc'[p] \notin {"save", "evict", "saveReauth", "reauthSave"}
          /\ \A q \in Procs \ {p} : cred'[q] = cred[q] /\ pc'[q] = pc[q]
      BY <1>0, <2>2, ReadStep DEF TypeOK
    <3>2. pc'[p] # "reauthEvict"
      BY <1>0, <2>2 DEF Reads, FindByEndpointID, SweepFind, Reread, Goto, TypeOK
    <3>3. QED
      BY <1>1, <1>2, <1>4, <2>2, <3>1, <3>2
  <2>3. CASE Writes(p)
    <3>1. /\ cred' = cred /\ (db' = cred[p] \/ (db' = db /\ pc[p] = "reauthSave"))
          /\ pc[p] \in {"saveReauth", "save", "reauthSave"}
          /\ \A q \in Procs \ {p} : pc'[q] = pc[q]
      BY <1>0, <2>3, WriteStep DEF TypeOK
    <3>2. pc[p] \in {"saveReauth", "save"} /\ db' = cred[p]
      BY <1>1, <3>1
    <3>3. pc'[p] \in {"unlock", "cache"}
      BY <1>0, <1>1, <2>3 DEF Writes, SaveReauth, SaveTokens, ReauthSave, Goto, TypeOK
    <3>4. \A q \in Procs \ {p} : pc[q] \notin {"refresh", "save", "evict", "saveReauth"}
      BY <1>0, <3>2 DEF LockOwned, Locked
    <3>5. db'.access >= db.access
      BY <1>1, <1>2, <3>2
    <3>6. QED
      BY <1>1, <1>2, <1>4, <2>3, <3>1, <3>2, <3>3, <3>4, <3>5
  <2>4. CASE RefreshSucceeds(p)
    <3>1. /\ db' = db /\ pc'[p] = "save" /\ cred'[p].access = issued + 1
          /\ \A q \in Procs \ {p} : cred'[q] = cred[q] /\ pc'[q] = pc[q]
      BY <1>0, <2>4, SuccessStep DEF TypeOK
    <3>2. QED
      BY <1>1, <1>2, <1>4, <2>4, <3>1
  <2>5. CASE RefreshReplyLost(p)
    <3>1. UNCHANGED <<db, cred>> /\ \A q \in Procs : pc'[q] \in {pc[q], "unlock"}
      BY <1>0, <2>5, LostReplyStep DEF TypeOK
    <3>2. QED
      BY <1>1, <1>2, <1>4, <2>5, <3>1
  <2>6. CASE RefreshRefused(p)
    <3>1. /\ db' = db /\ pc[p] = "refresh" /\ pc'[p] = "evict"
          /\ \A q \in Procs : cred'[q].access = cred[q].access
          /\ \A q \in Procs \ {p} : pc'[q] = pc[q]
      BY <1>0, <2>6, RefusedStep DEF TypeOK
    <3>2. QED
      BY <1>1, <1>2, <1>4, <2>6, <3>1
  <2>7. CASE ReauthExchange(p)
    BY <1>0, <2>7, LoginShows
  <2>8. QED
    BY <1>5, StepKinds, <2>1, <2>2, <2>3, <2>4, <2>5, <2>6, <2>7
<1>6. CASE LockExpires \/ (\E t \in Token : TimePasses(t) \/ Revoke(t)) \/ UNCHANGED vars
  <2>1. UNCHANGED <<db, pc, cred, cache>>
    BY <1>6, ElseStep DEF LockExpires, TimePasses, Revoke, vars
  <2>2. QED
    BY <1>1, <1>2, <2>1
<1>7. QED
  BY <1>5, <1>6 DEF Next

LEMMA OrderInvariant == Spec => [](OAuthInv /\ InOrder)
<1>1. Init => InOrder
  BY DEF Init, InOrder, NoToken
<1>2. OAuthInv /\ InOrder /\ [Next]_vars => InOrder'
  BY InOrderStep DEF InOrder
<1>3. QED
  BY <1>1, <1>2, OAuthInvariant, PTL DEF Spec

\* Until an owner reauthorizes, Redis never holds an access token the row has not
\* seen, whoever crashes between the save and the put.
THEOREM CacheBehindRow == Spec => []CacheNeverAhead
<1>1. OAuthInv /\ InOrder => CacheNeverAhead
  BY DEF InOrder, CacheNeverAhead
<1>2. QED
  BY <1>1, OrderInvariant, PTL

\* Until an owner reauthorizes, no save puts back an older token set.
THEOREM SavesNeverRegress == Spec => CredentialNeverRegresses
<1>1. OAuthInv /\ InOrder /\ [Next]_vars => [Unreauthorized' => db'.access >= db.access]_vars
  BY InOrderStep
<1>2. QED
  BY <1>1, OrderInvariant, PTL DEF Spec, CredentialNeverRegresses
=============================================================================
