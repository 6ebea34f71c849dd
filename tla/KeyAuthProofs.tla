---------------------------- MODULE KeyAuthProofs ----------------------------
(***************************************************************************)
(* Proofs about KeyAuth for any users, keys and quota, and any finite      *)
(* number of requests under way.                                           *)
(***************************************************************************)
EXTENDS KeyAuth, FiniteSetTheorems, TLAPS

\* A request that will write a cache entry has seen the key's row.
SavesIssued == \A a \in Actors : act[a].at = "save" => owner[act[a].key] # None

KATypeInv == KATypeOK /\ SavesIssued

\* The requests that have counted a user's keys and found room for one more.
Issuers(u) == {a \in Actors : act[a].at = "issue" /\ act[a].user = u}

\* Each of them may still insert; the last that was let in saw a free place.
RoomCounted == \A u \in Users :
    /\ IsFiniteSet(KeysOf(u))
    /\ Cardinality(KeysOf(u)) + Cardinality(Issuers(u)) <= Quota + Cardinality(Actors) - 1

KAInv == KATypeInv /\ RoomCounted

------------------------------------------------------------------------------
(* Types *)

LEMMA TypesStart == KAInit => KATypeInv
BY DEF KAInit, KATypeInv, KATypeOK, SavesIssued, Requests, Idle

LEMMA TypesStep == KATypeInv /\ [KANext]_kaVars => KATypeInv'
<1> SUFFICES ASSUME KATypeInv, [KANext]_kaVars PROVE KATypeInv'
  OBVIOUS
<1> USE KeyAuthAssumption DEF KATypeInv, KATypeOK, SavesIssued, Requests, Idle, At, Become
<1>1. ASSUME NEW a \in Actors, NEW u \in Users, IssueCheck(a, u) PROVE KATypeInv'
  BY <1>1 DEF IssueCheck
<1>2. ASSUME NEW a \in Actors, IssueCount(a) PROVE KATypeInv'
  <2>1. act[a].at = "count" /\ act[a].user \in Users
    BY <1>2 DEF IssueCount
  <2>2. \/ act' = [act EXCEPT ![a] = [at |-> "issue", user |-> act[a].user]]
        \/ act' = [act EXCEPT ![a] = Idle]
    BY <1>2 DEF IssueCount
  <2>3. UNCHANGED <<deleted, owner, revoked, cached>>
    BY <1>2 DEF IssueCount
  <2>4. QED
    BY <2>1, <2>2, <2>3
<1>3. ASSUME NEW a \in Actors, NEW k \in Keys, IssueSave(a, k) PROVE KATypeInv'
  BY <1>3 DEF IssueSave
<1>4. ASSUME NEW a \in Actors, NEW k \in Keys, Hit(a, k) PROVE KATypeInv'
  BY <1>4 DEF Hit
<1>5. ASSUME NEW a \in Actors, NEW k \in Keys, Load(a, k) PROVE KATypeInv'
  BY <1>5 DEF Load, Found, Valid
<1>6. ASSUME NEW a \in Actors, Save(a) PROVE KATypeInv'
  <2>1. act[a].at = "save" /\ act[a].key \in Keys /\ act[a] = [at |-> "save", key |-> act[a].key]
    BY <1>6 DEF Save
  <2>2. act' = [act EXCEPT ![a] = [at |-> "accepted", key |-> act[a].key]]
    BY <1>6, <2>1 DEF Save
  <2>3. cached' \in {cached, cached \cup {act[a].key}} /\ UNCHANGED <<deleted, owner, revoked>>
    BY <1>6 DEF Save
  <2>4. QED
    BY <2>1, <2>2, <2>3
<1>7. ASSUME NEW a \in Actors, Leave(a) PROVE KATypeInv'
  BY <1>7 DEF Leave
<1>8. ASSUME NEW k \in Keys, RevokeKey(k) PROVE KATypeInv'
  BY <1>8 DEF RevokeKey, Valid
<1>9. ASSUME NEW k \in Keys, Expires(k) PROVE KATypeInv'
  BY <1>9 DEF Expires
<1>10. ASSUME NEW u \in Users, DeleteUser(u) PROVE KATypeInv'
  BY <1>10 DEF DeleteUser
<1>11. ASSUME UNCHANGED kaVars PROVE KATypeInv'
  BY <1>11 DEF kaVars
<1>12. QED
  BY <1>1, <1>2, <1>3, <1>4, <1>5, <1>6, <1>7, <1>8, <1>9, <1>10, <1>11 DEF KANext

\* Every variable keeps its type: entries, revocations and requests name keys
\* that were issued.
THEOREM KeyTypesCorrect == KASpec => []KATypeOK
<1>1. KATypeInv => KATypeOK
  BY DEF KATypeInv
<1>2. QED
  BY TypesStart, TypesStep, <1>1, PTL DEF KASpec

------------------------------------------------------------------------------
(* The quota *)

LEMMA RoomStart == KAInit => RoomCounted
<1> SUFFICES ASSUME KAInit, NEW u \in Users
             PROVE  /\ IsFiniteSet(KeysOf(u))
                    /\ Cardinality(KeysOf(u)) + Cardinality(Issuers(u))
                          <= Quota + Cardinality(Actors) - 1
  BY DEF RoomCounted
<1>1. KeysOf(u) = {} /\ Issuers(u) = {}
  BY KeyAuthAssumption DEF KAInit, KeysOf, Issuers, Idle
<1>2. Cardinality({}) = 0 /\ IsFiniteSet({}) /\ Cardinality(Actors) \in Nat
  BY FS_EmptySet, FS_CardinalityType, KeyAuthAssumption
<1>3. QED
  BY <1>1, <1>2, KeyAuthAssumption

\* Where no request becomes an issuer and no key is gained, the sum does not grow.
LEMMA RoomKept ==
    ASSUME RoomCounted, NEW u \in Users,
           KeysOf(u)' \subseteq KeysOf(u), Issuers(u)' \subseteq Issuers(u)
    PROVE  /\ IsFiniteSet(KeysOf(u)')
           /\ Cardinality(KeysOf(u)') + Cardinality(Issuers(u)')
                 <= Quota + Cardinality(Actors) - 1
<1>1. IsFiniteSet(KeysOf(u)) /\ IsFiniteSet(Issuers(u))
  <2>1. Issuers(u) \subseteq Actors
    BY DEF Issuers
  <2>2. QED
    BY <2>1, FS_Subset, KeyAuthAssumption DEF RoomCounted
<1>2. /\ IsFiniteSet(KeysOf(u)') /\ Cardinality(KeysOf(u)') <= Cardinality(KeysOf(u))
      /\ IsFiniteSet(Issuers(u)') /\ Cardinality(Issuers(u)') <= Cardinality(Issuers(u))
  BY <1>1, FS_Subset
<1>3. /\ Cardinality(KeysOf(u)) \in Nat /\ Cardinality(KeysOf(u)') \in Nat
      /\ Cardinality(Issuers(u)) \in Nat /\ Cardinality(Issuers(u)') \in Nat
      /\ Cardinality(Actors) \in Nat
  BY <1>1, <1>2, FS_CardinalityType, KeyAuthAssumption
<1>4. Cardinality(KeysOf(u)) + Cardinality(Issuers(u)) <= Quota + Cardinality(Actors) - 1
  BY DEF RoomCounted
<1>5. QED
  BY <1>2, <1>3, <1>4, KeyAuthAssumption

\* A count below the quota lets one more in: at most every request is one of them.
LEMMA RoomAfterCount ==
    ASSUME KAInv, NEW a \in Actors, IssueCount(a), NEW u \in Users
    PROVE  /\ IsFiniteSet(KeysOf(u)')
           /\ Cardinality(KeysOf(u)') + Cardinality(Issuers(u)')
                 <= Quota + Cardinality(Actors) - 1
<1> USE DEF KAInv, KATypeInv, KATypeOK
<1>1. KeysOf(u)' = KeysOf(u)
  BY DEF IssueCount, KeysOf
<1>2. CASE act[a].user = u /\ Cardinality(KeysOf(u)) < Quota
  <2>1. Issuers(u)' \subseteq Actors
    BY DEF Issuers
  <2>2. Cardinality(Issuers(u)') <= Cardinality(Actors) /\ IsFiniteSet(Issuers(u)')
    BY <2>1, FS_Subset, KeyAuthAssumption
  <2>3. /\ Cardinality(KeysOf(u)) \in Nat /\ Cardinality(Issuers(u)') \in Nat
        /\ Cardinality(Actors) \in Nat /\ IsFiniteSet(KeysOf(u))
    BY <2>2, FS_CardinalityType, KeyAuthAssumption DEF RoomCounted
  <2>4. QED
    BY <1>1, <1>2, <2>2, <2>3, KeyAuthAssumption
<1>3. CASE ~(act[a].user = u /\ Cardinality(KeysOf(u)) < Quota)
  <2>1. Issuers(u)' \subseteq Issuers(u)
    BY <1>3 DEF IssueCount, Issuers, QuotaAllows, At, Become, Idle, Requests
  <2>2. QED
    BY <1>1, <2>1, RoomKept
<1>4. QED
  BY <1>2, <1>3

\* An insert turns an issuer into a key.
LEMMA RoomAfterSave ==
    ASSUME KAInv, NEW a \in Actors, NEW k \in Keys, IssueSave(a, k), NEW u \in Users
    PROVE  /\ IsFiniteSet(KeysOf(u)')
           /\ Cardinality(KeysOf(u)') + Cardinality(Issuers(u)')
                 <= Quota + Cardinality(Actors) - 1
<1> USE DEF KAInv, KATypeInv, KATypeOK
<1>1. /\ act[a].at = "issue" /\ act[a].user \in Users /\ owner[k] = None
      /\ owner' = [owner EXCEPT ![k] = act[a].user]
      /\ act' = [act EXCEPT ![a] = Idle]
      /\ revoked' = revoked /\ k \notin revoked
  BY DEF IssueSave, At, Become, Requests, Idle
<1>2. CASE act[a].user = u
  <2>1. KeysOf(u)' = KeysOf(u) \cup {k} /\ k \notin KeysOf(u)
    BY <1>1, <1>2, KeyAuthAssumption DEF KeysOf
  <2>2. Issuers(u)' = Issuers(u) \ {a} /\ a \in Issuers(u)
    BY <1>1, <1>2 DEF Issuers, Idle
  <2>3. IsFiniteSet(KeysOf(u)) /\ IsFiniteSet(Issuers(u))
    <3>1. Issuers(u) \subseteq Actors
      BY DEF Issuers
    <3>2. QED
      BY <3>1, FS_Subset, KeyAuthAssumption DEF RoomCounted
  <2>4. /\ IsFiniteSet(KeysOf(u)') /\ Cardinality(KeysOf(u)') = Cardinality(KeysOf(u)) + 1
        /\ Cardinality(Issuers(u)') = Cardinality(Issuers(u)) - 1
    <3>1. /\ IsFiniteSet(KeysOf(u) \cup {k})
          /\ Cardinality(KeysOf(u) \cup {k}) = Cardinality(KeysOf(u)) + 1
      BY <2>1, <2>3, FS_AddElement
    <3>2. Cardinality(Issuers(u) \ {a}) = Cardinality(Issuers(u)) - 1
      BY <2>2, <2>3, FS_RemoveElement
    <3>3. QED
      BY <2>1, <2>2, <3>1, <3>2
  <2>5. /\ Cardinality(KeysOf(u)) \in Nat /\ Cardinality(Issuers(u)) \in Nat
        /\ Cardinality(Actors) \in Nat
    BY <2>3, FS_CardinalityType, KeyAuthAssumption
  <2>6. QED
    BY <2>4, <2>5, KeyAuthAssumption DEF RoomCounted
<1>3. CASE act[a].user # u
  <2>1. KeysOf(u)' \subseteq KeysOf(u) /\ Issuers(u)' \subseteq Issuers(u)
    BY <1>1, <1>3 DEF KeysOf, Issuers, Idle
  <2>2. QED
    BY <2>1, RoomKept
<1>4. QED
  BY <1>2, <1>3

LEMMA RoomStep == KAInv /\ [KANext]_kaVars => RoomCounted'
<1> SUFFICES ASSUME KAInv, [KANext]_kaVars, NEW u \in Users
             PROVE  /\ IsFiniteSet(KeysOf(u)')
                    /\ Cardinality(KeysOf(u)') + Cardinality(Issuers(u)')
                          <= Quota + Cardinality(Actors) - 1
  BY DEF RoomCounted
<1>1. CASE KeysOf(u)' \subseteq KeysOf(u) /\ Issuers(u)' \subseteq Issuers(u)
  BY <1>1, RoomKept DEF KAInv
<1>2. ASSUME NEW a \in Actors, NEW v \in Users, IssueCheck(a, v)
      PROVE  KeysOf(u)' \subseteq KeysOf(u) /\ Issuers(u)' \subseteq Issuers(u)
  BY <1>2 DEF IssueCheck, KeysOf, Issuers, KAInv, KATypeInv, KATypeOK, Become
<1>3. ASSUME NEW a \in Actors, NEW k \in Keys, Hit(a, k) \/ Load(a, k)
      PROVE  KeysOf(u)' \subseteq KeysOf(u) /\ Issuers(u)' \subseteq Issuers(u)
  BY <1>3 DEF Hit, Load, KeysOf, Issuers, KAInv, KATypeInv, KATypeOK, Become
<1>4. ASSUME NEW a \in Actors, Save(a)
      PROVE  KeysOf(u)' \subseteq KeysOf(u) /\ Issuers(u)' \subseteq Issuers(u)
  BY <1>4 DEF Save, KeysOf, Issuers, KAInv, KATypeInv, KATypeOK, At, Become, Requests, Idle
<1>5. ASSUME NEW a \in Actors, Leave(a)
      PROVE  KeysOf(u)' \subseteq KeysOf(u) /\ Issuers(u)' \subseteq Issuers(u)
  BY <1>5 DEF Leave, KeysOf, Issuers, KAInv, KATypeInv, KATypeOK, Become, Idle
<1>6. ASSUME NEW k \in Keys, RevokeKey(k) \/ Expires(k)
      PROVE  KeysOf(u)' \subseteq KeysOf(u) /\ Issuers(u)' \subseteq Issuers(u)
  BY <1>6 DEF RevokeKey, Expires, KeysOf, Issuers
<1>7. ASSUME NEW v \in Users, DeleteUser(v)
      PROVE  KeysOf(u)' \subseteq KeysOf(u) /\ Issuers(u)' \subseteq Issuers(u)
  BY <1>7 DEF DeleteUser, KeysOf, Issuers
<1>8. ASSUME UNCHANGED kaVars
      PROVE  KeysOf(u)' \subseteq KeysOf(u) /\ Issuers(u)' \subseteq Issuers(u)
  BY <1>8 DEF kaVars, KeysOf, Issuers
<1>9. QED
  BY <1>1, <1>2, <1>3, <1>4, <1>5, <1>6, <1>7, <1>8, RoomAfterCount, RoomAfterSave DEF KANext

LEMMA KeysCounted == KASpec => []KAInv
<1>1. KAInit => KAInv
  BY TypesStart, RoomStart DEF KAInv
<1>2. KAInv /\ [KANext]_kaVars => KAInv'
  BY TypesStep, RoomStep DEF KAInv
<1>3. QED
  BY <1>1, <1>2, PTL DEF KASpec

\* However many requests issue keys at once, a user ends up with at most one key
\* over the quota for every request beside his own.
THEOREM QuotaOverrun == KASpec => []QuotaOverrunBounded
<1>1. KAInv => QuotaOverrunBounded
  <2> SUFFICES ASSUME KAInv, NEW u \in Users
               PROVE  Cardinality(KeysOf(u)) <= Quota + Cardinality(Actors) - 1
    BY DEF QuotaOverrunBounded
  <2>1. IsFiniteSet(KeysOf(u)) /\ IsFiniteSet(Issuers(u))
    <3>1. Issuers(u) \subseteq Actors
      BY DEF Issuers
    <3>2. QED
      BY <3>1, FS_Subset, KeyAuthAssumption DEF KAInv, RoomCounted
  <2>2. /\ Cardinality(KeysOf(u)) \in Nat /\ Cardinality(Issuers(u)) \in Nat
        /\ Cardinality(Actors) \in Nat
    BY <2>1, FS_CardinalityType, KeyAuthAssumption
  <2>3. QED
    BY <2>2, KeyAuthAssumption DEF KAInv, RoomCounted
<1>2. QED
  BY KeysCounted, <1>1, PTL

------------------------------------------------------------------------------
(* Revocation *)

LEMMA NoCopyMade ==
    ASSUME KATypeInv, KANext, NEW k \in revoked, ~Copied(k) PROVE ~Copied(k)'
<1> USE DEF KATypeInv, KATypeOK, Copied, At, Become, Requests, Idle
<1>1. ASSUME NEW a \in Actors, NEW u \in Users, IssueCheck(a, u) PROVE ~Copied(k)'
  BY <1>1 DEF IssueCheck
<1>2. ASSUME NEW a \in Actors, IssueCount(a) PROVE ~Copied(k)'
  BY <1>2 DEF IssueCount
<1>3. ASSUME NEW a \in Actors, NEW j \in Keys, IssueSave(a, j) \/ Hit(a, j) PROVE ~Copied(k)'
  BY <1>3 DEF IssueSave, Hit
<1>4. ASSUME NEW a \in Actors, NEW j \in Keys, Load(a, j) PROVE ~Copied(k)'
  BY <1>4 DEF Load, Found, Valid
<1>5. ASSUME NEW a \in Actors, Save(a) PROVE ~Copied(k)'
  BY <1>5 DEF Save
<1>6. ASSUME NEW a \in Actors, Leave(a) PROVE ~Copied(k)'
  BY <1>6 DEF Leave
<1>7. ASSUME NEW j \in Keys, RevokeKey(j) \/ Expires(j) PROVE ~Copied(k)'
  BY <1>7 DEF RevokeKey, Expires
<1>8. ASSUME NEW u \in Users, DeleteUser(u) PROVE ~Copied(k)'
  BY <1>8 DEF DeleteUser
<1>9. QED
  BY <1>1, <1>2, <1>3, <1>4, <1>5, <1>6, <1>7, <1>8 DEF KANext

LEMMA NoKeyGained ==
    ASSUME KATypeInv, KANext, NEW u \in Users, ~Issuing(u) PROVE KeysOf(u)' \subseteq KeysOf(u)
<1> USE DEF KATypeInv, KATypeOK, KeysOf
<1>1. ASSUME NEW a \in Actors, NEW k \in Keys, IssueSave(a, k)
      PROVE  KeysOf(u)' \subseteq KeysOf(u)
  <2>1. act[a].user # u /\ owner' = [owner EXCEPT ![k] = act[a].user] /\ revoked' = revoked
    BY <1>1 DEF IssueSave, Issuing, At
  <2>2. QED
    BY <2>1
<1>2. CASE owner' = owner /\ revoked \subseteq revoked'
  BY <1>2
<1>3. QED
  BY <1>1, <1>2 DEF KANext, IssueCheck, IssueCount, Hit, Load, Save, Leave, RevokeKey, Expires, DeleteUser

\* Once its copies are gone, a revoked key stays out and a deleted user gains none.
THEOREM RevocationFinal == KASpec => RevocationSticks
<1>1. KATypeInv /\ [KANext]_kaVars =>
        [/\ \A k \in revoked : ~Copied(k) => ~Copied(k)'
         /\ \A u \in deleted : ~Issuing(u) => KeysOf(u)' \subseteq KeysOf(u)]_kaVars
  <2> SUFFICES ASSUME KATypeInv, KANext
               PROVE  /\ \A k \in revoked : ~Copied(k) => ~Copied(k)'
                      /\ \A u \in deleted : ~Issuing(u) => KeysOf(u)' \subseteq KeysOf(u)
    OBVIOUS
  <2>1. deleted \subseteq Users
    BY DEF KATypeInv, KATypeOK
  <2>2. QED
    BY <2>1, NoCopyMade, NoKeyGained
<1>2. QED
  BY TypesStart, TypesStep, <1>1, PTL DEF KASpec, RevocationSticks
=============================================================================
