-------------------------- MODULE BackgroundProofs --------------------------
(***************************************************************************)
(* Proofs about what an instance does beside its requests: the cron lock   *)
(* (CronLock), the drain (Shutdown), the trigger words an instance follows *)
(* (TriggerSync), what they do to a request (Moderation) and the counting  *)
(* of hits (HitSync), for every value of the constants.                    *)
(***************************************************************************)
EXTENDS CronLock, Shutdown, Triggers, FiniteSetTheorems, SequenceTheorems, TLAPS

-----------------------------------------------------------------------------
(* The cron lock: any number of runs, any ratio of the key's life to the     *)
(* renewal interval, and any limit on failed renewals                        *)

LEMMA CronStart == Init => CronLockInv
BY CronLockAssumption
   DEF Init, CronLockInv, TypeOK, LoopEndsWithRun, LoopBelowLimit, KeyCoversRun, Covered

LEMMA CronStep == CronLockInv /\ [Next]_vars => CronLockInv'
<1> SUFFICES ASSUME CronLockInv, [Next]_vars PROVE CronLockInv'
  OBVIOUS
<1> USE CronLockAssumption
        DEF CronLockInv, TypeOK, LoopEndsWithRun, LoopBelowLimit, KeyCoversRun, Covered
\* A new owner finds the key free, so no run is covered that is not idle.
<1>1. ASSUME NEW r \in Runs, Lock(r)
      PROVE  CronLockInv'
  BY <1>1 DEF Lock
<1>2. ASSUME NEW r \in Runs, LockReplyLost(r)
      PROVE  CronLockInv'
  BY <1>2 DEF LockReplyLost, Fault, loop
<1>3. ASSUME NEW r \in Runs, StopRunning(r)
      PROVE  CronLockInv'
  BY <1>3 DEF StopRunning, key
<1>4. ASSUME NEW r \in Runs, RenewSucceeds(r)
      PROVE  CronLockInv'
  BY <1>4 DEF RenewSucceeds
<1>5. ASSUME NEW r \in Runs, RenewFindsLost(r)
      PROVE  CronLockInv'
  BY <1>5 DEF RenewFindsLost, key
\* The pending renewal becomes a failed one: the bound on the key's life stays.
<1>6. ASSUME NEW r \in Runs, RenewFails(r)
      PROVE  CronLockInv'
  <2>1. /\ TypeOK' /\ LoopEndsWithRun' /\ LoopBelowLimit'
    <3>1. pc[r] = "running" /\ renewing[r]
      BY <1>6 DEF RenewFails
    <3>2. failCount[r] < MaxRenewFailures
      BY <3>1
    <3>3. /\ failCount' = [failCount EXCEPT ![r] = failCount[r] + 1]
          /\ renewing' = [renewing EXCEPT ![r] = failCount[r] + 1 < MaxRenewFailures]
          /\ due' = [due EXCEPT ![r] = FALSE]
          /\ pc' = pc /\ holder' = holder
      BY <1>6 DEF RenewFails, CountFailure
    <3>4. ttl' \in 0 .. TTL /\ faults' \in 0 .. MaxFaults
      BY <1>6 DEF RenewFails, Fault
    <3>5. failCount' \in [Runs -> 0 .. MaxRenewFailures]
      <4>1. failCount[r] + 1 \in 0 .. MaxRenewFailures
        BY <3>2
      <4>2. QED
        BY <3>3, <4>1
    <3>6. renewing' \in [Runs -> BOOLEAN]
      <4>1. (failCount[r] + 1 < MaxRenewFailures) \in BOOLEAN
        OBVIOUS
      <4>2. QED
        BY <3>3, <4>1
    <3>7. LoopEndsWithRun' /\ LoopBelowLimit'
      BY <3>1, <3>2, <3>3
    <3>8. QED
      BY <3>3, <3>4, <3>5, <3>6, <3>7
  <2>2. KeyCoversRun'
    BY <1>6 DEF RenewFails, CountFailure, Fault
  <2>3. QED
    BY <2>1, <2>2
<1>7. CASE Tick
  BY <1>7 DEF Tick
<1>8. CASE Expire
  BY <1>8 DEF Expire, loop
<1>9. CASE UNCHANGED vars
  BY <1>9 DEF vars, key, loop
<1>10. QED
  BY <1>1, <1>2, <1>3, <1>4, <1>5, <1>6, <1>7, <1>8, <1>9 DEF Next

LEMMA CronLockInvariant == Spec => []CronLockInv
BY CronStart, CronStep, PTL DEF Spec

\* Every variable keeps its type, the failure counter its limit.
THEOREM CronTypeCorrect == Spec => []TypeOK
<1>1. CronLockInv => TypeOK
  BY DEF CronLockInv
<1>2. QED
  BY <1>1, CronLockInvariant, PTL

\* Two covered runs would both be the key's owner.
THEOREM CronRunsExclude == Spec => []OneRunUnlessRenewalsFail
<1>1. CronLockInv => OneRunUnlessRenewalsFail
  BY DEF CronLockInv, KeyCoversRun, OneRunUnlessRenewalsFail
<1>2. QED
  BY <1>1, CronLockInvariant, PTL

-----------------------------------------------------------------------------
(* The drain, for every finite set of requests                               *)

TrackedLabels == {"serving", "registered", "storing", "leaving", "added"}
HandlerLabels == {"serving", "registered", "storing", "leaving"}

LEMMA TrackedFinite == IsFiniteSet(Tracked) /\ Cardinality(Tracked) \in Nat
<1>1. Tracked \subseteq Requests
  BY DEF Tracked, InHandler
<1>2. QED
  BY <1>1, ShutdownAssumption, FS_Subset, FS_CardinalityType

\* A request that enters the WaitGroup's care is one more, one that leaves it is
\* one less, and one that moves on either side changes nothing.
LEMMA TrackedStep ==
    ASSUME SDTypeOK, NEW r \in Requests, NEW from, NEW to, Move(r, from, to)
    PROVE  /\ from \notin TrackedLabels /\ to \in TrackedLabels
                => Cardinality(Tracked') = Cardinality(Tracked) + 1
           /\ from \in TrackedLabels /\ to \notin TrackedLabels
                => Cardinality(Tracked') = Cardinality(Tracked) - 1
           /\ (from \in TrackedLabels) = (to \in TrackedLabels)
                => Cardinality(Tracked') = Cardinality(Tracked)
<1>1. req[r] = from /\ \A d \in Requests : req'[d] = IF d = r THEN to ELSE req[d]
  BY DEF SDTypeOK, Move
<1>2. ASSUME from \notin TrackedLabels, to \in TrackedLabels
      PROVE  Cardinality(Tracked') = Cardinality(Tracked) + 1
  <2>1. Tracked' = Tracked \cup {r} /\ r \notin Tracked
    BY <1>1, <1>2 DEF Tracked, InHandler, TrackedLabels
  <2>2. Cardinality(Tracked \cup {r}) = Cardinality(Tracked) + 1
    BY <2>1, TrackedFinite, FS_AddElement
  <2>3. QED
    BY <2>1, <2>2
<1>3. ASSUME from \in TrackedLabels, to \notin TrackedLabels
      PROVE  Cardinality(Tracked') = Cardinality(Tracked) - 1
  <2>1. Tracked' = Tracked \ {r} /\ r \in Tracked
    BY <1>1, <1>3 DEF Tracked, InHandler, TrackedLabels
  <2>2. Cardinality(Tracked \ {r}) = Cardinality(Tracked) - 1
    BY <2>1, TrackedFinite, FS_RemoveElement
  <2>3. QED
    BY <2>1, <2>2
<1>4. ASSUME (from \in TrackedLabels) = (to \in TrackedLabels)
      PROVE  Cardinality(Tracked') = Cardinality(Tracked)
  <2>1. Tracked' = Tracked
    BY <1>1, <1>4 DEF Tracked, InHandler, TrackedLabels
  <2>2. QED
    BY <2>1
<1>5. QED
  BY <1>2, <1>3, <1>4

\* Nobody enters a handler but by the second look of Track.
LEMMA HandlerStep ==
    ASSUME SDTypeOK, NEW r \in Requests, NEW from, NEW to, Move(r, from, to),
           from \in HandlerLabels \/ to \notin HandlerLabels
    PROVE  InHandler = {} => InHandler' = {}
<1>1. req[r] = from /\ \A d \in Requests : req'[d] = IF d = r THEN to ELSE req[d]
  BY DEF SDTypeOK, Move
<1>2. QED
  BY <1>1 DEF InHandler, HandlerLabels

\* An empty WaitGroup has nobody inside.
LEMMA ZeroMeansEmpty ==
    ASSUME wg = Cardinality(Tracked), wg = 0
    PROVE  Tracked = {} /\ InHandler = {}
<1>1. Tracked = {}
  BY TrackedFinite, FS_EmptySet
<1>2. QED
  BY <1>1 DEF Tracked

LEMMA RequestsUnmoved ==
    ASSUME req' = req
    PROVE  Tracked' = Tracked /\ InHandler' = InHandler
BY DEF Tracked, InHandler

ReqLabels == {"idle", "loaded", "added", "rejected", "serving", "registered",
              "storing", "leaving", "streaming", "writing", "done"}

LEMMA MoveTyped ==
    ASSUME SDTypeOK, NEW r \in Requests, NEW from, NEW to \in ReqLabels, Move(r, from, to)
    PROVE  req' \in [Requests -> ReqLabels]
BY DEF SDTypeOK, Move, ReqLabels

\* A request that moves without touching the tracker.
LEMMA QuietMove ==
    ASSUME SDInv, NEW r \in Requests, NEW from, NEW to \in ReqLabels, Move(r, from, to),
           QuietTracker, QuietHooks,
               task' \in [Requests -> {"none", "queued", "stored", "refused"}],
           (from \in TrackedLabels) = (to \in TrackedLabels),
           from \in HandlerLabels \/ to \notin HandlerLabels
    PROVE  SDInv'
<1>1. SDTypeOK'
  BY MoveTyped DEF SDInv, SDTypeOK, QuietTracker, QuietHooks, ReqLabels
<1>2. wg' = Cardinality(Tracked')
  BY TrackedStep DEF SDInv, QuietTracker
<1>3. InHandler = {} => InHandler' = {}
  BY HandlerStep DEF SDInv
<1>4. QED
  BY <1>1, <1>2, <1>3 DEF SDInv, QuietTracker

LEMMA TrackKeepsInv ==
    ASSUME SDInv, NEW r \in Requests, TrackLoad(r) \/ TrackAdd(r) \/ TrackRecheck(r)
    PROVE  SDInv'
<1>1. CASE TrackLoad(r)
  <2>1. PICK to \in {"rejected", "loaded"} : Move(r, "idle", to)
    BY <1>1 DEF TrackLoad
  <2>2. QED
    BY <1>1, <2>1, QuietMove DEF TrackLoad, SDInv, SDTypeOK, TrackedLabels, HandlerLabels,
        ReqLabels
<1>2. CASE TrackAdd(r)
  <2>1. Move(r, "loaded", "added") /\ wg' = wg + 1
        /\ UNCHANGED <<stage, pool, poolLate, draining, waiter, cancelled, drained, task>>
    BY <1>2 DEF TrackAdd, QuietHooks
  <2>2. SDTypeOK'
    BY <2>1, MoveTyped DEF SDInv, SDTypeOK, ReqLabels
  <2>3. wg' = Cardinality(Tracked')
    BY <2>1, TrackedStep DEF SDInv, TrackedLabels
  <2>4. InHandler = {} => InHandler' = {}
    BY <2>1, HandlerStep DEF SDInv, HandlerLabels
  <2>5. QED
    BY <2>1, <2>2, <2>3, <2>4 DEF SDInv
<1>3. CASE TrackRecheck(r) /\ draining
  <2>1. Move(r, "added", "rejected") /\ WgDone
        /\ UNCHANGED <<stage, pool, poolLate, draining, cancelled, drained, task>>
    BY <1>3 DEF TrackRecheck, QuietHooks
  <2>2. Cardinality(Tracked') = Cardinality(Tracked) - 1
    BY <2>1, TrackedStep DEF SDInv, TrackedLabels
  <2>3. wg' = Cardinality(Tracked') /\ wg' \in Nat
    <3>1. r \in Tracked
      BY <2>1 DEF Move, Tracked
    <3>2. Cardinality(Tracked) # 0
      BY <3>1, TrackedFinite, FS_EmptySet
    <3>3. QED
      BY <2>1, <2>2, <3>2, TrackedFinite DEF SDInv, WgDone
  <2>4. /\ waiter' \in {"none", "parked", "released", "returned"}
        /\ (waiter' # "none") = (waiter # "none")
        /\ (waiter' = "returned") = (waiter = "returned")
    BY <2>1 DEF WgDone, SDInv, SDTypeOK
  <2>5. SDTypeOK'
    BY <2>1, <2>3, <2>4, MoveTyped DEF SDInv, SDTypeOK, ReqLabels
  <2>6. InHandler = {} => InHandler' = {}
    BY <2>1, HandlerStep DEF SDInv, HandlerLabels
  <2>7. QED
    BY <2>1, <2>3, <2>4, <2>5, <2>6 DEF SDInv
<1>4. CASE TrackRecheck(r) /\ ~draining
  <2>1. Move(r, "added", "serving")
        /\ UNCHANGED <<stage, pool, poolLate, draining, wg, waiter, cancelled, drained, task>>
    BY <1>4 DEF TrackRecheck, QuietHooks
  <2>2. SDTypeOK'
    BY <2>1, MoveTyped DEF SDInv, SDTypeOK, ReqLabels
  <2>3. wg' = Cardinality(Tracked')
    BY <2>1, TrackedStep DEF SDInv, TrackedLabels
  <2>4. waiter = "none" /\ drained # "all"
    BY <1>4 DEF SDInv
  <2>5. QED
    BY <2>1, <2>2, <2>3, <2>4 DEF SDInv
<1>5. QED
  BY <1>1, <1>2, <1>3, <1>4

LEMMA ServeKeepsInv ==
    ASSUME SDInv, NEW r \in Requests,
           \/ RegisterStream(r) \/ UpstreamEnds(r) \/ UpstreamCancelled(r)
           \/ Submit(r) \/ StoreTask(r)
    PROVE  SDInv'
<1>0. task \in [Requests -> {"none", "queued", "stored", "refused"}]
  BY DEF SDInv, SDTypeOK
<1>1. CASE RegisterStream(r)
  BY <1>0, <1>1, QuietMove DEF RegisterStream, TrackedLabels, HandlerLabels, ReqLabels
<1>2. CASE UpstreamEnds(r) \/ UpstreamCancelled(r)
  BY <1>0, <1>2, QuietMove
     DEF UpstreamEnds, UpstreamCancelled, TrackedLabels, HandlerLabels, ReqLabels
<1>3. CASE Submit(r)
  <2>1. task' \in [Requests -> {"none", "queued", "stored", "refused"}]
    BY <1>0, <1>3 DEF Submit
  <2>2. QED
    BY <2>1, <1>3, QuietMove DEF Submit, TrackedLabels, HandlerLabels, ReqLabels
<1>4. CASE StoreTask(r)
  <2>1. task' \in [Requests -> {"none", "queued", "stored", "refused"}]
    BY <1>0, <1>4 DEF StoreTask
  <2>2. SDTypeOK'
    BY <2>1, <1>4 DEF StoreTask, SDInv, SDTypeOK, QuietTracker, QuietHooks
  <2>3. QED
    BY <2>2, <1>4, RequestsUnmoved DEF StoreTask, SDInv, QuietTracker
<1>5. QED
  BY <1>1, <1>2, <1>3, <1>4

LEMMA UntrackKeepsInv ==
    ASSUME SDInv, NEW r \in Requests, Untrack(r)
    PROVE  SDInv'
<1>1. PICK from \in {"leaving", "registered"}, to \in {"done", "streaming"} : Move(r, from, to)
  BY DEF Untrack
<1>2. WgDone /\ UNCHANGED <<stage, pool, poolLate, draining, cancelled, drained, task>>
  BY DEF Untrack, QuietHooks
<1>3. Cardinality(Tracked') = Cardinality(Tracked) - 1
  BY <1>1, TrackedStep DEF SDInv, TrackedLabels
<1>4. wg' = Cardinality(Tracked') /\ wg' \in Nat
  <2>1. r \in Tracked
    BY <1>1 DEF Move, Tracked, InHandler
  <2>2. Cardinality(Tracked) # 0
    BY <2>1, TrackedFinite, FS_EmptySet
  <2>3. QED
    BY <1>2, <1>3, <2>2, TrackedFinite DEF SDInv, WgDone
<1>5. /\ waiter' \in {"none", "parked", "released", "returned"}
      /\ (waiter' # "none") = (waiter # "none")
      /\ (waiter' = "returned") = (waiter = "returned")
  BY <1>2 DEF WgDone, SDInv, SDTypeOK
<1>6. SDTypeOK'
  BY <1>1, <1>2, <1>4, <1>5, MoveTyped DEF SDInv, SDTypeOK, ReqLabels
<1>7. InHandler = {} => InHandler' = {}
  BY <1>1, HandlerStep DEF SDInv, HandlerLabels
<1>8. QED
  BY <1>2, <1>4, <1>5, <1>6, <1>7 DEF SDInv

\* The drain and the hooks leave the requests where they are; a Wait returns on
\* an empty WaitGroup only.
LEMMA DrainKeepsInv ==
    ASSUME SDInv, Drain \/ HardDeadline \/ Hook \/ UNCHANGED sdVars
    PROVE  SDInv'
<1>1. req' = req /\ wg' = wg /\ task' = task
  BY DEF Drain, DrainStart, WaitCalled, WaitWakes, SoftDeadline, DrainCompletes,
         HardDeadline, Hook, QuietTracker, sdVars
<1>2. Tracked' = Tracked /\ InHandler' = InHandler
  BY <1>1, RequestsUnmoved
<1>3. CASE DrainStart \/ SoftDeadline \/ HardDeadline
  BY <1>1, <1>2, <1>3 DEF DrainStart, SoftDeadline, HardDeadline, SDInv, SDTypeOK, Stages
<1>4. CASE DrainCompletes
  BY <1>1, <1>2, <1>4 DEF DrainCompletes, SDInv, SDTypeOK, Stages
<1>5. CASE WaitCalled \/ WaitWakes
  <2>1. waiter' = "returned" => InHandler = {}
    BY <1>5, ZeroMeansEmpty DEF WaitCalled, WaitWakes, SDInv
  <2>2. SDTypeOK' /\ draining' = draining /\ drained' = drained
    BY <1>1, <1>5 DEF WaitCalled, WaitWakes, SDInv, SDTypeOK, Stages
  <2>3. draining /\ waiter # "returned"
    BY <1>5 DEF WaitCalled, WaitWakes, SDInv
  <2>4. QED
    BY <1>1, <1>2, <2>1, <2>2, <2>3 DEF SDInv
<1>6. CASE Hook \/ UNCHANGED sdVars
  <2>1. UNCHANGED <<draining, waiter, cancelled, drained>>
    BY <1>6 DEF Hook, QuietTracker, sdVars
  <2>2. stage' \in Stages /\ pool' \in BOOLEAN /\ poolLate' \in BOOLEAN
    BY <1>6 DEF Hook, Sigterm, CronStopped, PoolCloses, PoolStops, HttpStops, ProcessEnds,
                sdVars, SDInv, SDTypeOK, Stages
  <2>3. QED
    BY <1>1, <1>2, <2>1, <2>2 DEF SDInv, SDTypeOK
<1>7. QED
  BY <1>3, <1>4, <1>5, <1>6 DEF Drain

\* The invariant of the drain: the WaitGroup's counter is the number of requests
\* between Track and Untrack, through every interleaving of the two looks.
THEOREM DrainInvariant == SDSpec => []SDInv
<1>1. SDInit => SDInv
  <2>1. SDInit => Tracked = {}
    BY DEF SDInit, Tracked, InHandler
  <2>2. Cardinality({}) = 0
    BY FS_EmptySet, Zenon
  <2>3. SDInit => wg = Cardinality(Tracked)
    BY <2>1, <2>2 DEF SDInit
  <2>4. SDInit => SDTypeOK
    <3> SUFFICES ASSUME SDInit PROVE SDTypeOK
      OBVIOUS
    <3>1. req \in [Requests -> {"idle", "loaded", "added", "rejected", "serving", "registered",
                                "storing", "leaving", "streaming", "writing", "done"}]
      BY DEF SDInit
    <3>2. task \in [Requests -> {"none", "queued", "stored", "refused"}]
      BY DEF SDInit
    <3>3. /\ stage \in Stages /\ draining \in BOOLEAN /\ wg \in Nat
          /\ waiter \in {"none", "parked", "released", "returned"}
          /\ cancelled \in BOOLEAN /\ drained \in {"no", "all", "gaveUp"}
          /\ pool \in BOOLEAN /\ poolLate \in BOOLEAN
      BY DEF SDInit, Stages
    <3>4. QED
      BY <3>1, <3>2, <3>3 DEF SDTypeOK
  <2>5. QED
    BY <2>3, <2>4 DEF SDInit, SDInv
<1>2. SDInv /\ [SDNext]_sdVars => SDInv'
  <2> SUFFICES ASSUME SDInv, [SDNext]_sdVars PROVE SDInv'
    OBVIOUS
  <2>1. ASSUME NEW r \in Requests, Request(r) PROVE SDInv'
    BY <2>1, TrackKeepsInv, ServeKeepsInv, UntrackKeepsInv DEF Request
  <2>2. CASE Drain \/ HardDeadline \/ Hook \/ UNCHANGED sdVars
    BY <2>2, DrainKeepsInv
  <2>3. QED
    BY <2>1, <2>2 DEF SDNext
<1>3. QED
  BY <1>1, <1>2, PTL DEF SDSpec

\* A drain that reported success left nobody inside a handler.
THEOREM DrainSound == SDSpec => []DrainedMeansHandlersLeft
<1>1. SDInv => DrainedMeansHandlersLeft
  BY DEF SDInv, DrainedMeansHandlersLeft
<1>2. QED
  BY <1>1, DrainInvariant, PTL

\* Nothing a handler submits finds the pool closed before the drain has ended.
LEMMA RefusalStep == SDInv /\ SDRefusalInv /\ [SDNext]_sdVars => SDRefusalInv'
<1> SUFFICES ASSUME SDInv, SDRefusalInv, [SDNext]_sdVars PROVE SDRefusalInv'
  OBVIOUS
<1> USE DEF SDInv, SDTypeOK, SDRefusalInv, RefusedOnlyPastDeadline
<1>1. ASSUME NEW r \in Requests, Submit(r) PROVE SDRefusalInv'
  <2>1. r \notin Streams /\ ~pool => drained = "gaveUp"
    <3>1. r \notin Streams => r \in InHandler
      BY <1>1 DEF Submit, Move, InHandler
    <3>2. QED
      BY <3>1
  <2>2. UNCHANGED <<stage, drained, pool>>
    BY <1>1 DEF Submit, QuietTracker, QuietHooks
  <2>3. \A d \in Requests : req'[d] = req[d] \/ req'[d] \in {"leaving", "done"}
    BY <1>1 DEF Submit, Move
  <2>4. \A d \in Requests : task'[d] = task[d] \/ (d = r /\ (task'[d] = "refused" => ~pool))
    BY <1>1 DEF Submit
  <2>5. QED
    BY <2>1, <2>2, <2>3, <2>4
<1>2. ASSUME NEW r \in Requests, StoreTask(r) PROVE SDRefusalInv'
  BY <1>2 DEF StoreTask, QuietTracker, QuietHooks
<1>3. ASSUME NEW r \in Requests,
             \/ TrackLoad(r) \/ TrackAdd(r) \/ TrackRecheck(r) \/ RegisterStream(r)
             \/ UpstreamEnds(r) \/ UpstreamCancelled(r) \/ Untrack(r)
      PROVE  SDRefusalInv'
  <2>1. UNCHANGED <<stage, drained, pool, task>>
    BY <1>3 DEF TrackLoad, TrackAdd, TrackRecheck, RegisterStream, UpstreamEnds,
                UpstreamCancelled, Untrack, QuietTracker, QuietHooks
  <2>2. PICK from, to : Move(r, from, to) /\ (to = "registered" => r \in Streams)
                        /\ (to = "streaming" => from = "registered")
                        /\ (to = "writing" => from = "streaming")
    BY <1>3 DEF TrackLoad, TrackAdd, TrackRecheck, RegisterStream, UpstreamEnds,
                UpstreamCancelled, Untrack
  <2>3. QED
    BY <2>1, <2>2 DEF Move
<1>4. CASE Drain \/ HardDeadline
  BY <1>4 DEF Drain, DrainStart, WaitCalled, WaitWakes, SoftDeadline, DrainCompletes, HardDeadline
<1>5. CASE Hook
  BY <1>5 DEF Hook, Sigterm, CronStopped, PoolCloses, PoolStops, HttpStops, ProcessEnds,
              QuietTracker
<1>6. CASE UNCHANGED sdVars
  BY <1>6 DEF sdVars
<1>7. QED
  BY <1>1, <1>2, <1>3, <1>4, <1>5, <1>6 DEF SDNext, Request

\* What a handler submits is refused only when the hard deadline had cut the
\* drain short: the pool's hook never overtakes the drain's.
THEOREM RefusalsPastDeadline == SDSpec => []RefusedOnlyPastDeadline
<1>1. SDInit => SDRefusalInv
  BY DEF SDInit, SDRefusalInv, RefusedOnlyPastDeadline
<1>2. SDRefusalInv => RefusedOnlyPastDeadline
  BY DEF SDRefusalInv
<1>3. QED
  BY <1>1, <1>2, RefusalStep, DrainInvariant, PTL DEF SDSpec

-----------------------------------------------------------------------------
(* The trigger words, for any instances, changes and faults                  *)

\* One more INCR leaves what was counted before at its version.
LEMMA BumpKept ==
    ASSUME bumped \in Seq(Nat), NEW c \in Nat, bumped' = Append(bumped, c)
    PROVE  /\ bumped' \in Seq(Nat) /\ Sync!Version' = Sync!Version + 1 /\ Sync!Version \in Nat
           /\ \A v \in 1..Sync!Version : bumped'[v] = bumped[v]
           /\ bumped'[Sync!Version + 1] = c
BY AppendProperties, LenProperties DEF Sync!Version

\* A rebuild replaces one matcher by the words, or leaves all as they are.
LEMMA RebuildTyped ==
    ASSUME Sync!TypeOK, NEW p \in Pods, Sync!Rebuilt(p) \/ Sync!RebuildFails
    PROVE  matcher' \in [Pods -> Nat] /\ syncFaults' \in Nat
<1>1. words \in Nat /\ matcher \in [Pods -> Nat] /\ syncFaults \in Nat
  BY DEF Sync!TypeOK
<1>2. CASE Sync!Rebuilt(p)
  BY <1>1, <1>2 DEF Sync!Rebuilt
<1>3. CASE Sync!RebuildFails
  BY <1>1, <1>3 DEF Sync!RebuildFails, Sync!Fault
<1>4. QED
  BY <1>2, <1>3

\* A handler that goes on keeps its change.
LEMMA GotoKeeps ==
    ASSUME Sync!TypeOK, NEW p \in Pods, NEW step \in {"idle", "rebuild", "publish", "bump"},
           Sync!Goto(p, step)
    PROVE  /\ handler' \in [Pods -> [step : {"idle", "rebuild", "publish", "bump"}, change : Nat]]
           /\ \A q \in Pods : handler'[q].change = handler[q].change
BY DEF Sync!TypeOK, Sync!Goto

\* Every variable of the trigger words keeps its type.
LEMMA SyncTypeCorrect == Sync!Spec => []Sync!TypeOK
<1> USE DEF Sync!TypeOK, Sync!At, Sync!Goto, Sync!Idle, Sync!None
<1>1. Sync!Init => Sync!TypeOK
  BY EmptySeq DEF Sync!Init
<1>2. Sync!TypeOK /\ [Sync!Next]_Sync!vars => Sync!TypeOK'
  <2> SUFFICES ASSUME Sync!TypeOK, [Sync!Next]_Sync!vars PROVE Sync!TypeOK'
    OBVIOUS
  <2>1. ASSUME NEW p \in Pods, Sync!Change(p) PROVE Sync!TypeOK'
    BY <2>1 DEF Sync!Change
  <2>2. ASSUME NEW p \in Pods, Sync!RebuildOwn(p) PROVE Sync!TypeOK'
    <3>1. handler' \in [Pods -> [step : {"idle", "rebuild", "publish", "bump"}, change : Nat]]
      BY <2>2, GotoKeeps DEF Sync!RebuildOwn
    <3>2. QED
      BY <2>2, <3>1, RebuildTyped DEF Sync!RebuildOwn
  <2>3. ASSUME NEW p \in Pods, Sync!Publish(p) PROVE Sync!TypeOK'
    <3>1. notice' \in [Pods -> BOOLEAN]
      BY <2>3, Zenon DEF Sync!Publish
    <3>2. handler' \in [Pods -> [step : {"idle", "rebuild", "publish", "bump"}, change : Nat]]
      BY <2>3 DEF Sync!Publish
    <3>3. QED
      BY <2>3, <3>1, <3>2 DEF Sync!Publish, Sync!Fault
  <2>4. ASSUME NEW p \in Pods, Sync!Bump(p) PROVE Sync!TypeOK'
    <3>1. bumped' \in Seq(Nat)
      BY <2>4, BumpKept DEF Sync!Bump
    <3>2. QED
      BY <2>4, <3>1 DEF Sync!Bump, Sync!Fault
  <2>5. ASSUME NEW p \in Pods, Sync!Load(p) \/ Sync!StartSync(p) PROVE Sync!TypeOK'
    BY <2>5, RebuildTyped DEF Sync!Load, Sync!StartSync
  <2>6. ASSUME NEW p \in Pods, Sync!HearNotice(p) PROVE Sync!TypeOK'
    BY <2>6, RebuildTyped DEF Sync!HearNotice
  <2>7. ASSUME NEW p \in Pods, Sync!PollVersion(p) PROVE Sync!TypeOK'
    BY <2>7, LenProperties DEF Sync!PollVersion, Sync!Version
  <2>8. ASSUME NEW p \in Pods, Sync!FollowVersion(p) PROVE Sync!TypeOK'
    BY <2>8, RebuildTyped DEF Sync!FollowVersion
  <2>9. ASSUME NEW p \in Pods, Sync!RebuildAnyway(p) \/ Sync!StartContextEnds(p)
        PROVE Sync!TypeOK'
    BY <2>9, RebuildTyped DEF Sync!RebuildAnyway, Sync!StartContextEnds
  <2>10. CASE UNCHANGED Sync!vars
    BY <2>10 DEF Sync!vars
  <2>11. QED
    BY <2>1, <2>2, <2>3, <2>4, <2>5, <2>6, <2>7, <2>8, <2>9, <2>10 DEF Sync!Next, Sync!Request, Sync!Tell,
        Sync!Follow
<1>3. QED
  BY <1>1, <1>2, PTL DEF Sync!Spec

\* Whatever a rebuild reads is at least as new as what was matched and counted.
LEMMA CursorStep ==
    ASSUME Sync!TypeOK, Sync!NothingAhead, Sync!CursorCovered, [Sync!Next]_Sync!vars
    PROVE  Sync!NothingAhead' /\ Sync!CursorCovered'
<1> DEFINE Goal == Sync!NothingAhead /\ Sync!CursorCovered
<1>1. /\ words \in Nat /\ Sync!Version \in Nat /\ bumped \in Seq(Nat)
      /\ \A v \in 1..Sync!Version : bumped[v] \in Nat /\ bumped[v] <= words
  BY LenProperties, ElementOfSeq DEF Sync!TypeOK, Sync!NothingAhead, Sync!Version
<1>2. \A q \in Pods : /\ matcher[q] \in Nat /\ matcher[q] <= words
                      /\ handler[q].change \in Nat /\ handler[q].change <= words
                      /\ seen[q] \in Nat /\ seen[q] <= Sync!Version
                      /\ poll[q] \in Nat \cup {-1} /\ poll[q] <= Sync!Version
  BY DEF Sync!TypeOK, Sync!NothingAhead, Sync!None
<1>3. \A q \in Pods : \A v \in 1..seen[q] : bumped[v] <= matcher[q]
  BY DEF Sync!CursorCovered
\* An instance that rebuilds or keeps its matcher, and moves no cursor.
<1>4. ASSUME NEW p \in Pods, Sync!Rebuilt(p) \/ UNCHANGED matcher,
             UNCHANGED <<words, bumped, seen>>,
             \A q \in Pods : handler'[q].change = handler[q].change,
             \A q \in Pods : poll'[q] = poll[q] \/ poll'[q] = -1 \/ poll'[q] = Sync!Version
      PROVE  Goal'
  <2>1. \A q \in Pods : matcher'[q] = words \/ matcher'[q] = matcher[q]
    BY <1>4 DEF Sync!Rebuilt, Sync!TypeOK
  <2>2. Sync!Version' = Sync!Version
    BY <1>4 DEF Sync!Version
  <2>3. Sync!NothingAhead'
    BY <1>1, <1>2, <1>4, <2>1, <2>2 DEF Sync!NothingAhead
  <2>4. Sync!CursorCovered'
    BY <1>1, <1>2, <1>3, <1>4, <2>1, <2>2 DEF Sync!CursorCovered
  <2>5. QED
    BY <2>3, <2>4
<1>5. ASSUME NEW p \in Pods, Sync!Change(p) PROVE Goal'
  <2>1. words' = words + 1 /\ Sync!Version' = Sync!Version /\ UNCHANGED <<bumped, matcher, seen, poll>>
    BY <1>5 DEF Sync!Change, Sync!Version
  <2>2. \A q \in Pods : handler'[q].change = handler[q].change \/ handler'[q].change = words + 1
    BY <1>5 DEF Sync!Change, Sync!TypeOK
  <2>3. Sync!NothingAhead'
    BY <1>1, <1>2, <2>1, <2>2 DEF Sync!NothingAhead
  <2>4. Sync!CursorCovered'
    BY <1>2, <1>3, <2>1 DEF Sync!CursorCovered
  <2>5. QED
    BY <2>3, <2>4
<1>6. ASSUME NEW p \in Pods, Sync!Bump(p) PROVE Goal'
  <2>1. UNCHANGED <<words, matcher, seen, poll>>
    BY <1>6 DEF Sync!Bump
  <2>2. \A q \in Pods : handler'[q].change = handler[q].change \/ handler'[q].change = 0
    BY <1>6 DEF Sync!Bump, Sync!TypeOK, Sync!Idle
  <2>3. CASE bumped' = bumped
    <3>1. Sync!Version' = Sync!Version
      BY <2>3 DEF Sync!Version
    <3>2. QED
      BY <1>1, <1>2, <1>3, <2>1, <2>2, <2>3, <3>1 DEF Sync!NothingAhead, Sync!CursorCovered
  <2>4. CASE bumped' = Append(bumped, handler[p].change)
    <3>1. /\ Sync!Version' = Sync!Version + 1
          /\ \A v \in 1..Sync!Version : bumped'[v] = bumped[v]
          /\ bumped'[Sync!Version + 1] = handler[p].change
      BY <1>1, <1>2, <2>4, BumpKept
    <3>2. \A v \in 1..Sync!Version' : bumped'[v] <= words
      <4>1. ASSUME NEW v \in 1..Sync!Version' PROVE bumped'[v] <= words
        <5>1. v \in 1..Sync!Version \/ v = Sync!Version + 1
          BY <1>1, <3>1
        <5>2. QED
          BY <1>1, <1>2, <3>1, <5>1
      <4>2. QED
        BY <4>1
    <3>3. Sync!NothingAhead'
      <4>1. ASSUME NEW q \in Pods
            PROVE  /\ matcher'[q] <= words' /\ handler'[q].change <= words'
                   /\ seen'[q] <= Sync!Version' /\ poll'[q] <= Sync!Version'
        <5>1. matcher'[q] <= words' /\ handler'[q].change <= words'
          BY <1>1, <1>2, <2>1, <2>2
        <5>2. seen'[q] <= Sync!Version' /\ poll'[q] <= Sync!Version'
          BY <1>1, <1>2, <2>1, <3>1
        <5>3. QED
          BY <5>1, <5>2
      <4>2. QED
        BY <2>1, <3>2, <4>1 DEF Sync!NothingAhead
    <3>4. Sync!CursorCovered'
      BY <1>1, <1>2, <1>3, <2>1, <3>1 DEF Sync!CursorCovered
    <3>5. QED
      BY <3>3, <3>4
  <2>5. QED
    BY <1>6, <2>3, <2>4 DEF Sync!Bump
<1>7. ASSUME NEW p \in Pods,
             \/ Sync!RebuildOwn(p) \/ Sync!Publish(p) \/ Sync!Load(p) \/ Sync!StartSync(p)
             \/ Sync!HearNotice(p) \/ Sync!RebuildAnyway(p) \/ Sync!StartContextEnds(p)
      PROVE  Goal'
  <2> USE DEF Sync!RebuildOwn, Sync!Publish, Sync!Load, Sync!StartSync, Sync!HearNotice,
      Sync!RebuildAnyway, Sync!StartContextEnds
  <2>1. Sync!Rebuilt(p) \/ UNCHANGED matcher
    BY <1>7 DEF Sync!RebuildFails
  <2>2. UNCHANGED <<words, bumped, seen, poll>>
    BY <1>7
  <2>3. \A q \in Pods : handler'[q].change = handler[q].change
    <3>1. CASE Sync!RebuildOwn(p) \/ Sync!Publish(p)
      BY <3>1, GotoKeeps
    <3>2. CASE ~(Sync!RebuildOwn(p) \/ Sync!Publish(p))
      BY <1>7, <3>2
    <3>3. QED
      BY <3>1, <3>2
  <2>4. QED
    BY <1>4, <2>1, <2>2, <2>3
<1>8. ASSUME NEW p \in Pods, Sync!PollVersion(p) PROVE Goal'
  <2>1. \A q \in Pods : poll'[q] = poll[q] \/ poll'[q] = Sync!Version
    BY <1>8 DEF Sync!PollVersion, Sync!TypeOK
  <2>2. QED
    BY <1>4, <1>8, <2>1 DEF Sync!PollVersion
<1>9. ASSUME NEW p \in Pods, Sync!FollowVersion(p) PROVE Goal'
  <2>1. UNCHANGED <<words, bumped, handler>>
    BY <1>9 DEF Sync!FollowVersion
  <2>2. \A q \in Pods : poll'[q] = poll[q] \/ poll'[q] = -1
    BY <1>9 DEF Sync!FollowVersion, Sync!TypeOK, Sync!None
  <2>3. CASE UNCHANGED seen
    <3>1. Sync!Rebuilt(p) \/ UNCHANGED matcher
      BY <1>9 DEF Sync!FollowVersion, Sync!RebuildFails
    <3>2. QED
      BY <1>4, <2>1, <2>2, <2>3, <3>1
  <2>4. CASE Sync!Rebuilt(p) /\ seen' = [seen EXCEPT ![p] = poll[p]] /\ poll[p] # -1
    <3>1. \A q \in Pods \ {p} : matcher'[q] = matcher[q] /\ seen'[q] = seen[q]
      BY <2>4 DEF Sync!Rebuilt, Sync!TypeOK
    <3>2. matcher'[p] = words /\ seen'[p] = poll[p] /\ Sync!Version' = Sync!Version
      BY <2>1, <2>4 DEF Sync!Rebuilt, Sync!TypeOK, Sync!Version
    <3>3. Sync!NothingAhead'
      BY <1>1, <1>2, <2>1, <2>2, <3>1, <3>2 DEF Sync!NothingAhead
    <3>4. Sync!CursorCovered'
      BY <1>1, <1>2, <1>3, <2>1, <3>1, <3>2 DEF Sync!CursorCovered
    <3>5. QED
      BY <3>3, <3>4
  <2>5. QED
    BY <1>9, <2>3, <2>4 DEF Sync!FollowVersion, Sync!None
<1>10. CASE UNCHANGED Sync!vars
  BY <1>10 DEF Sync!vars, Sync!Version, Sync!NothingAhead, Sync!CursorCovered
<1>11. QED
  BY <1>5, <1>6, <1>7, <1>8, <1>9, <1>10 DEF Sync!Next, Sync!Request, Sync!Tell, Sync!Follow

\* A version an instance has acknowledged is in its matcher, however requests
\* commit, count and publish: the cursor is never ahead of what was rebuilt.
THEOREM CursorSound == Sync!Spec => []CursorCovered
<1>1. Sync!Init => Sync!NothingAhead /\ Sync!CursorCovered
  BY EmptySeq DEF Sync!Init, Sync!NothingAhead, Sync!CursorCovered, Sync!Version, Sync!Idle,
      Sync!None
<1>2. Sync!TypeOK /\ (Sync!NothingAhead /\ Sync!CursorCovered) /\ [Sync!Next]_Sync!vars
        => (Sync!NothingAhead /\ Sync!CursorCovered)'
  BY CursorStep
<1>3. QED
  BY <1>1, <1>2, SyncTypeCorrect, PTL DEF Sync!Spec, CursorCovered

-----------------------------------------------------------------------------
(* The hit counters, for any words, hits and faults                          *)

HitInv == Hits!TypeOK /\ Hits!CountsInHand /\ Hits!HitsConserved

\* Every step of the job and every hit keeps each word's balance.
LEMMA HitStep == HitInv /\ [Hits!Next]_Hits!vars => HitInv'
<1> SUFFICES ASSUME HitInv, [Hits!Next]_Hits!vars PROVE HitInv'
  OBVIOUS
<1> USE DEF HitInv, Hits!TypeOK, Hits!CountsInHand, Hits!HitsConserved, Hits!Zero, Hits!Fails
<1>1. ASSUME NEW ws \in SUBSET Words \ {{}}, Hits!Hit(ws) PROVE HitInv'
  <2>1. \A w \in Words : /\ w \in ws => counted'[w] = counted[w] + 1 /\ redis'[w] = redis[w] + 1
                         /\ w \notin ws => counted'[w] = counted[w] /\ redis'[w] = redis[w]
    BY <1>1 DEF Hits!Hit
  <2>2. Hits!TypeOK'
    BY <1>1 DEF Hits!Hit
  <2>3. UNCHANGED <<rows, job, keys, popped, hitFaults>>
    BY <1>1 DEF Hits!Hit
  <2>4. raced' <=> (raced \/ (job = "delete" /\ ws \cap keys # {}))
    BY <1>1 DEF Hits!Hit
  <2>5. Hits!CountsInHand'
    BY <2>1, <2>3, <2>4
  <2>6. Hits!HitsConserved'
    BY <2>1, <2>3, <2>4
  <2>7. QED
    BY <2>2, <2>5, <2>6
<1>2. CASE Hits!Scan
  BY <1>2 DEF Hits!Scan, Hits!Found
<1>3. CASE Hits!Read
  <2>1. \A w \in Words : popped'[w] = IF w \in keys THEN redis[w] ELSE 0
    BY <1>3 DEF Hits!Read
  <2>2. QED
    BY <1>3, <2>1 DEF Hits!Read
<1>4. CASE Hits!Delete
  <2>1. CASE redis' = [w \in Words |-> IF w \in keys THEN 0 ELSE redis[w]] /\ UNCHANGED hitFaults
    <3>1. \A w \in Words : redis'[w] = IF w \in keys THEN 0 ELSE redis[w]
      BY <2>1
    <3>2. QED
      BY <1>4, <2>1, <3>1 DEF Hits!Delete
  <2>2. CASE Hits!Fails("delete") /\ UNCHANGED redis
    BY <1>4, <2>2 DEF Hits!Delete
  <2>3. QED
    BY <1>4, <2>1, <2>2 DEF Hits!Delete
<1>5. ASSUME NEW w \in Words, Hits!Write(w) PROVE HitInv'
  <2>1. /\ rows'[w] = rows[w] + popped[w] /\ popped'[w] = 0
        /\ \A v \in Words \ {w} : rows'[v] = rows[v] /\ popped'[v] = popped[v]
    BY <1>5 DEF Hits!Write
  <2>2. Hits!TypeOK' /\ UNCHANGED <<counted, redis, job, keys, raced, hitFaults>> /\ job = "write"
    BY <1>5 DEF Hits!Write
  <2>3. QED
    BY <2>1, <2>2
<1>6. CASE Hits!Finish
  <2>1. Hits!TypeOK' /\ \A w \in Words : popped'[w] = 0
    BY <1>6 DEF Hits!Finish
  <2>2. QED
    BY <1>6, <2>1 DEF Hits!Finish
<1>7. CASE Hits!Crash
  <2>1. Hits!TypeOK' /\ \A w \in Words : popped'[w] = 0
    BY <1>7 DEF Hits!Crash
  <2>2. QED
    BY <1>7, <2>1 DEF Hits!Crash
<1>8. CASE UNCHANGED Hits!vars
  BY <1>8 DEF Hits!vars
<1>9. QED
  BY <1>1, <1>2, <1>3, <1>4, <1>5, <1>6, <1>7, <1>8 DEF Hits!Next

\* A hit is never counted twice unless a DEL failed unnoticed, and lost only to a
\* failed write, a crash or a race with the DEL: for any words, hits and faults.
THEOREM HitsBalance == Hits!Spec => []HitsConserved
<1>1. Hits!Init => HitInv
  <2> SUFFICES ASSUME Hits!Init PROVE HitInv
    OBVIOUS
  <2>1. \A w \in Words : counted[w] = 0 /\ redis[w] = 0 /\ rows[w] = 0 /\ popped[w] = 0
    BY DEF Hits!Init, Hits!Zero
  <2>2. Hits!TypeOK
    BY DEF Hits!Init, Hits!Zero, Hits!TypeOK
  <2>3. Hits!CountsInHand /\ Hits!HitsConserved
    BY <2>1 DEF Hits!Init, Hits!CountsInHand, Hits!HitsConserved
  <2>4. QED
    BY <2>2, <2>3 DEF HitInv
<1>2. HitInv => Hits!HitsConserved
  BY DEF HitInv
<1>3. QED
  BY <1>1, <1>2, HitStep, PTL DEF Hits!Spec, HitsConserved

-----------------------------------------------------------------------------
(* What the words do to a request, for any requests, words and rebuilds      *)

\* A request that is given a record of its type keeps all types.
LEMMA BecomeTyped ==
    ASSUME Texts!TypeOK, NEW r \in Checked, NEW with \in Texts!Progress, Texts!Become(r, with)
    PROVE  Texts!TypeOK'
BY DEF Texts!TypeOK, Texts!Become

\* The record of a request, with some of its fields set.
LEMMA ProgressSet ==
    ASSUME NEW at \in Texts!Progress,
           NEW place \in {"refused", "captured", "forwarded", "capture",
                          "question", "aside", "asideCaptures", "omit"},
           NEW captures \in SUBSET Vocabulary, NEW flag \in BOOLEAN,
           NEW remark \in {"none", "deny", "capture"}
    PROVE  /\ [at EXCEPT !.pc = place] \in Texts!Progress
           /\ [at EXCEPT !.pc = place, !.captures = captures] \in Texts!Progress
           /\ [at EXCEPT !.pc = place, !.remark = remark] \in Texts!Progress
           /\ [at EXCEPT !.pc = place, !.skip = flag] \in Texts!Progress
BY DEF Texts!Progress

\* Every variable of the moderation keeps its type.
LEMMA TextsTypeCorrect == Texts!Spec => []Texts!TypeOK
<1>1. Texts!Init => Texts!TypeOK
  BY DEF Texts!Init, Texts!TypeOK, Texts!Fresh, Texts!Effects, Texts!Progress, Texts!Kinds
<1>2. Texts!TypeOK /\ [Texts!Next]_Texts!vars => Texts!TypeOK'
  <2> SUFFICES ASSUME Texts!TypeOK, [Texts!Next]_Texts!vars PROVE Texts!TypeOK'
    OBVIOUS
  <2>0. \A r \in Checked : checking[r] \in Texts!Progress
    BY DEF Texts!TypeOK
  <2>1. ASSUME NEW r \in Checked, Texts!CheckContent(r) PROVE Texts!TypeOK'
    <3>1. PICK kind \in Texts!Kinds, text \in SUBSET Vocabulary, question \in SUBSET Vocabulary :
             /\ checking' = [checking EXCEPT ![r] = [Texts!Fresh EXCEPT
                   !.pc = IF Texts!Check(text) = {} THEN "forwarded" ELSE "deny",
                   !.kind = kind, !.text = text, !.question = question,
                   !.matched = Texts!Check(text)]]
             /\ steady' = [steady EXCEPT ![r] = Vocabulary]
             /\ UNCHANGED <<loaded, rebuilds>>
      BY <2>1 DEF Texts!CheckContent
    <3>2. Texts!Check(text) \in SUBSET Vocabulary /\ question \in SUBSET Vocabulary
      BY DEF Texts!Check
    <3>3. [Texts!Fresh EXCEPT !.pc = IF Texts!Check(text) = {} THEN "forwarded" ELSE "deny",
                        !.kind = kind, !.text = text, !.question = question,
                        !.matched = Texts!Check(text)]
          \in Texts!Progress
      BY <3>2 DEF Texts!Fresh, Texts!Progress
    <3>4. QED
      BY <3>1, <3>3 DEF Texts!TypeOK
  <2>2. ASSUME NEW r \in Checked, Texts!Deny(r) PROVE Texts!TypeOK'
    <3> DEFINE on == IF checking[r].kind = "decision" THEN "omit" ELSE "capture"
    <3>1. \/ Texts!Become(r, [checking[r] EXCEPT !.pc = "refused", !.remark = "deny"])
          \/ Texts!Become(r, [checking[r] EXCEPT !.pc = on])
      BY <2>2 DEF Texts!Deny, Texts!Goto
    <3>2. on \in {"omit", "capture"}
      OBVIOUS
    <3> HIDE DEF on
    <3>3. QED
      BY <2>0, <3>1, <3>2, ProgressSet, BecomeTyped
  <2>3. ASSUME NEW r \in Checked, Texts!Captures(r) PROVE Texts!TypeOK'
    <3>1. Texts!CaptureIDs(checking[r].matched) \in SUBSET Vocabulary
      BY <2>0 DEF Texts!CaptureIDs, Texts!Progress
    <3>2. QED
      BY <2>0, <2>3, <3>1, ProgressSet, BecomeTyped DEF Texts!Captures
  <2>4. ASSUME NEW r \in Checked, Texts!LastQuestion(r) PROVE Texts!TypeOK'
    <3> DEFINE hit == Texts!Check(checking[r].question) \cap checking[r].captures # {}
               remark == IF hit THEN "capture" ELSE "none"
    <3>1. remark \in {"none", "deny", "capture"}
      OBVIOUS
    <3>2. Texts!Become(r, [checking[r] EXCEPT !.pc = IF hit THEN "captured" ELSE "aside", !.remark = remark])
      BY <2>4 DEF Texts!LastQuestion
    <3> HIDE DEF hit, remark
    <3>3. QED
      BY <2>0, <3>1, <3>2, ProgressSet, BecomeTyped
  <2>5. ASSUME NEW r \in Checked, Texts!AsideOmits(r) PROVE Texts!TypeOK'
    BY <2>0, <2>5, ProgressSet, BecomeTyped DEF Texts!AsideOmits, Texts!Goto
  <2>6. ASSUME NEW r \in Checked, Texts!AsideCaptures(r) PROVE Texts!TypeOK'
    <3> DEFINE remark == IF checking[r].kind = "asked" /\ Texts!CaptureIDs(checking[r].matched) # {}
                         THEN "capture" ELSE "none"
    <3>1. /\ remark \in {"none", "deny", "capture"}
          /\ Texts!Become(r, [checking[r] EXCEPT !.pc = "omit", !.remark = remark])
      BY <2>6 DEF Texts!AsideCaptures
    <3> HIDE DEF remark
    <3>2. QED
      BY <2>0, <3>1, ProgressSet, BecomeTyped
  <2>7. ASSUME NEW r \in Checked, Texts!Omit(r) PROVE Texts!TypeOK'
    <3> DEFINE found == Texts!OmitIDs(checking[r].matched) # {}
    <3>1. found \in BOOLEAN /\ Texts!Become(r, [checking[r] EXCEPT !.pc = "forwarded", !.skip = found])
      BY <2>7 DEF Texts!Omit
    <3> HIDE DEF found
    <3>2. QED
      BY <2>0, <3>1, ProgressSet, BecomeTyped
  <2>8. ASSUME NEW r \in Checked, Texts!NextRequest(r) PROVE Texts!TypeOK'
    <3>1. Texts!Fresh \in Texts!Progress
      BY DEF Texts!Fresh, Texts!Progress, Texts!Kinds
    <3>2. QED
      BY <2>8, <3>1 DEF Texts!NextRequest, Texts!TypeOK
  <2>9. CASE Texts!Rebuild
    BY <2>9 DEF Texts!Rebuild, Texts!TypeOK
  <2>10. CASE UNCHANGED Texts!vars
    BY <2>10 DEF Texts!vars, Texts!TypeOK
  <2>11. QED
    BY <2>1, <2>2, <2>3, <2>4, <2>5, <2>6, <2>7, <2>8, <2>9, <2>10 DEF Texts!Next
<1>3. QED
  BY <1>1, <1>2, PTL DEF Texts!Spec

\* A question asked of the matcher moves the request and leaves alone what was
\* matched, what its last question holds, and the words.
Asked(r, place) ==
    /\ checking'[r].pc = place
    /\ checking'[r].matched = checking[r].matched
    /\ checking'[r].question = checking[r].question
    /\ checking'[r].kind = checking[r].kind
    /\ UNCHANGED <<steady, loaded>>

LEMMA AskedOnly ==
    ASSUME Texts!TypeOK, NEW r \in Checked, NEW place,
           Texts!Become(r, [checking[r] EXCEPT !.pc = place])
    PROVE  Asked(r, place)
BY DEF Texts!Become, Texts!TypeOK, Texts!Progress, Asked

LEMMA AskedWords ==
    ASSUME Texts!TypeOK, NEW r \in Checked, NEW place, NEW kept,
           Texts!Become(r, [checking[r] EXCEPT !.pc = place, !.captures = kept])
    PROVE  Asked(r, place) /\ checking'[r].captures = kept
BY DEF Texts!Become, Texts!TypeOK, Texts!Progress, Asked

LEMMA AskedRemark ==
    ASSUME Texts!TypeOK, NEW r \in Checked, NEW place, NEW remark,
           Texts!Become(r, [checking[r] EXCEPT !.pc = place, !.remark = remark])
    PROVE  Asked(r, place) /\ checking'[r].remark = remark
BY DEF Texts!Become, Texts!TypeOK, Texts!Progress, Asked

LEMMA AskedSkip ==
    ASSUME Texts!TypeOK, NEW r \in Checked, NEW place, NEW flag \in BOOLEAN,
           Texts!Become(r, [checking[r] EXCEPT !.pc = place, !.skip = flag])
    PROVE  Asked(r, place) /\ (checking'[r].skip <=> flag) /\ checking'[r].remark = checking[r].remark
BY DEF Texts!Become, Texts!TypeOK, Texts!Progress, Asked

\* Where each question leads, and from where.
LEMMA DenyLeads ==
    ASSUME Texts!TypeOK, NEW r \in Checked, Texts!Deny(r)
    PROVE  \/ Texts!DenyIDs(checking[r].matched) # {} /\ Asked(r, "refused")
           \/ /\ Texts!DenyIDs(checking[r].matched) = {}
              /\ Asked(r, IF checking[r].kind = "decision" THEN "omit" ELSE "capture")
<1>1. CASE Texts!DenyIDs(checking[r].matched) # {}
  <2>1. Texts!Become(r, [checking[r] EXCEPT !.pc = "refused", !.remark = "deny"])
    BY <1>1 DEF Texts!Deny
  <2>2. QED
    BY <1>1, <2>1, AskedRemark
<1>2. CASE Texts!DenyIDs(checking[r].matched) = {}
  <2> DEFINE to == IF checking[r].kind = "decision" THEN "omit" ELSE "capture"
  <2>1. Texts!Become(r, [checking[r] EXCEPT !.pc = to])
    BY <1>2 DEF Texts!Deny, Texts!Goto
  <2> HIDE DEF to
  <2>2. Asked(r, to)
    BY <2>1, AskedOnly
  <2>3. QED
    BY <1>2, <2>2 DEF to
<1>3. QED
  BY <1>1, <1>2

LEMMA CapturesLeads ==
    ASSUME Texts!TypeOK, NEW r \in Checked, Texts!Captures(r)
    PROVE  /\ checking[r].pc = "capture"
           /\ Asked(r, IF Texts!CaptureIDs(checking[r].matched) = {} THEN "aside" ELSE "question")
           /\ checking'[r].captures = Texts!CaptureIDs(checking[r].matched)
<1> DEFINE kept == Texts!CaptureIDs(checking[r].matched)
           to == IF kept = {} THEN "aside" ELSE "question"
<1>1. checking[r].pc = "capture"
      /\ Texts!Become(r, [checking[r] EXCEPT !.pc = to, !.captures = kept])
  BY DEF Texts!Captures, Texts!At
<1> HIDE DEF to, kept
<1>2. Asked(r, to) /\ checking'[r].captures = kept
  BY <1>1, AskedWords
<1>3. QED
  BY <1>1, <1>2 DEF to, kept

LEMMA LastQuestionLeads ==
    ASSUME Texts!TypeOK, NEW r \in Checked, Texts!LastQuestion(r)
    PROVE  /\ checking[r].pc = "question"
           /\ Asked(r, IF Texts!Check(checking[r].question) \cap checking[r].captures # {}
                       THEN "captured" ELSE "aside")
<1> DEFINE hit == Texts!Check(checking[r].question) \cap checking[r].captures # {}
           to == IF hit THEN "captured" ELSE "aside"
           remark == IF hit THEN "capture" ELSE "none"
<1>1. /\ checking[r].pc = "question"
      /\ Texts!Become(r, [checking[r] EXCEPT !.pc = to, !.remark = remark])
  BY DEF Texts!LastQuestion, Texts!At
<1> HIDE DEF to, hit, remark
<1>2. Asked(r, to)
  BY <1>1, AskedRemark
<1>3. QED
  BY <1>1, <1>2 DEF to, hit

LEMMA AsideOmitsLeads ==
    ASSUME Texts!TypeOK, NEW r \in Checked, Texts!AsideOmits(r)
    PROVE  /\ checking[r].pc = "aside"
           /\ Asked(r, IF Texts!OmitIDs(checking[r].matched) = {} THEN "omit" ELSE "asideCaptures")
<1> DEFINE to == IF Texts!OmitIDs(checking[r].matched) = {} THEN "omit" ELSE "asideCaptures"
<1>1. checking[r].pc = "aside" /\ Texts!Become(r, [checking[r] EXCEPT !.pc = to])
  BY DEF Texts!AsideOmits, Texts!Goto, Texts!At
<1> HIDE DEF to
<1>2. Asked(r, to)
  BY <1>1, AskedOnly
<1>3. QED
  BY <1>1, <1>2 DEF to

LEMMA AsideCapturesLeads ==
    ASSUME Texts!TypeOK, NEW r \in Checked, Texts!AsideCaptures(r)
    PROVE  /\ checking[r].pc = "asideCaptures" /\ Asked(r, "omit")
           /\ checking'[r].remark = IF checking[r].kind = "asked" /\ Texts!CaptureIDs(checking[r].matched) # {}
                                    THEN "capture" ELSE "none"
<1> DEFINE remark == IF checking[r].kind = "asked" /\ Texts!CaptureIDs(checking[r].matched) # {}
                     THEN "capture" ELSE "none"
<1>1. /\ checking[r].pc = "asideCaptures"
      /\ Texts!Become(r, [checking[r] EXCEPT !.pc = "omit", !.remark = remark])
  BY DEF Texts!AsideCaptures, Texts!At
<1> HIDE DEF remark
<1>2. Asked(r, "omit") /\ checking'[r].remark = remark
  BY <1>1, AskedRemark
<1>3. QED
  BY <1>1, <1>2 DEF remark

LEMMA OmitLeads ==
    ASSUME Texts!TypeOK, NEW r \in Checked, Texts!Omit(r)
    PROVE  /\ checking[r].pc = "omit" /\ Asked(r, "forwarded")
           /\ checking'[r].remark = checking[r].remark
           /\ checking'[r].skip <=> (Texts!OmitIDs(checking[r].matched) # {})
<1> DEFINE found == Texts!OmitIDs(checking[r].matched) # {}
<1>1. /\ checking[r].pc = "omit" /\ found \in BOOLEAN
      /\ Texts!Become(r, [checking[r] EXCEPT !.pc = "forwarded", !.skip = found])
  BY DEF Texts!Omit, Texts!At
<1> HIDE DEF found
<1>2. Asked(r, "forwarded") /\ (checking'[r].skip <=> found) /\ checking'[r].remark = checking[r].remark
  BY <1>1, AskedSkip
<1>3. QED
  BY <1>1, <1>2 DEF found

\* What the check leads to, and the next request.
LEMMA CheckLeads ==
    ASSUME Texts!TypeOK, NEW r \in Checked, Texts!CheckContent(r)
    PROVE  /\ \/ checking'[r].pc = "deny"
              \/ checking'[r].pc = "forwarded" /\ checking'[r].matched = {}
           /\ checking'[r].kind # "asked" => checking'[r].question = {}
<1>1. PICK kind \in Texts!Kinds, text \in SUBSET Vocabulary, question \in SUBSET Vocabulary :
         /\ kind # "asked" => question = {}
         /\ checking' = [checking EXCEPT ![r] = [Texts!Fresh EXCEPT
               !.pc = IF Texts!Check(text) = {} THEN "forwarded" ELSE "deny",
               !.kind = kind, !.text = text, !.question = question,
               !.matched = Texts!Check(text)]]
  BY DEF Texts!CheckContent
<1> DEFINE matched == Texts!Check(text)
           to == IF matched = {} THEN "forwarded" ELSE "deny"
<1>2. checking' = [checking EXCEPT ![r] = [Texts!Fresh EXCEPT
         !.pc = to, !.kind = kind, !.text = text, !.question = question, !.matched = matched]]
  BY <1>1
<1> HIDE DEF to, matched
<1>3. /\ checking'[r].pc = to /\ checking'[r].matched = matched
      /\ checking'[r].kind = kind /\ checking'[r].question = question
  BY <1>2 DEF Texts!Fresh, Texts!TypeOK
<1>4. QED
  BY <1>1, <1>3 DEF to

\* A steady word still has the action the request was judged by, so what is known
\* of it stays true.
LEMMA WordsStep == Texts!TypeOK /\ Texts!WordsKnown /\ [Texts!Next]_Texts!vars
    => Texts!WordsKnown'
<1> SUFFICES ASSUME Texts!TypeOK, Texts!WordsKnown, [Texts!Next]_Texts!vars, NEW r \in Checked
             PROVE  Texts!Known(r)'
  BY DEF Texts!WordsKnown
<1>0. Texts!Known(r) /\ checking[r] \in Texts!Progress
  BY DEF Texts!WordsKnown, Texts!TypeOK
<1>1. CASE UNCHANGED <<checking[r], steady[r], loaded>>
  BY <1>0, <1>1 DEF Texts!Known, Texts!Matched, Texts!At
<1>2. CASE Texts!CheckContent(r) \/ Texts!NextRequest(r)
  <2>1. Texts!NextRequest(r) => checking'[r].pc = "check" /\ checking'[r].question = {}
    BY DEF Texts!NextRequest, Texts!Fresh, Texts!TypeOK
  <2>2. /\ checking'[r].pc \in {"check", "deny", "forwarded"}
        /\ checking'[r].kind # "asked" => checking'[r].question = {}
    BY <1>2, <2>1, CheckLeads
  <2>3. QED
    BY <2>2 DEF Texts!Known, Texts!At
<1>3. ASSUME NEW place, Asked(r, place)
      PROVE /\ UNCHANGED loaded /\ Texts!Matched(r)' = Texts!Matched(r)
            /\ checking'[r].kind = checking[r].kind /\ checking'[r].question = checking[r].question
  BY <1>3 DEF Asked, Texts!Matched
<1>8. CASE Texts!Deny(r)
  <2>1. /\ checking'[r].pc \in {"refused", "capture", "omit"}
        /\ checking'[r].pc # "refused" => Texts!DenyIDs(checking[r].matched) = {}
        /\ checking'[r].pc = "omit" => checking[r].kind = "decision"
    BY <1>8, DenyLeads DEF Asked
  <2>2. checking'[r].pc # "refused" => \A w \in Texts!Matched(r) : loaded[w] # "deny"
    BY <2>1 DEF Texts!DenyIDs, Texts!Matched
  <2>3. /\ UNCHANGED loaded /\ Texts!Matched(r)' = Texts!Matched(r)
        /\ checking'[r].kind = checking[r].kind /\ checking'[r].question = checking[r].question
    BY <1>3, <1>8, DenyLeads
  <2>4. checking[r].kind # "asked" => checking[r].question = {}
    BY <1>0 DEF Texts!Known
  <2>5. QED
    BY <2>1, <2>2, <2>3, <2>4 DEF Texts!Known, Texts!At
<1>9. CASE Texts!Captures(r)
  <2>1. /\ checking[r].pc = "capture"
        /\ checking'[r].pc = IF Texts!CaptureIDs(checking[r].matched) = {} THEN "aside" ELSE "question"
        /\ checking'[r].captures = Texts!CaptureIDs(checking[r].matched)
    BY <1>9, CapturesLeads DEF Asked
  <2>2. \A w \in Texts!Matched(r) : loaded[w] = "capture" => w \in Texts!CaptureIDs(checking[r].matched)
    BY DEF Texts!CaptureIDs, Texts!Matched
  <2>3. /\ UNCHANGED loaded /\ Texts!Matched(r)' = Texts!Matched(r)
        /\ checking'[r].kind = checking[r].kind /\ checking'[r].question = checking[r].question
    BY <1>3, <1>9, CapturesLeads
  <2>4. QED
    BY <1>0, <2>1, <2>2, <2>3 DEF Texts!Known, Texts!At
<1>10. CASE Texts!LastQuestion(r)
  <2>1. /\ checking[r].pc = "question" /\ checking'[r].pc \in {"captured", "aside"}
        /\ checking'[r].pc = "aside" => Texts!Check(checking[r].question) \cap checking[r].captures = {}
        /\ checking'[r].question = checking[r].question
    BY <1>10, LastQuestionLeads DEF Asked
  <2>2. ASSUME checking'[r].pc = "aside", NEW w \in Texts!Matched(r), loaded[w] = "capture"
        PROVE  w \notin checking[r].question
    <3>1. w \in checking[r].captures
      BY <1>0, <2>1, <2>2 DEF Texts!Known, Texts!At
    <3>2. w \in checking[r].question => w \in Texts!Check(checking[r].question)
      BY <2>2 DEF Texts!Check
    <3>3. QED
      BY <2>1, <2>2, <3>1, <3>2
  <2>3. /\ UNCHANGED loaded /\ Texts!Matched(r)' = Texts!Matched(r)
        /\ checking'[r].kind = checking[r].kind /\ checking'[r].question = checking[r].question
    BY <1>3, <1>10, LastQuestionLeads
  <2>4. QED
    BY <1>0, <2>1, <2>2, <2>3 DEF Texts!Known, Texts!At
<1>11. CASE Texts!AsideOmits(r)
  <2>1. /\ checking[r].pc = "aside" /\ checking'[r].pc \in {"asideCaptures", "omit"}
        /\ checking'[r].pc = "omit" => Texts!OmitIDs(checking[r].matched) = {}
    BY <1>11, AsideOmitsLeads DEF Asked
  <2>2. /\ UNCHANGED loaded /\ Texts!Matched(r)' = Texts!Matched(r)
        /\ checking'[r].kind = checking[r].kind /\ checking'[r].question = checking[r].question
    BY <1>3, <1>11, AsideOmitsLeads
  <2>3. checking'[r].pc = "omit" => \A v \in Texts!Matched(r) : loaded[v] # "omit"
    BY <2>1 DEF Texts!OmitIDs, Texts!Matched
  <2>4. QED
    BY <1>0, <2>1, <2>2, <2>3 DEF Texts!Known, Texts!At
<1>12. CASE Texts!AsideCaptures(r)
  <2>1. /\ checking[r].pc = "asideCaptures" /\ checking'[r].pc = "omit"
        /\ checking'[r].remark = IF checking[r].kind = "asked" /\ Texts!CaptureIDs(checking[r].matched) # {}
                                 THEN "capture" ELSE "none"
    BY <1>12, AsideCapturesLeads DEF Asked
  <2>2. /\ UNCHANGED loaded /\ Texts!Matched(r)' = Texts!Matched(r)
        /\ checking'[r].kind = checking[r].kind /\ checking'[r].question = checking[r].question
    BY <1>3, <1>12, AsideCapturesLeads
  <2>3. \A w \in Texts!Matched(r) : loaded[w] = "capture" => Texts!CaptureIDs(checking[r].matched) # {}
    BY DEF Texts!CaptureIDs, Texts!Matched
  <2>4. QED
    BY <1>0, <2>1, <2>2, <2>3 DEF Texts!Known, Texts!At
<1>13. CASE Texts!Omit(r)
  <2>1. checking[r].pc = "omit" /\ checking'[r].pc = "forwarded"
    BY <1>13, OmitLeads DEF Asked
  <2>2. checking'[r].kind = checking[r].kind /\ checking'[r].question = checking[r].question
    BY <1>3, <1>13, OmitLeads
  <2>3. QED
    BY <1>0, <2>1, <2>2 DEF Texts!Known, Texts!At
<1>4. CASE Texts!Rebuild
  <2>1. checking' = checking /\ (~Texts!Ended(r) => Texts!Matched(r)' = {w \in Texts!Matched(r) : loaded'[w] = loaded[w]})
    BY <1>4 DEF Texts!Rebuild, Texts!Matched, Texts!Ended
  <2>2. QED
    BY <1>0, <2>1 DEF Texts!Known, Texts!Ended, Texts!At
<1>5. ASSUME NEW q \in Checked \ {r},
             Texts!CheckContent(q) \/ Texts!Deny(q) \/ Texts!Captures(q) \/ Texts!LastQuestion(q)
             \/ Texts!AsideOmits(q) \/ Texts!AsideCaptures(q) \/ Texts!Omit(q) \/ Texts!NextRequest(q)
      PROVE  UNCHANGED <<checking[r], steady[r], loaded>>
  BY <1>5 DEF Texts!CheckContent, Texts!Deny, Texts!Captures, Texts!LastQuestion,
      Texts!AsideOmits, Texts!AsideCaptures, Texts!Omit,
              Texts!NextRequest, Texts!Become, Texts!Goto, Texts!TypeOK
<1>6. UNCHANGED Texts!vars => UNCHANGED <<checking[r], steady[r], loaded>>
  BY DEF Texts!vars
<1>7. QED
  BY <1>1, <1>2, <1>4, <1>5, <1>6, <1>8, <1>9, <1>10, <1>11, <1>12, <1>13 DEF Texts!Next

\* A request that just ended was judged by what its steady words still are.
LEMMA EndingStep ==
    ASSUME Texts!TypeOK, Texts!WordsKnown, [Texts!Next]_Texts!vars,
           NEW r \in Checked, Texts!JustEnded(r)
    PROVE  Texts!VerdictRight(r)
<1>0. Texts!Known(r) /\ checking[r] \in Texts!Progress /\ ~Texts!Ended(r) /\ Texts!Ended(r)'
  BY DEF Texts!WordsKnown, Texts!TypeOK, Texts!JustEnded
<1>1. CASE Texts!CheckContent(r)
  <2>1. checking'[r].pc = "forwarded" /\ checking'[r].matched = {}
    BY <1>0, <1>1, CheckLeads DEF Texts!Ended
  <2>2. QED
    BY <2>1 DEF Texts!VerdictRight, Texts!Held
<1>2. CASE Texts!Deny(r)
  <2>1. /\ checking'[r].pc \in {"refused", "capture", "omit"}
        /\ checking'[r].pc = "refused" => Texts!DenyIDs(checking[r].matched) # {}
        /\ checking'[r].matched = checking[r].matched
    BY <1>2, DenyLeads DEF Asked
  <2>2. checking'[r].pc = "refused" /\ Texts!DenyIDs(checking[r].matched) # {}
    BY <1>0, <2>1 DEF Texts!Ended
  <2>3. PICK w \in checking'[r].matched : loaded[w] \in {"deny", "none"}
    BY <2>1, <2>2 DEF Texts!DenyIDs
  <2>4. w \notin Texts!Held(r, "omit") \cup Texts!Held(r, "capture")
    BY <2>3 DEF Texts!Held
  <2>5. QED
    BY <2>2, <2>3, <2>4 DEF Texts!VerdictRight
<1>3. CASE Texts!Captures(r) \/ Texts!AsideOmits(r) \/ Texts!AsideCaptures(r)
  <2>1. checking'[r].pc \in {"aside", "question", "omit", "asideCaptures"}
    BY <1>3, CapturesLeads, AsideOmitsLeads, AsideCapturesLeads DEF Asked
  <2>2. QED
    BY <1>0, <2>1 DEF Texts!Ended
<1>4. CASE Texts!LastQuestion(r)
  <2>1. /\ checking[r].pc = "question" /\ checking'[r].pc \in {"captured", "aside"}
        /\ checking'[r].matched = checking[r].matched /\ UNCHANGED steady
    BY <1>4, LastQuestionLeads DEF Asked
  <2>2. checking'[r].pc = "captured"
    BY <1>0, <2>1 DEF Texts!Ended
  <2>3. Texts!Held(r, "deny") = {}
    BY <1>0, <2>1 DEF Texts!Held, Texts!Known, Texts!Matched
  <2>4. QED
    BY <2>2, <2>3 DEF Texts!VerdictRight
<1>7. CASE Texts!Omit(r)
  <2>1. /\ checking[r].pc = "omit" /\ checking'[r].pc = "forwarded"
        /\ checking'[r].matched = checking[r].matched
        /\ checking'[r].question = checking[r].question /\ UNCHANGED steady
        /\ checking'[r].kind = checking[r].kind /\ checking'[r].remark = checking[r].remark
        /\ checking'[r].skip <=> (Texts!OmitIDs(checking[r].matched) # {})
    BY <1>7, OmitLeads DEF Asked
  <2>2. Texts!Held(r, "deny") = {} /\ Texts!Held(r, "capture") \cap checking'[r].question = {}
    BY <1>0, <2>1 DEF Texts!Held, Texts!Known, Texts!Matched
  <2>3. Texts!Held(r, "omit") # {} => Texts!OmitIDs(checking[r].matched) # {}
    BY <2>1 DEF Texts!Held, Texts!OmitIDs
  <2>4. Texts!Held(r, "omit") # {} /\ Texts!Held(r, "capture") # {} /\ checking'[r].kind = "asked"
            => checking'[r].remark = "capture"
    BY <1>0, <2>1 DEF Texts!Held, Texts!Known, Texts!Matched, Texts!At
  <2>5. QED
    BY <2>1, <2>2, <2>3, <2>4 DEF Texts!VerdictRight
<1>8. CASE Texts!NextRequest(r)
  BY <1>0, <1>8 DEF Texts!NextRequest
<1>9. ASSUME checking'[r] = checking[r] PROVE FALSE
  BY <1>0, <1>9 DEF Texts!Ended
<1>10. ASSUME NEW q \in Checked \ {r},
              Texts!CheckContent(q) \/ Texts!Deny(q) \/ Texts!Captures(q) \/ Texts!LastQuestion(q)
              \/ Texts!AsideOmits(q) \/ Texts!AsideCaptures(q) \/ Texts!Omit(q) \/ Texts!NextRequest(q)
       PROVE  checking'[r] = checking[r]
  BY <1>10 DEF Texts!CheckContent, Texts!Deny, Texts!Captures, Texts!LastQuestion,
      Texts!AsideOmits,
               Texts!AsideCaptures, Texts!Omit, Texts!NextRequest, Texts!Become, Texts!Goto,
                   Texts!TypeOK
<1>11. Texts!Rebuild \/ UNCHANGED Texts!vars => checking'[r] = checking[r]
  BY DEF Texts!Rebuild, Texts!vars
<1>12. QED
  BY <1>1, <1>2, <1>3, <1>4, <1>7, <1>8, <1>9, <1>10, <1>11 DEF Texts!Next

\* Whatever the rebuilds in between, a trigger word that stays loaded takes effect
\* on the request that holds it, and nobody is refused for harmless words: for any
\* number of requests and words.
THEOREM WordsJudged == Texts!Spec => WordsTakeEffect
<1>1. Texts!Init => Texts!WordsKnown
  BY DEF Texts!Init, Texts!WordsKnown, Texts!Known, Texts!Fresh, Texts!At
<1>2. Texts!TypeOK /\ Texts!WordsKnown /\ [Texts!Next]_Texts!vars
          => [\A r \in Checked : Texts!JustEnded(r) => Texts!VerdictRight(r)]_Texts!vars
  BY EndingStep
<1>3. QED
  BY <1>1, <1>2, TextsTypeCorrect, WordsStep, PTL DEF Texts!Spec, Texts!WordsTakeEffect, WordsTakeEffect
=============================================================================
