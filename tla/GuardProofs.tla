----------------------------- MODULE GuardProofs -----------------------------
(***************************************************************************)
(* Proofs about Guard for every number of calls and every setting.         *)
(***************************************************************************)
EXTENDS Guard, FiniteSetTheorems, TLAPS

\* The sets the properties count are finite, as Calls is.
LEMMA CallSetsFinite ==
    ASSUME NEW S \in SUBSET Calls
    PROVE  IsFiniteSet(S) /\ Cardinality(S) \in Nat
BY GuardAssumption, FS_Subset, FS_CardinalityType

\* A call that takes a slot is one holder more; one that ends its lease is
\* one less; a call that moves within the lease, or outside it, changes nothing.
LEMMA HoldersStep ==
    ASSUME TypeOK, NEW c \in Calls, NEW label \in Labels, Goto(c, label)
    PROVE  LET held == pc[c] \in {"send", "backoff", "stream", "done", "release"}
               holds == label \in {"send", "backoff", "stream", "done", "release"}
           IN  Cardinality(Holders') = IF held = holds THEN Cardinality(Holders)
                                       ELSE IF holds THEN Cardinality(Holders) + 1
                                       ELSE Cardinality(Holders) - 1
<1> DEFINE L == {"send", "backoff", "stream", "done", "release"}
<1>1. IsFiniteSet(Holders) /\ Cardinality(Holders) \in Nat
  BY CallSetsFinite DEF Holders
<1>2. \A d \in Calls : pc'[d] = IF d = c THEN label ELSE pc[d]
  BY DEF TypeOK, Goto
<1>3. CASE (pc[c] \in L) = (label \in L)
  <2>1. Holders' = Holders
    BY <1>2, <1>3 DEF Holders
  <2>2. QED
    BY <2>1, <1>3
<1>4. CASE label \in L /\ pc[c] \notin L
  <2>1. Holders' = Holders \cup {c} /\ c \notin Holders
    BY <1>2, <1>4 DEF Holders
  <2>2. Cardinality(Holders') = Cardinality(Holders) + 1
    BY <2>1, <1>1, FS_AddElement
  <2>3. QED
    BY <2>2, <1>4
<1>5. CASE label \notin L /\ pc[c] \in L
  <2>1. Holders' = Holders \ {c} /\ c \in Holders
    BY <1>2, <1>5 DEF Holders
  <2>2. Cardinality(Holders') = Cardinality(Holders) - 1
    BY <2>1, <1>1, FS_RemoveElement
  <2>3. QED
    BY <2>2, <1>5
<1>6. QED
  BY <1>3, <1>4, <1>5

-----------------------------------------------------------------------------
(* Typing and the bulkhead *)

LEMMA InitGuardInv == Init => GuardInv
<1> SUFFICES ASSUME Init PROVE GuardInv
  OBVIOUS
<1>1. Cardinality(Holders) = 0
  <2>1. Holders = {}
    BY DEF Init, Holders
  <2>2. Cardinality({}) = 0
    BY FS_EmptySet, Zenon
  <2>3. QED
    BY <2>1, <2>2, Zenon
<1>2. TypeOK
  <2>1. window \in [success : Nat, failure : Nat]
    BY DEF Init, EmptyWindow
  <2>2. /\ pc \in [Calls -> Labels] /\ attempt \in [Calls -> 0..MaxAttempts]
        /\ outcome \in [Calls -> BOOLEAN]
        /\ probe \in [Calls -> {"no", "current", "stale"}]
        /\ ahead \in [Calls -> SUBSET Calls]
    BY GuardAssumption DEF Init, Labels
  <2>3. slots \in 0..MaxConcurrent /\ halfOpenSent \in 0..HalfOpenMaxRequests
        /\ halfOpenOK \in 0..HalfOpenMaxRequests
    BY GuardAssumption DEF Init
  <2>4. QED
    BY <2>1, <2>2, <2>3 DEF Init, TypeOK
<1>3. SlotsMatchHolders
  BY <1>1, GuardAssumption DEF Init, SlotsMatchHolders
<1>4. QED
  BY <1>2, <1>3 DEF Init, GuardInv

\* The semaphore half of the invariant, apart from the breaker: every step of
\* a call that leaves the channel alone keeps it inside or outside its lease.
LEMMA SlotsKept ==
    ASSUME TypeOK, SlotsMatchHolders, NEW c \in Calls, NEW label \in Labels,
           Goto(c, label), slots' = slots,
           (pc[c] \in {"send", "backoff", "stream", "done", "release"})
             = (label \in {"send", "backoff", "stream", "done", "release"})
    PROVE  SlotsMatchHolders'
BY HoldersStep DEF SlotsMatchHolders

LEMMA HoldersUnchanged ==
    ASSUME SlotsMatchHolders, slots' = slots, pc' = pc
    PROVE  SlotsMatchHolders'
<1>1. Holders' = Holders
  BY DEF Holders
<1>2. QED
  BY <1>1 DEF SlotsMatchHolders

LEMMA AllowKeepsInv ==
    ASSUME GuardInv, NEW c \in Calls, Allow(c)
    PROVE  GuardInv'
<1> USE GuardAssumption
<1>1. /\ TypeOK /\ SlotsMatchHolders
      /\ pc[c] = "idle" /\ slots' = slots
      /\ Goto(c, IF BulkheadEnabled THEN "acquire" ELSE "send")
      /\ UNCHANGED <<attempt, outcome, world, faulted>>
  BY DEF GuardInv, Allow, AllowClosed, AllowFirstProbe, AllowNextProbe, Admit
<1>2. /\ pc' \in [Calls -> Labels]
      /\ attempt' \in [Calls -> 0..MaxAttempts]
      /\ outcome' \in [Calls -> BOOLEAN]
      /\ \A d \in Calls : pc'[d] = "backoff" => attempt'[d] < MaxAttempts
  BY <1>1 DEF GuardInv, TypeOK, Goto, Labels
<1>3. /\ state' \in {"closed", "open", "halfOpen"}
      /\ window' = window /\ openTimeoutElapsed' = openTimeoutElapsed
      /\ halfOpenSent' \in 0..HalfOpenMaxRequests
      /\ halfOpenOK' \in 0..HalfOpenMaxRequests
      /\ state' = "halfOpen" => halfOpenOK' < HalfOpenMaxRequests
  <2>1. CASE AllowClosed(c)
    BY <2>1 DEF GuardInv, TypeOK, AllowClosed, breakerVars
  <2>2. CASE AllowFirstProbe(c)
    BY <2>2 DEF GuardInv, TypeOK, AllowFirstProbe
  <2>3. CASE AllowNextProbe(c)
    BY <2>3 DEF GuardInv, TypeOK, AllowNextProbe
  <2>4. QED
    BY <2>1, <2>2, <2>3 DEF Allow
<1>4. probe' \in [Calls -> {"no", "current", "stale"}] /\ ahead' \in [Calls -> SUBSET Calls]
  BY DEF GuardInv, TypeOK, Allow, AllowClosed, AllowFirstProbe, AllowNextProbe, Admit
<1>5. TypeOK'
  BY <1>1, <1>2, <1>3, <1>4 DEF GuardInv, TypeOK, world
<1>6. SlotsMatchHolders'
  <2>1. CASE BulkheadEnabled
    BY <1>1, <2>1, SlotsKept DEF Labels
  <2>2. CASE ~BulkheadEnabled
    BY <2>2 DEF SlotsMatchHolders
  <2>3. QED
    BY <2>1, <2>2
<1>7. QED
  BY <1>2, <1>3, <1>5, <1>6 DEF GuardInv

\* Breaker.Report keeps the half-open counters within the quota.
LEMMA BreakerReportTyped ==
    ASSUME GuardInv, NEW success \in BOOLEAN, BreakerReport(success)
    PROVE  /\ state' \in {"closed", "open", "halfOpen"}
           /\ window' \in [success : Nat, failure : Nat]
           /\ openTimeoutElapsed' \in BOOLEAN
           /\ halfOpenSent' = halfOpenSent
           /\ halfOpenOK' \in 0..HalfOpenMaxRequests
           /\ state' = "halfOpen" => halfOpenOK' < HalfOpenMaxRequests
<1> USE GuardAssumption
<1>1. CASE state = "halfOpen" /\ ReportHalfOpenSuccess
  BY <1>1 DEF GuardInv, TypeOK, ReportHalfOpenSuccess, EmptyWindow
<1>2. CASE state = "halfOpen" /\ ReportHalfOpenFailure
  BY <1>2 DEF GuardInv, TypeOK, ReportHalfOpenFailure
<1>3. CASE state # "halfOpen" /\ ReportRecorded(success)
  <2> DEFINE w == IF success THEN [window EXCEPT !.success = @ + 1]
                             ELSE [window EXCEPT !.failure = @ + 1]
  <2>1. w \in [success : Nat, failure : Nat]
    BY DEF GuardInv, TypeOK
  <2>2. /\ window' = w
        /\ UNCHANGED <<halfOpenSent, halfOpenOK>>
        /\ \/ state' = "open" /\ openTimeoutElapsed' = FALSE
           \/ UNCHANGED <<state, openTimeoutElapsed>>
    BY <1>3 DEF ReportRecorded
  <2>3. QED
    BY <1>3, <2>1, <2>2 DEF GuardInv, TypeOK
<1>4. QED
  BY <1>1, <1>2, <1>3 DEF BreakerReport

LEMMA ReportKeepsInv ==
    ASSUME GuardInv, NEW c \in Calls, Report(c)
    PROVE  GuardInv'
<1> USE GuardAssumption
<1>1. TypeOK /\ SlotsMatchHolders /\ outcome[c] \in BOOLEAN
  BY DEF GuardInv, TypeOK
<1>2. /\ state' \in {"closed", "open", "halfOpen"}
      /\ window' \in [success : Nat, failure : Nat]
      /\ openTimeoutElapsed' \in BOOLEAN
      /\ halfOpenSent' = halfOpenSent
      /\ halfOpenOK' \in 0..HalfOpenMaxRequests
      /\ state' = "halfOpen" => halfOpenOK' < HalfOpenMaxRequests
  <2>1. CASE BreakerReport(outcome[c])
    BY <1>1, <2>1, BreakerReportTyped
  <2>2. CASE UNCHANGED breakerVars
    BY <2>2 DEF GuardInv, TypeOK, breakerVars
  <2>3. QED
    BY <2>1, <2>2 DEF Report
<1>3. TypeOK' /\ \A d \in Calls : pc'[d] = "backoff" => attempt'[d] < MaxAttempts
  BY <1>2 DEF Report, LeaseEnds, GuardInv, TypeOK, Goto, Labels, world
<1>4. SlotsMatchHolders'
  BY <1>1, SlotsKept DEF Report, LeaseEnds, Labels
<1>5. QED
  BY <1>2, <1>3, <1>4 DEF GuardInv

\* The semaphore steps, the steps of the retry loop and of the stream.
LEMMA SemaphoreKeepsInv ==
    ASSUME GuardInv, NEW c \in Calls,
           \/ AcquireSlot(c) \/ TimerElapses(c) \/ AcquireTimeout(c) \/ AcquireCancelled(c)
           \/ Release(c)
    PROVE  GuardInv'
<1> USE GuardAssumption DEF GuardInv, world
<1>1. IsFiniteSet(Holders) /\ Cardinality(Holders) \in Nat
  BY CallSetsFinite DEF Holders
<1>2. CASE AcquireSlot(c)
  <2>1. TypeOK' /\ \A d \in Calls : pc'[d] = "backoff" => attempt'[d] < MaxAttempts
    BY <1>2 DEF AcquireSlot, TypeOK, Goto, Labels, breakerVars, history
  <2>2. Cardinality(Holders') = Cardinality(Holders) + 1
    BY <1>2, HoldersStep DEF AcquireSlot, Waiting, Labels
  <2>3. SlotsMatchHolders'
    BY <1>2, <2>2, <1>1 DEF AcquireSlot, SlotsMatchHolders, TypeOK
  <2>4. QED
    BY <1>2, <2>1, <2>3 DEF AcquireSlot, breakerVars
<1>3. CASE AcquireTimeout(c) \/ AcquireCancelled(c)
  <2>1. LeaveWithoutLease(c) /\ Waiting(c)
    BY <1>3 DEF AcquireTimeout, AcquireCancelled, Waiting
  <2>2. TypeOK' /\ \A d \in Calls : pc'[d] = "backoff" => attempt'[d] < MaxAttempts
    BY <2>1 DEF LeaveWithoutLease, TypeOK, Goto, Labels, breakerVars
  <2>3. SlotsMatchHolders'
    BY <2>1, SlotsKept DEF LeaveWithoutLease, Waiting, Labels
  <2>4. QED
    BY <2>1, <2>2, <2>3 DEF LeaveWithoutLease, breakerVars
<1>4. CASE Release(c)
  <2>1. Cardinality(Holders') = Cardinality(Holders) - 1
    BY <1>4, HoldersStep DEF Release, Labels
  <2>2. c \in Holders
    BY <1>4 DEF Release, Holders
  <2>3. Cardinality(Holders) # 0
    BY <2>2, <1>1, FS_EmptySet
  <2>4. BulkheadEnabled => slots' \in 0..MaxConcurrent
    BY <1>4, <2>3, <1>1 DEF Release, SlotsMatchHolders, TypeOK
  <2>5. TypeOK' /\ \A d \in Calls : pc'[d] = "backoff" => attempt'[d] < MaxAttempts
    BY <1>4, <2>4 DEF Release, TypeOK, Goto, Labels, breakerVars, history
  <2>6. SlotsMatchHolders'
    BY <1>4, <2>1, <1>1 DEF Release, SlotsMatchHolders
  <2>7. QED
    BY <1>4, <2>5, <2>6 DEF Release, breakerVars
<1>5. CASE TimerElapses(c)
  <2>1. TypeOK' /\ \A d \in Calls : pc'[d] = "backoff" => attempt'[d] < MaxAttempts
    BY <1>5 DEF TimerElapses, TypeOK, Goto, Labels, breakerVars, history
  <2>2. SlotsMatchHolders'
    BY <1>5, SlotsKept DEF TimerElapses, Labels
  <2>3. QED
    BY <1>5, <2>1, <2>2 DEF TimerElapses, breakerVars
<1>6. QED
  BY <1>2, <1>3, <1>4, <1>5

LEMMA CallKeepsInv ==
    ASSUME GuardInv, NEW c \in Calls,
           \/ RejectByCircuit(c) \/ Try(c) \/ BackoffElapses(c) \/ BackoffCancelled(c)
           \/ StreamBreaks(c) \/ StreamCancelled(c) \/ CloseBody(c) \/ Return(c)
    PROVE  GuardInv'
<1> USE GuardAssumption DEF GuardInv, breakerVars, world, history
<1>1. CASE RejectByCircuit(c)
  <2>1. TypeOK' /\ \A d \in Calls : pc'[d] = "backoff" => attempt'[d] < MaxAttempts
    BY <1>1 DEF RejectByCircuit, TypeOK, Goto, Labels
  <2>2. SlotsMatchHolders'
    BY <1>1, SlotsKept DEF RejectByCircuit, Labels
  <2>3. QED
    BY <1>1, <2>1, <2>2 DEF RejectByCircuit
<1>2. CASE Try(c)
  <2>1. PICK label \in {"stream", "backoff", "done"} : Goto(c, label)
    BY <1>2 DEF Try, TrySucceeds, TryFailsRetryably, TryCancelled, RetryOrGiveUp,
         TryRefused
  <2>2. pc[c] = "send" /\ slots' = slots /\ UNCHANGED <<breakerVars, world, probe, ahead, attempt>>
    BY <1>2 DEF Try, TrySucceeds, TryFailsRetryably, TryCancelled, RetryOrGiveUp,
         TryRefused
  <2>3. SlotsMatchHolders'
    BY <2>1, <2>2, SlotsKept DEF Labels
  <2>4. /\ outcome' \in [Calls -> BOOLEAN] /\ faulted' \in BOOLEAN
        /\ pc'[c] = "backoff" => attempt[c] < MaxAttempts
    BY <1>2 DEF Try, TrySucceeds, TryFailsRetryably, TryCancelled, RetryOrGiveUp,
         TryRefused, TypeOK, Goto
  <2>5. TypeOK' /\ \A d \in Calls : pc'[d] = "backoff" => attempt'[d] < MaxAttempts
    BY <2>1, <2>2, <2>4 DEF TypeOK, Goto, Labels
  <2>6. QED
    BY <2>2, <2>3, <2>5
<1>3. CASE BackoffElapses(c)
  <2>1. TypeOK' /\ \A d \in Calls : pc'[d] = "backoff" => attempt'[d] < MaxAttempts
    BY <1>3 DEF BackoffElapses, TypeOK, Goto, Labels
  <2>2. SlotsMatchHolders'
    BY <1>3, SlotsKept DEF BackoffElapses, Labels
  <2>3. QED
    BY <1>3, <2>1, <2>2 DEF BackoffElapses
<1>4. CASE BackoffCancelled(c)
  <2>1. TypeOK' /\ \A d \in Calls : pc'[d] = "backoff" => attempt'[d] < MaxAttempts
    BY <1>4 DEF BackoffCancelled, TypeOK, Goto, Labels
  <2>2. SlotsMatchHolders'
    BY <1>4, SlotsKept DEF BackoffCancelled, Labels
  <2>3. QED
    BY <1>4, <2>1, <2>2 DEF BackoffCancelled
<1>5. CASE StreamBreaks(c) \/ StreamCancelled(c)
  <2>1. TypeOK' /\ SlotsMatchHolders'
    BY <1>5, HoldersUnchanged DEF StreamBreaks, StreamCancelled, TypeOK
  <2>2. QED
    BY <1>5, <2>1 DEF StreamBreaks, StreamCancelled
<1>6. CASE CloseBody(c)
  <2>1. TypeOK' /\ \A d \in Calls : pc'[d] = "backoff" => attempt'[d] < MaxAttempts
    BY <1>6 DEF CloseBody, TypeOK, Goto, Labels
  <2>2. SlotsMatchHolders'
    BY <1>6, SlotsKept DEF CloseBody, Labels
  <2>3. QED
    BY <1>6, <2>1, <2>2 DEF CloseBody
<1>7. CASE Return(c)
  <2>1. TypeOK' /\ \A d \in Calls : pc'[d] = "backoff" => attempt'[d] < MaxAttempts
    BY <1>7 DEF Return, TypeOK, Goto, Labels
  <2>2. SlotsMatchHolders'
    <3>1. pc[c] \notin {"send", "backoff", "stream", "done", "release"}
      BY <1>7 DEF Return
    <3>2. QED
      BY <1>7, <3>1, SlotsKept DEF Return, Labels
  <2>3. QED
    BY <1>7, <2>1, <2>2 DEF Return
<1>8. QED
  BY <1>1, <1>2, <1>3, <1>4, <1>5, <1>6, <1>7

LEMMA EnvironmentKeepsInv ==
    ASSUME GuardInv,
           OpenTimeoutElapses \/ AgeWindow \/ UpstreamHeals \/ Broadcast \/ UNCHANGED vars
    PROVE  GuardInv'
<1> USE DEF GuardInv, breakerVars, callVars, world, history
<1>1. pc' = pc /\ slots' = slots /\ UNCHANGED <<state, halfOpenOK, attempt>>
  BY DEF OpenTimeoutElapses, AgeWindow, UpstreamHeals, Broadcast, vars
<1>2. TypeOK'
  <2>1. CASE AgeWindow
    <3>1. PICK s \in 0..window.success, f \in 0..window.failure :
              window' = [success |-> s, failure |-> f]
      BY <2>1 DEF AgeWindow
    <3>2. window' \in [success : Nat, failure : Nat]
      BY <3>1 DEF TypeOK
    <3>3. UNCHANGED <<state, openTimeoutElapsed, halfOpenSent, halfOpenOK, slots,
                      pc, attempt, outcome, healed, cancelled, faulted, probe, ahead>>
      BY <2>1 DEF AgeWindow
    <3>4. QED
      BY <3>2, <3>3 DEF TypeOK
  <2>2. CASE OpenTimeoutElapses \/ UpstreamHeals \/ Broadcast \/ UNCHANGED vars
    BY <2>2 DEF OpenTimeoutElapses, UpstreamHeals, Broadcast, vars, TypeOK
  <2>3. QED
    BY <2>1, <2>2
<1>3. QED
  BY <1>1, <1>2, HoldersUnchanged

\* The guard's invariant: every variable keeps its type, the half-open counters
\* their quota, and the channel holds one token per call on the wire.
THEOREM GuardInvariant == Spec => []GuardInv
<1>1. GuardInv /\ [Next]_vars => GuardInv'
  <2> SUFFICES ASSUME GuardInv, [Next]_vars PROVE GuardInv'
    OBVIOUS
  <2>1. ASSUME NEW c \in Calls, Allow(c) PROVE GuardInv'
    BY <2>1, AllowKeepsInv
  <2>2. ASSUME NEW c \in Calls, Report(c) PROVE GuardInv'
    BY <2>2, ReportKeepsInv
  <2>3. ASSUME NEW c \in Calls,
               \/ AcquireSlot(c) \/ TimerElapses(c) \/ AcquireTimeout(c) \/ AcquireCancelled(c)
               \/ Release(c)
        PROVE  GuardInv'
    BY <2>3, SemaphoreKeepsInv
  <2>4. ASSUME NEW c \in Calls,
               \/ RejectByCircuit(c) \/ Try(c) \/ BackoffElapses(c) \/ BackoffCancelled(c)
               \/ StreamBreaks(c) \/ StreamCancelled(c) \/ CloseBody(c) \/ Return(c)
        PROVE  GuardInv'
    BY <2>4, CallKeepsInv
  <2>5. CASE OpenTimeoutElapses \/ AgeWindow \/ UpstreamHeals \/ Broadcast \/ UNCHANGED vars
    BY <2>5, EnvironmentKeepsInv
  <2>6. QED
    BY <2>1, <2>2, <2>3, <2>4, <2>5 DEF Next, Progress
<1>2. QED
  BY InitGuardInv, <1>1, PTL DEF Spec

THEOREM TypeCorrect == Spec => []TypeOK
<1>1. GuardInv => TypeOK
  BY DEF GuardInv
<1>2. QED
  BY GuardInvariant, <1>1, PTL

\* No slot is leaked and none is oversold, for any number of calls and slots.
THEOREM BulkheadSound == Spec => []SlotsMatchHolders
<1>1. GuardInv => SlotsMatchHolders
  BY DEF GuardInv
<1>2. QED
  BY GuardInvariant, <1>1, PTL

-----------------------------------------------------------------------------
(* Only faults open the breaker *)

\* A window without failures never trips: the threshold is positive.
LEMMA CleanWindowHolds ==
    ASSUME NEW n \in Nat, NEW w, w = [success |-> n, failure |-> 0]
    PROVE  ~WindowTrips(w)
<1> SUFFICES ASSUME n >= MinRequests PROVE ~(0 * ThresholdDen >= ThresholdNum * n)
  BY GuardAssumption DEF WindowTrips
<1>1. n > 0
  BY GuardAssumption
<1>2. ThresholdNum * n > 0
  BY <1>1, GuardAssumption
<1>3. 0 * ThresholdDen = 0
  BY GuardAssumption
<1>4. ThresholdNum * n \in Int
  BY GuardAssumption
<1>5. QED
  BY <1>2, <1>3, <1>4

LEMMA ReportKeepsFaultFree ==
    ASSUME TypeOK, FaultFree, NEW c \in Calls, Report(c)
    PROVE  FaultFree'
<1>1. outcome[c] = TRUE /\ state = "closed" /\ \A d \in Calls : outcome'[d] = TRUE
  BY DEF FaultFree, TypeOK, Report, LeaseEnds
<1>2. CASE UNCHANGED breakerVars
  BY <1>1, <1>2 DEF FaultFree, breakerVars
<1>3. CASE BreakerReport(outcome[c])
  <2> DEFINE w == [success |-> window.success + 1, failure |-> 0]
  <2>1. ReportRecorded(TRUE)
    BY <1>1, <1>3 DEF BreakerReport
  <2>2. window' = [window EXCEPT !.success = window.success + 1]
    BY <2>1 DEF ReportRecorded
  <2>3. [window EXCEPT !.success = window.success + 1] = w
    BY DEF TypeOK, FaultFree
  <2>4. ~WindowTrips(w)
    BY CleanWindowHolds DEF TypeOK
  <2>5. state' = state
    BY <2>1, <2>3, <2>4 DEF ReportRecorded
  <2>6. QED
    BY <1>1, <2>2, <2>3, <2>5 DEF FaultFree
<1>4. QED
  BY <1>2, <1>3 DEF Report

\* Until the process drains, 429s and other refusals never open the breaker,
\* whatever the threshold and the number of calls (README.md:103).
THEOREM BreakerOpensOnFaultsOnly == Spec => []OnlyFaultsTrip
<1> DEFINE Inv == ~faulted /\ ~cancelled => FaultFree
<1>1. Init => Inv
  BY DEF Init, FaultFree, EmptyWindow
<1>2. TypeOK /\ Inv /\ [Next]_vars => Inv'
  <2> SUFFICES ASSUME TypeOK, Inv, [Next]_vars, ~faulted', ~cancelled'
               PROVE  FaultFree'
    OBVIOUS
  <2> USE DEF breakerVars, callVars, history
  <2>1. ~faulted /\ ~cancelled
    BY DEF Next, Allow, AllowClosed, AllowFirstProbe, AllowNextProbe, Admit,
           RejectByCircuit, AcquireCancelled, LeaveWithoutLease, BackoffCancelled,
           StreamBreaks, StreamCancelled, Progress, AcquireSlot, TimerElapses, AcquireTimeout, Try,
           TrySucceeds, TryFailsRetryably, TryCancelled, TryRefused, BackoffElapses,
           CloseBody, Report, Release, Return, OpenTimeoutElapses, AgeWindow,
           UpstreamHeals, Broadcast, world, vars, TypeOK
  <2>2. FaultFree
    BY <2>1
  <2>3. ASSUME NEW c \in Calls, Report(c) PROVE FaultFree'
    BY <2>2, <2>3, ReportKeepsFaultFree
  <2>4. ASSUME NEW c \in Calls, Try(c) PROVE FaultFree'
    <3>1. UNCHANGED breakerVars
      BY <2>4 DEF Try
    <3>2. outcome' = outcome \/ outcome' = [outcome EXCEPT ![c] = TRUE]
      BY <2>4, <2>1 DEF Try, TrySucceeds, TryFailsRetryably, TryCancelled, RetryOrGiveUp,
         TryRefused, TypeOK
    <3>3. QED
      BY <3>1, <3>2, <2>2 DEF FaultFree, TypeOK
  <2>5. ASSUME NEW c \in Calls, Allow(c) PROVE FaultFree'
    <3>1. AllowClosed(c)
      BY <2>5, <2>2 DEF Allow, AllowFirstProbe, AllowNextProbe, FaultFree
    <3>2. QED
      BY <3>1, <2>2 DEF AllowClosed, Admit, FaultFree, TypeOK
  <2>6. ASSUME NEW c \in Calls,
               \/ RejectByCircuit(c) \/ AcquireCancelled(c) \/ BackoffCancelled(c)
               \/ AcquireSlot(c) \/ TimerElapses(c) \/ AcquireTimeout(c) \/ BackoffElapses(c)
               \/ CloseBody(c) \/ Release(c) \/ Return(c)
        PROVE  FaultFree'
    BY <2>2, <2>6 DEF RejectByCircuit, AcquireCancelled, LeaveWithoutLease,
         BackoffCancelled, AcquireSlot, TimerElapses, AcquireTimeout, BackoffElapses, CloseBody,
         Release, Return, FaultFree
  <2>7. ASSUME NEW c \in Calls, StreamBreaks(c) \/ StreamCancelled(c) PROVE FaultFree'
    BY <2>1, <2>7 DEF StreamBreaks, StreamCancelled
  <2>8. CASE AgeWindow
    <3>1. PICK s \in 0..window.success, f \in 0..window.failure :
              window' = [success |-> s, failure |-> f]
      BY <2>8 DEF AgeWindow
    <3>2. window'.failure = 0
      BY <3>1, <2>2 DEF FaultFree
    <3>3. UNCHANGED <<state, outcome>>
      BY <2>8 DEF AgeWindow
    <3>4. QED
      BY <2>2, <3>2, <3>3 DEF FaultFree
  <2>9. CASE OpenTimeoutElapses \/ UpstreamHeals \/ Broadcast \/ UNCHANGED vars
    BY <2>2, <2>9 DEF OpenTimeoutElapses, UpstreamHeals, Broadcast, vars, FaultFree
  <2>10. QED
    BY <2>3, <2>4, <2>5, <2>6, <2>7, <2>8, <2>9 DEF Next, Progress
<1>3. Inv => OnlyFaultsTrip
  BY DEF OnlyFaultsTrip, FaultFree
<1>4. QED
  BY <1>1, <1>2, <1>3, TypeCorrect, PTL DEF Spec

-----------------------------------------------------------------------------
(* The probes of one half-open episode *)

LEMMA ProbesShrink ==
    ASSUME CurrentProbes' \subseteq CurrentProbes, halfOpenSent \in Nat,
           Cardinality(CurrentProbes) <= halfOpenSent, halfOpenSent' = halfOpenSent
    PROVE  Cardinality(CurrentProbes') <= halfOpenSent'
<1>1. IsFiniteSet(CurrentProbes) /\ Cardinality(CurrentProbes) \in Nat
  BY CallSetsFinite DEF CurrentProbes
<1>2. /\ Cardinality(CurrentProbes') <= Cardinality(CurrentProbes)
      /\ Cardinality(CurrentProbes') \in Nat
  BY <1>1, FS_Subset, FS_CardinalityType
<1>3. QED
  BY <1>1, <1>2

\* However often the breaker reopens while probes are in flight, one episode
\* never has more than its quota of them running.
THEOREM EpisodeQuotaKept == Spec => []EpisodeProbesBounded
<1> DEFINE Inv == Cardinality(CurrentProbes) <= halfOpenSent
<1>1. Init => Inv
  <2> SUFFICES ASSUME Init PROVE Inv
    OBVIOUS
  <2>1. CurrentProbes = {} /\ halfOpenSent = 0
    BY DEF Init, CurrentProbes
  <2>2. Cardinality({}) = 0
    BY FS_EmptySet, Zenon
  <2>3. Cardinality(CurrentProbes) = 0
    BY <2>1, <2>2, Zenon
  <2>4. QED
    BY <2>1, <2>3
<1>2. TypeOK /\ Inv /\ [Next]_vars => Inv'
  <2> SUFFICES ASSUME TypeOK, Inv, [Next]_vars PROVE Inv'
    OBVIOUS
  <2> USE DEF breakerVars, callVars, history
  <2>1. IsFiniteSet(CurrentProbes) /\ Cardinality(CurrentProbes) \in Nat /\ halfOpenSent \in Nat
    BY CallSetsFinite DEF CurrentProbes, TypeOK
  <2>2. ASSUME NEW c \in Calls, AllowFirstProbe(c) PROVE Inv'
    <3>1. CurrentProbes' = {c}
      BY <2>2 DEF AllowFirstProbe, CurrentProbes
    <3>2. Cardinality({c}) = 1
      BY FS_Singleton
    <3>3. Cardinality(CurrentProbes') = 1
      BY <3>1, <3>2, Zenon
    <3>4. QED
      BY <2>2, <3>3 DEF AllowFirstProbe
  <2>3. ASSUME NEW c \in Calls, AllowNextProbe(c) PROVE Inv'
    <3>1. CurrentProbes' = CurrentProbes \cup {c}
      BY <2>3 DEF AllowNextProbe, CurrentProbes, TypeOK
    <3>2. Cardinality(CurrentProbes') <= Cardinality(CurrentProbes) + 1
      BY <3>1, <2>1, FS_AddElement
    <3>3. Cardinality(CurrentProbes') \in Nat
      BY CallSetsFinite DEF CurrentProbes
    <3>4. QED
      BY <2>1, <2>3, <3>2, <3>3 DEF AllowNextProbe
  <2>4. ASSUME NEW c \in Calls,
               AcquireTimeout(c) \/ AcquireCancelled(c) \/ Report(c)
        PROVE  Inv'
    <3>1. probe' = [probe EXCEPT ![c] = "no"] /\ halfOpenSent' = halfOpenSent
      BY <2>4 DEF AcquireTimeout, AcquireCancelled, LeaveWithoutLease, Report,
           BreakerReport, ReportHalfOpenSuccess, ReportHalfOpenFailure, ReportRecorded
    <3>2. CurrentProbes' \subseteq CurrentProbes
      BY <3>1 DEF CurrentProbes, TypeOK
    <3>3. QED
      BY <2>1, <3>1, <3>2, ProbesShrink
  <2>5. ASSUME probe' = probe, halfOpenSent' = halfOpenSent PROVE Inv'
    <3>1. CurrentProbes' \subseteq CurrentProbes
      BY <2>5 DEF CurrentProbes
    <3>2. QED
      BY <2>1, <2>5, <3>1, ProbesShrink
  <2>6. ASSUME NEW c \in Calls,
               \/ AllowClosed(c) \/ RejectByCircuit(c) \/ BackoffCancelled(c)
               \/ StreamBreaks(c) \/ StreamCancelled(c) \/ AcquireSlot(c) \/ TimerElapses(c) \/ Try(c)
               \/ BackoffElapses(c) \/ CloseBody(c) \/ Release(c) \/ Return(c)
        PROVE  probe' = probe /\ halfOpenSent' = halfOpenSent
    BY <2>6 DEF AllowClosed, RejectByCircuit, BackoffCancelled, StreamBreaks, StreamCancelled,
         AcquireSlot, TimerElapses, Try, BackoffElapses, CloseBody, Release, Return
  <2>7. ASSUME OpenTimeoutElapses \/ AgeWindow \/ UpstreamHeals \/ Broadcast \/ UNCHANGED vars
        PROVE  probe' = probe /\ halfOpenSent' = halfOpenSent
    BY <2>7 DEF OpenTimeoutElapses, AgeWindow, UpstreamHeals, Broadcast, vars
  <2>8. QED
    BY <2>2, <2>3, <2>4, <2>5, <2>6, <2>7 DEF Next, Allow, Progress
<1>3. TypeOK /\ Inv => EpisodeProbesBounded
  <2> SUFFICES ASSUME TypeOK, Inv PROVE EpisodeProbesBounded
    OBVIOUS
  <2>1. Cardinality(CurrentProbes) \in Nat
    BY CallSetsFinite DEF CurrentProbes
  <2>2. QED
    BY <2>1, GuardAssumption DEF EpisodeProbesBounded, TypeOK
<1>4. QED
  BY <1>1, <1>2, <1>3, TypeCorrect, PTL DEF Spec


-----------------------------------------------------------------------------
(* The abstract bulkhead *)

\* A call keeps its slot while it moves within its lease, and is none of the
\* holders while it moves outside.
LEMMA HoldersKept ==
    ASSUME TypeOK, NEW c \in Calls, NEW label \in Labels, Goto(c, label),
           (pc[c] \in {"send", "backoff", "stream", "done", "release"})
             = (label \in {"send", "backoff", "stream", "done", "release"})
    PROVE  Holders' = Holders
<1>1. \A d \in Calls : pc'[d] = IF d = c THEN label ELSE pc[d]
  BY DEF TypeOK, Goto
<1>2. QED
  BY <1>1 DEF Holders

\* Taking the channel's token is Acquire of the abstract bulkhead: there is room,
\* because the tokens in the channel are the holders.
LEMMA AcquireRefines ==
    ASSUME GuardInv, BulkheadEnabled, NEW c \in Calls, AcquireSlot(c)
    PROVE  Abstract!Acquire(c)
<1>1. \A d \in Calls : pc'[d] = IF d = c THEN "send" ELSE pc[d]
  BY DEF GuardInv, TypeOK, AcquireSlot, Goto
<1>2. Waiting(c) /\ Cardinality(Holders) < MaxConcurrent
  BY DEF GuardInv, AcquireSlot, SlotsMatchHolders
<1>3. Holders' = Holders \cup {c} /\ c \notin Holders
  BY <1>1, <1>2 DEF Holders, Waiting
<1>4. Abstract!Cardinality(Holders) = Cardinality(Holders)
  BY Zenon DEF Abstract!Cardinality, Cardinality
<1>5. QED
  BY <1>2, <1>3, <1>4 DEF Abstract!Acquire

LEMMA ReleaseRefines ==
    ASSUME TypeOK, NEW c \in Calls, Release(c)
    PROVE  Abstract!Release(c)
<1>1. \A d \in Calls : pc'[d] = IF d = c THEN "closed" ELSE pc[d]
  BY DEF TypeOK, Release, Goto
<1>2. Holders' = Holders \ {c} /\ c \in Holders
  BY <1>1 DEF Holders, Release
<1>3. QED
  BY <1>2 DEF Abstract!Release

\* Every other step of a call stutters.
LEMMA OthersStutter ==
    ASSUME TypeOK, BulkheadEnabled, NEW c \in Calls,
           \/ Allow(c) \/ RejectByCircuit(c) \/ TimerElapses(c)
           \/ AcquireTimeout(c) \/ AcquireCancelled(c)
           \/ Try(c) \/ BackoffElapses(c) \/ BackoffCancelled(c) \/ StreamBreaks(c)
           \/ StreamCancelled(c) \/ CloseBody(c) \/ Report(c) \/ Return(c)
    PROVE  Holders' = Holders
<1>1. CASE StreamBreaks(c) \/ StreamCancelled(c)
  BY <1>1 DEF StreamBreaks, StreamCancelled, Holders
<1>2. CASE Return(c)
  <2>1. pc[c] \notin {"send", "backoff", "stream", "done", "release"} /\ Goto(c, "idle")
    BY <1>2 DEF Return
  <2>2. QED
    BY <2>1, HoldersKept DEF Labels
<1>3. CASE Allow(c)
  <2>1. pc[c] = "idle" /\ Goto(c, "acquire")
    BY <1>3 DEF Allow, AllowClosed, AllowFirstProbe, AllowNextProbe, Admit
  <2>2. QED
    BY <2>1, HoldersKept DEF Labels
<1>4. CASE RejectByCircuit(c)
  BY <1>4, HoldersKept DEF RejectByCircuit, Labels
<1>5. CASE AcquireTimeout(c) \/ AcquireCancelled(c)
  <2>1. Waiting(c) /\ Goto(c, "rejected")
    BY <1>5 DEF AcquireTimeout, AcquireCancelled, LeaveWithoutLease, Waiting
  <2>2. QED
    BY <2>1, HoldersKept DEF Labels, Waiting
<1>6. CASE Try(c)
  <2>1. PICK label \in {"stream", "backoff", "done"} : pc[c] = "send" /\ Goto(c, label)
    BY <1>6 DEF Try, TrySucceeds, TryFailsRetryably, TryCancelled, RetryOrGiveUp,
         TryRefused
  <2>2. QED
    BY <2>1, HoldersKept DEF Labels
<1>7. CASE BackoffElapses(c)
  BY <1>7, HoldersKept DEF BackoffElapses, Labels
<1>8. CASE BackoffCancelled(c)
  BY <1>8, HoldersKept DEF BackoffCancelled, Labels
<1>9. CASE CloseBody(c)
  BY <1>9, HoldersKept DEF CloseBody, Labels
<1>10. CASE Report(c)
  BY <1>10, HoldersKept DEF Report, LeaseEnds, Labels
<1>11. CASE TimerElapses(c)
  BY <1>11, HoldersKept DEF TimerElapses, Labels
<1>12. QED
  BY <1>1, <1>2, <1>3, <1>4, <1>5, <1>6, <1>7, <1>8, <1>9, <1>10, <1>11

\* With the bulkhead on, breaker, retries and streams implement the abstract
\* bulkhead: a step of the guard takes one slot that is free, gives one back,
\* or changes none.
THEOREM RefinesBulkhead ==
    ASSUME BulkheadEnabled
    PROVE  Spec => Abstract!Spec
<1>1. Init => Abstract!Init
  BY DEF Init, Abstract!Init, Holders
<1>2. GuardInv /\ [Next]_vars => [Abstract!Next]_Holders
  <2> SUFFICES ASSUME GuardInv, [Next]_vars
               PROVE  Abstract!Next \/ Holders' = Holders
    OBVIOUS
  <2>1. TypeOK
    BY DEF GuardInv
  <2>2. ASSUME NEW c \in Calls, AcquireSlot(c) PROVE Abstract!Next
    BY <2>2, AcquireRefines DEF Abstract!Next
  <2>3. ASSUME NEW c \in Calls, Release(c) PROVE Abstract!Next
    BY <2>1, <2>3, ReleaseRefines DEF Abstract!Next
  <2>4. ASSUME NEW c \in Calls,
               \/ Allow(c) \/ RejectByCircuit(c) \/ TimerElapses(c)
               \/ AcquireTimeout(c) \/ AcquireCancelled(c)
               \/ Try(c) \/ BackoffElapses(c) \/ BackoffCancelled(c) \/ StreamBreaks(c)
               \/ StreamCancelled(c) \/ CloseBody(c) \/ Report(c) \/ Return(c)
        PROVE  Holders' = Holders
    BY <2>1, <2>4, OthersStutter
  <2>5. CASE OpenTimeoutElapses \/ AgeWindow \/ UpstreamHeals \/ Broadcast \/ UNCHANGED vars
    BY <2>5 DEF OpenTimeoutElapses, AgeWindow, UpstreamHeals, Broadcast, vars, callVars, Holders
  <2>6. QED
    BY <2>2, <2>3, <2>4, <2>5 DEF Next, Progress
<1>3. Spec => []GuardInv
  BY GuardInvariant
<1>4. QED
  BY <1>1, <1>2, <1>3, PTL DEF Spec, Abstract!Spec
=============================================================================
