------------------------------- MODULE Guard -------------------------------
(***************************************************************************)
(* The fault-tolerance guard in front of one upstream endpoint: the        *)
(* three-state circuit breaker, the per-endpoint bulkhead semaphore, the   *)
(* lease that ties both to the life of one upstream call, and the retry    *)
(* loop the lease encloses                                                 *)
(* (internal/common/resilience, internal/infrastructure/transport).        *)
(*                                                                         *)
(* Calls are goroutines forwarding a request to the endpoint.  A call goes *)
(*   idle -> acquire -> send <-> backoff -> stream -> done -> release      *)
(* one step per place where another goroutine can run in between: the      *)
(* breaker's mutex, the semaphore's channel and the network.               *)
(*                                                                         *)
(* Data left out: the clock.  OpenTimeout is a flag raised while the       *)
(* breaker is open; the six time buckets of the sliding window are two     *)
(* counters, from which AgeWindow may expire any part at any moment (the   *)
(* arithmetic of the buckets is left out).  The timer of Acquire runs 100  *)
(* ms at least (ResilienceMinAcquireTimeout): what is assumed of it is     *)
(* that a call which had reported when the wait began, and had only its    *)
(* next statement left, has released by then (ahead).                      *)
(***************************************************************************)
EXTENDS Integers, FiniteSets

CONSTANTS
    Calls,                \* goroutines that forward requests to the endpoint
    CircuitEnabled,       \* upstream.circuit.enabled
    BulkheadEnabled,      \* upstream.bulkhead.enabled
    MinRequests,          \* reports a window needs before it may trip
    ThresholdNum,         \* the error threshold is ThresholdNum/ThresholdDen
    ThresholdDen,
    HalfOpenMaxRequests,  \* probes of one half-open episode
    MaxConcurrent,        \* slots of the bulkhead
    Cancellable,          \* may the process drain while calls run
    MaxAttempts,          \* upstream.retry.max_attempts: retries after the first try
    WindowCap             \* bound: no call starts while the window holds this many reports

\* The clamps of internal/config/config.go keep every setting in this range.
ASSUME GuardAssumption ==
    /\ IsFiniteSet(Calls)
    /\ CircuitEnabled \in BOOLEAN
    /\ BulkheadEnabled \in BOOLEAN
    /\ MinRequests \in Nat \ {0}
    /\ ThresholdNum \in Nat \ {0}
    /\ ThresholdDen \in Nat \ {0}
    /\ HalfOpenMaxRequests \in Nat \ {0}
    /\ MaxConcurrent \in Nat \ {0}
    /\ Cancellable \in BOOLEAN
    /\ MaxAttempts \in Nat
    /\ WindowCap \in Nat

VARIABLES
    \* the Breaker
    state,              \* "closed", "open" or "halfOpen"
    window,             \* outcomes in the sliding window: [success, failure]
    openTimeoutElapsed, \* time.Since(openSince) >= OpenTimeout
    halfOpenSent,
    halfOpenOK,
    \* the Semaphore
    slots,              \* length of the endpoint's channel
    \* the calls
    pc,
    attempt,            \* attempt number of the retry loop
    outcome,            \* what the lease will report: success and not failed
    \* the upstream, and what only the properties look at
    healed,             \* the upstream stopped failing, for good
    cancelled,          \* the drain broadcast ended the ctx of every call
    faulted,            \* history: the upstream failed some call
    probe,              \* history: which half-open episode admitted the call
    ahead               \* history: who had reported and not released at Admit

breakerVars == <<state, window, openTimeoutElapsed, halfOpenSent, halfOpenOK>>
callVars    == <<pc, attempt, outcome>>
world       == <<healed, cancelled>>
history     == <<faulted, probe, ahead>>
vars        == <<breakerVars, slots, callVars, world, history>>

EmptyWindow == [success |-> 0, failure |-> 0]

Init ==
    /\ state = "closed"
    /\ window = EmptyWindow
    /\ openTimeoutElapsed = FALSE
    /\ halfOpenSent = 0
    /\ halfOpenOK = 0
    /\ slots = 0
    /\ pc = [c \in Calls |-> "idle"]
    /\ attempt = [c \in Calls |-> 0]
    /\ outcome = [c \in Calls |-> TRUE]
    /\ healed = FALSE
    /\ cancelled = FALSE
    /\ faulted = FALSE
    /\ probe = [c \in Calls |-> "no"]
    /\ ahead = [c \in Calls |-> {}]

Goto(c, label) == pc' = [pc EXCEPT ![c] = label]

-----------------------------------------------------------------------------
(* Guard.Allow, first half: the breaker *)

RoomInWindow == window.success + window.failure < WindowCap

\* The call passed the breaker and goes on to the semaphore, if there is one.
Admit(c) ==
    /\ pc[c] = "idle"
    /\ RoomInWindow
    /\ Goto(c, IF BulkheadEnabled THEN "acquire" ELSE "send")
    /\ ahead' = [ahead EXCEPT ![c] = IF BulkheadEnabled THEN {d \in Calls : pc[d] = "release"}
                                     ELSE {}]
    /\ UNCHANGED <<slots, attempt, outcome, world, faulted>>

AllowClosed(c) ==
    /\ Admit(c)
    /\ CircuitEnabled => state = "closed"
    /\ UNCHANGED <<breakerVars, probe>>

\* Mutation of AllowFirstProbe: the first probe is not counted.
FirstProbeUncounted(c) ==
    /\ Admit(c)
    /\ CircuitEnabled /\ state = "open" /\ openTimeoutElapsed
    /\ state' = "halfOpen"
    /\ halfOpenSent' = 0
    /\ halfOpenOK' = 0
    /\ probe' = [d \in Calls |-> IF d = c THEN "current"
                                 ELSE IF probe[d] = "current" THEN "stale"
                                 ELSE probe[d]]
    /\ UNCHANGED <<window, openTimeoutElapsed>>

\* The first call after OpenTimeout turns the breaker half-open and is its
\* first probe; calls admitted by earlier episodes may still be running.
AllowFirstProbe(c) ==
    /\ Admit(c)
    /\ CircuitEnabled /\ state = "open" /\ openTimeoutElapsed
    /\ state' = "halfOpen"
    /\ halfOpenSent' = 1
    /\ halfOpenOK' = 0
    /\ probe' = [d \in Calls |-> IF d = c THEN "current"
                                 ELSE IF probe[d] = "current" THEN "stale"
                                 ELSE probe[d]]
    /\ UNCHANGED <<window, openTimeoutElapsed>>

AllowNextProbe(c) ==
    /\ Admit(c)
    /\ CircuitEnabled /\ state = "halfOpen" /\ halfOpenSent < HalfOpenMaxRequests
    /\ halfOpenSent' = halfOpenSent + 1
    /\ probe' = [probe EXCEPT ![c] = "current"]
    /\ UNCHANGED <<state, window, openTimeoutElapsed, halfOpenOK>>

\* *model.CircuitOpenError
RejectByCircuit(c) ==
    /\ pc[c] = "idle"
    /\ CircuitEnabled
    /\ \/ state = "open" /\ ~openTimeoutElapsed
       \/ state = "halfOpen" /\ halfOpenSent >= HalfOpenMaxRequests
    /\ Goto(c, "rejected")
    /\ UNCHANGED <<breakerVars, slots, attempt, outcome, world, history>>

Allow(c) == AllowClosed(c) \/ AllowFirstProbe(c) \/ AllowNextProbe(c)

-----------------------------------------------------------------------------
(* Guard.Allow, second half: the semaphore *)

\* In the select of Acquire, its timer running or, at "timeout", gone off.
Waiting(c) == pc[c] \in {"acquire", "timeout"}

\* Mutation of AcquireSlot: a channel one longer than MaxConcurrent.
AcquireSlotOneOver(c) ==
    /\ Waiting(c)
    /\ slots <= MaxConcurrent
    /\ slots' = slots + 1
    /\ ahead' = [ahead EXCEPT ![c] = {}]
    /\ Goto(c, "send")
    /\ UNCHANGED <<breakerVars, attempt, outcome, world, faulted, probe>>

AcquireSlot(c) ==
    /\ Waiting(c)
    /\ slots < MaxConcurrent
    /\ slots' = slots + 1
    /\ ahead' = [ahead EXCEPT ![c] = {}]
    /\ Goto(c, "send")
    /\ UNCHANGED <<breakerVars, attempt, outcome, world, faulted, probe>>

\* Allow returns the error of Acquire: the call ends without a lease, and
\* nobody tells the breaker.
LeaveWithoutLease(c) ==
    /\ Goto(c, "rejected")
    /\ probe' = [probe EXCEPT ![c] = "no"]
    /\ ahead' = [ahead EXCEPT ![c] = {}]
    /\ UNCHANGED <<breakerVars, slots, attempt, outcome, world, faulted>>

\* time.After: only a call that found every slot taken is still there.
TimerElapses(c) ==
    /\ pc[c] = "acquire"
    /\ slots = MaxConcurrent
    /\ ahead[c] = {}
    /\ Goto(c, "timeout")
    /\ UNCHANGED <<breakerVars, slots, attempt, outcome, world, history>>

\* Mutation of AcquireTimeout: the select has no time.After branch.
AcquireWaitsForever(c) == FALSE

\* *model.BulkheadFullError: the select may take this branch even when a slot
\* has just become free.
AcquireTimeout(c) ==
    /\ pc[c] = "timeout"
    /\ LeaveWithoutLease(c)

\* ctx.Done: the select may take this branch even when a slot is free.  Only
\* the drain broadcast ends the ctx of a call (CancelOnDrain).
AcquireCancelled(c) ==
    /\ cancelled
    /\ Waiting(c)
    /\ LeaveWithoutLease(c)

-----------------------------------------------------------------------------
(* SendUpstreamWithRetry inside the lease *)

\* One try of sendFn: 200; a circuit error (no connection, or a 5xx); a 429;
\* any other refusal.  Only the first two say something about health.
TrySucceeds(c) ==
    /\ pc[c] = "send"
    /\ Goto(c, "stream")
    /\ UNCHANGED <<attempt, outcome, faulted>>

\* The retry loop after a failed try: wait for the next, or report what is left.
RetryOrGiveUp(c, countsAsFailure) ==
    /\ pc[c] = "send"
    /\ \/ /\ attempt[c] < MaxAttempts
          /\ Goto(c, "backoff")
          /\ UNCHANGED outcome
       \/ /\ attempt[c] >= MaxAttempts
          /\ Goto(c, "done")
          /\ outcome' = [outcome EXCEPT ![c] = ~countsAsFailure]
    /\ UNCHANGED attempt

\* Mutation of TryFailsRetryably: IsCircuitError counts a 429 as a fault.
ThrottlingCounts(c, circuitError) ==
    /\ circuitError => ~healed
    /\ faulted' = (faulted \/ circuitError)
    /\ RetryOrGiveUp(c, TRUE)

TryFailsRetryably(c, circuitError) ==
    /\ circuitError => ~healed
    /\ faulted' = (faulted \/ circuitError)
    /\ RetryOrGiveUp(c, circuitError)

\* client.Do fails because the ctx ended: to the retry loop and to the breaker
\* an UpstreamConnectionError like any other.
TryCancelled(c) ==
    /\ cancelled
    /\ RetryOrGiveUp(c, TRUE)
    /\ UNCHANGED faulted

TryRefused(c) ==
    /\ pc[c] = "send"
    /\ Goto(c, "done")
    /\ UNCHANGED <<attempt, outcome, faulted>>

Try(c) ==
    /\ \/ TrySucceeds(c)
       \/ \E circuitError \in BOOLEAN : TryFailsRetryably(c, circuitError)
       \/ TryCancelled(c)
       \/ TryRefused(c)
    /\ UNCHANGED <<breakerVars, slots, world, probe, ahead>>

BackoffElapses(c) ==
    /\ pc[c] = "backoff"
    /\ Goto(c, "send")
    /\ attempt' = [attempt EXCEPT ![c] = @ + 1]
    /\ UNCHANGED <<breakerVars, slots, outcome, world, history>>

\* ctx.Done while waiting: SendUpstreamWithRetry returns ctx.Err(), which is
\* no circuit error, whatever the tries before it met.
BackoffCancelled(c) ==
    /\ cancelled
    /\ pc[c] = "backoff"
    /\ Goto(c, "done")
    /\ UNCHANGED <<breakerVars, slots, attempt, outcome, world, history>>

-----------------------------------------------------------------------------
(* The response body bound to the lease, and the end of the lease *)

\* leaseBoundBody.Read fails with anything but EOF: lease.Fail.
StreamBreaks(c) ==
    /\ pc[c] = "stream"
    /\ ~healed
    /\ outcome[c]
    /\ outcome' = [outcome EXCEPT ![c] = FALSE]
    /\ faulted' = TRUE
    /\ UNCHANGED <<breakerVars, slots, pc, attempt, world, probe, ahead>>

\* The body is cut by the broadcast, which the same Read reports as a failure.
StreamCancelled(c) ==
    /\ pc[c] = "stream"
    /\ cancelled
    /\ outcome[c]
    /\ outcome' = [outcome EXCEPT ![c] = FALSE]
    /\ UNCHANGED <<breakerVars, slots, pc, attempt, world, history>>

\* leaseBoundBody.Close: the body is closed, then the lease ends.
CloseBody(c) ==
    /\ pc[c] = "stream"
    /\ Goto(c, "done")
    /\ UNCHANGED <<breakerVars, slots, attempt, outcome, world, history>>

WindowTrips(w) ==
    /\ w.success + w.failure >= MinRequests
    /\ w.failure * ThresholdDen >= ThresholdNum * (w.success + w.failure)

\* Breaker.Report in the half-open state.  Any report counts, whoever sent it.
ReportHalfOpenSuccess ==
    /\ halfOpenOK' = halfOpenOK + 1
    /\ \/ /\ halfOpenOK + 1 >= HalfOpenMaxRequests
          /\ state' = "closed"
          /\ window' = EmptyWindow
       \/ /\ halfOpenOK + 1 < HalfOpenMaxRequests
          /\ UNCHANGED <<state, window>>
    /\ UNCHANGED <<openTimeoutElapsed, halfOpenSent>>

ReportHalfOpenFailure ==
    /\ state' = "open"
    /\ openTimeoutElapsed' = FALSE
    /\ UNCHANGED <<window, halfOpenSent, halfOpenOK>>

\* Breaker.Report otherwise: record, and while closed decide whether to open.
ReportRecorded(success) ==
    LET w == IF success THEN [window EXCEPT !.success = @ + 1]
                        ELSE [window EXCEPT !.failure = @ + 1]
    IN  /\ window' = w
        /\ IF state = "closed" /\ WindowTrips(w)
             THEN state' = "open" /\ openTimeoutElapsed' = FALSE
             ELSE UNCHANGED <<state, openTimeoutElapsed>>
        /\ UNCHANGED <<halfOpenSent, halfOpenOK>>

BreakerReport(success) ==
    \/ state = "halfOpen" /\ success /\ ReportHalfOpenSuccess
    \/ state = "halfOpen" /\ ~success /\ ReportHalfOpenFailure
    \/ state # "halfOpen" /\ ReportRecorded(success)

\* The call's lease has reported, and the next call starts with another.
LeaseEnds(c) ==
    /\ Goto(c, "release")
    /\ attempt' = [attempt EXCEPT ![c] = 0]
    /\ outcome' = [outcome EXCEPT ![c] = TRUE]

\* Mutation of Report: a lease knows its episode, and half-open takes the word
\* of its own probes only.
ReportOfOwnEpisode(c) ==
    /\ pc[c] = "done"
    /\ \/ CircuitEnabled /\ (state = "halfOpen" => probe[c] = "current") /\ BreakerReport(outcome[c])
       \/ CircuitEnabled /\ state = "halfOpen" /\ probe[c] # "current" /\ UNCHANGED breakerVars
       \/ ~CircuitEnabled /\ UNCHANGED breakerVars
    /\ probe' = [probe EXCEPT ![c] = "no"]
    /\ LeaseEnds(c)
    /\ UNCHANGED <<slots, world, faulted, ahead>>

\* GuardLease.Done: report, then release, once.
Report(c) ==
    /\ pc[c] = "done"
    /\ \/ CircuitEnabled /\ BreakerReport(outcome[c])
       \/ ~CircuitEnabled /\ UNCHANGED breakerVars
    /\ probe' = [probe EXCEPT ![c] = "no"]
    /\ LeaseEnds(c)
    /\ UNCHANGED <<slots, world, faulted, ahead>>

Release(c) ==
    /\ pc[c] = "release"
    /\ slots' = IF BulkheadEnabled THEN slots - 1 ELSE slots
    /\ ahead' = [d \in Calls |-> ahead[d] \ {c}]
    /\ Goto(c, "closed")
    /\ UNCHANGED <<breakerVars, attempt, outcome, world, faulted, probe>>

\* Mutation of Return: the second Close ends the lease a second time.
ReturnReleasesAgain(c) ==
    /\ pc[c] \in {"closed", "rejected"}
    /\ slots' = IF pc[c] = "closed" /\ slots > 0 THEN slots - 1 ELSE slots
    /\ Goto(c, "idle")
    /\ UNCHANGED <<breakerVars, attempt, outcome, world, history>>

\* The adapter closes the body a second time, which the lease's once absorbs,
\* and the call returns; a rejected call just returns.
Return(c) ==
    /\ pc[c] \in {"closed", "rejected"}
    /\ Goto(c, "idle")
    /\ UNCHANGED <<breakerVars, slots, attempt, outcome, world, history>>

-----------------------------------------------------------------------------
(* Time and the upstream *)

OpenTimeoutElapses ==
    /\ state = "open"
    /\ ~openTimeoutElapsed
    /\ openTimeoutElapsed' = TRUE
    /\ UNCHANGED <<state, window, halfOpenSent, halfOpenOK, slots, callVars, world, history>>

\* Whole buckets leave the window; they may hold any part of the outcomes.
AgeWindow ==
    \E s \in 0..window.success, f \in 0..window.failure :
        /\ s + f < window.success + window.failure
        /\ window' = [success |-> s, failure |-> f]
        /\ UNCHANGED <<state, openTimeoutElapsed, halfOpenSent, halfOpenOK,
                       slots, callVars, world, history>>

UpstreamHeals ==
    /\ ~healed
    /\ healed' = TRUE
    /\ UNCHANGED <<breakerVars, slots, callVars, cancelled, history>>

\* Tracker.broadcastCancel: the shutdown ends the ctx of every call at once; a
\* call of a request still on its way gets a ctx that has ended already.
Broadcast ==
    /\ Cancellable
    /\ ~cancelled
    /\ cancelled' = TRUE
    /\ UNCHANGED <<breakerVars, slots, callVars, healed, history>>

-----------------------------------------------------------------------------

\* What a call does by itself once it was let through the breaker.
Progress(c) ==
    \/ AcquireSlot(c) \/ TimerElapses(c) \/ AcquireTimeout(c)
    \/ Try(c) \/ BackoffElapses(c)
    \/ CloseBody(c) \/ Report(c) \/ Release(c) \/ Return(c)

Next ==
    \/ \E c \in Calls :
          \/ Allow(c) \/ RejectByCircuit(c)
          \/ AcquireCancelled(c) \/ BackoffCancelled(c)
          \/ StreamBreaks(c) \/ StreamCancelled(c)
          \/ Progress(c)
    \/ OpenTimeoutElapses
    \/ AgeWindow
    \/ UpstreamHeals
    \/ Broadcast

Spec == Init /\ [][Next]_vars

\* The goroutines run on, streams end (the HTTP client's own timeout ends
\* them), the clock moves, and clients keep calling.
Fairness ==
    /\ \A c \in Calls : WF_vars(Progress(c))
    /\ WF_vars(OpenTimeoutElapses)
    /\ WF_vars(AgeWindow)
    /\ WF_vars(\E c \in Calls : Allow(c))

FairSpec == Spec /\ Fairness

-----------------------------------------------------------------------------
(* Properties *)

Labels == {"idle", "acquire", "timeout", "send", "backoff", "stream", "done", "release",
           "closed", "rejected"}

\* The type of every variable; the half-open counters never pass their quota.
TypeOK ==
    /\ state \in {"closed", "open", "halfOpen"}
    /\ window \in [success : Nat, failure : Nat]
    /\ openTimeoutElapsed \in BOOLEAN
    /\ halfOpenSent \in 0..HalfOpenMaxRequests
    /\ halfOpenOK \in 0..HalfOpenMaxRequests
    /\ slots \in 0..MaxConcurrent
    /\ pc \in [Calls -> Labels]
    /\ attempt \in [Calls -> 0..MaxAttempts]
    /\ outcome \in [Calls -> BOOLEAN]
    /\ healed \in BOOLEAN
    /\ cancelled \in BOOLEAN
    /\ faulted \in BOOLEAN
    /\ probe \in [Calls -> {"no", "current", "stale"}]
    /\ ahead \in [Calls -> SUBSET Calls]

\* The calls that occupy an upstream connection under the bulkhead.
Holders == {c \in Calls : pc[c] \in {"send", "backoff", "stream", "done", "release"}}

\* The bulkhead neither leaks a slot nor hands out one twice: a slot is taken
\* exactly while a call is between Acquire and the end of its lease, which for
\* a stream is the Close of its body (guard.go, BindLease).
SlotsMatchHolders ==
    BulkheadEnabled => /\ slots = Cardinality(Holders)
                       /\ Cardinality(Holders) <= MaxConcurrent

\* The inductive strengthening that makes TypeOK and SlotsMatchHolders follow
\* from the step before (module GuardProofs).
GuardInv ==
    /\ TypeOK
    /\ state = "halfOpen" => halfOpenOK < HalfOpenMaxRequests
    /\ \A c \in Calls : pc[c] = "backoff" => attempt[c] < MaxAttempts
    /\ SlotsMatchHolders

CurrentProbes == {c \in Calls : probe[c] = "current"}

\* At most HalfOpenMaxRequests calls admitted by the same half-open episode
\* run at a time, however the breaker is tossed about by reports meanwhile.
EpisodeProbesBounded == Cardinality(CurrentProbes) <= HalfOpenMaxRequests

\* While the upstream has failed nobody and no ctx has ended, nothing anywhere
\* in the guard is about to count a failure: what makes OnlyFaultsTrip inductive.
FaultFree ==
    /\ state = "closed"
    /\ window.failure = 0
    /\ \A c \in Calls : outcome[c]

\* 429s and other refusals never open the breaker: until the process drains it
\* stays closed unless the upstream failed some call, and turns nobody away.
OnlyFaultsTrip == ~faulted /\ ~cancelled => state = "closed"

\* The abstract bulkhead that Guard implements (module GuardProofs): the breaker,
\* the retries and the streams only decide when a slot is taken and given back,
\* never how many.
Abstract == INSTANCE Bulkhead WITH holders <- Holders

\* Every call that reached the guard ends, and with it its slot.
CallsReturn == \A c \in Calls : pc[c] # "idle" ~> pc[c] = "idle"

\* A half-open episode ends with its probes: enum/breaker_state.go:23.
HalfOpenResolves == state = "halfOpen" ~> state # "halfOpen" \/ cancelled
=============================================================================
