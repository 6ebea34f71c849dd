------------------------------- MODULE MCLive -------------------------------
(* What must eventually happen on the way to an upstream: an access token    *)
(* that has expired is replaced while no owner reauthorizes (OAuthToken),    *)
(* and the calls of one endpoint get through its guard, with the bulkhead or *)
(* by the breaker alone (Guard with it on and off, over the same variables). *)
(* They share no state: a behaviour moves the one its focus names.           *)
EXTENDS OAuthToken

CONSTANTS Calls, CircuitEnabled, MinRequests, ThresholdNum, ThresholdDen,
    HalfOpenMaxRequests, MaxConcurrent, Cancellable, MaxAttempts, WindowCap

VARIABLES focus,
    state, window, openTimeoutElapsed, halfOpenSent, halfOpenOK, slots,
    callPc, attempt, outcome, healed, cancelled, faulted, probe, ahead

On == INSTANCE Guard WITH BulkheadEnabled <- TRUE, pc <- callPc
Off == INSTANCE Guard WITH BulkheadEnabled <- FALSE, pc <- callPc

guardVars == <<state, window, openTimeoutElapsed, halfOpenSent, halfOpenOK, slots,
               callPc, attempt, outcome, healed, cancelled, faulted, probe, ahead>>

MCInit ==
    /\ Init /\ On!Init
    /\ focus \in {"tokens", "bulkhead", "breaker"}

Refreshing(p) == focus = "tokens" /\ Refresh(p) /\ UNCHANGED <<focus, guardVars>>
Expiring == focus = "tokens" /\ LockExpires /\ UNCHANGED <<focus, guardVars>>

\* The rest of OAuthToken!Next without authorizers.
Hindrance ==
    \/ \E p \in Refreshers : Failure(p)
    \/ \E t \in Token : TimePasses(t) \/ Revoke(t)

MCNext ==
    \/ \E p \in Refreshers : Refreshing(p)
    \/ Expiring
    \/ focus = "tokens" /\ Hindrance /\ UNCHANGED <<focus, guardVars>>
    \/ focus = "bulkhead" /\ On!Next /\ UNCHANGED <<focus, vars>>
    \/ focus = "breaker" /\ Off!Next /\ UNCHANGED <<focus, vars>>

\* The fairness of each, of the one looked at.
Guarding == focus \in {"bulkhead", "breaker"}
Progressing(c) ==
    \/ focus = "bulkhead" /\ On!Progress(c)
    \/ focus = "breaker" /\ Off!Progress(c)
Calling ==
    \E c \in Calls :
        \/ focus = "bulkhead" /\ On!Allow(c)
        \/ focus = "breaker" /\ Off!Allow(c)

MCFairSpec ==
    /\ MCInit /\ [][MCNext]_<<focus, vars, guardVars>>
    /\ \A p \in Refreshers : WF_vars(Refreshing(p))
    /\ WF_vars(Expiring)
    /\ \A c \in Calls : WF_guardVars(Progressing(c))
    /\ WF_guardVars(Guarding /\ On!OpenTimeoutElapses)
    /\ WF_guardVars(Guarding /\ On!AgeWindow)
    /\ WF_guardVars(Calling)

\* Guard implements the abstract bulkhead, fairness of Release included, whenever
\* its own is on: breaker, retries and streams never lose or invent a slot.
AbstractOn == INSTANCE Bulkhead WITH holders <- IF focus = "bulkhead" THEN On!Holders ELSE {}
ImplementsBulkhead == AbstractOn!FairSpec

\* Every call ends, whatever the breaker and the others do (Guard).
CallsReturn == On!CallsReturn

\* Once the upstream is healthy the breaker gets back to closed, with the
\* bulkhead and without, unless the process drains first (README.md:103): a
\* probe the bulkhead turned away, which reports nothing, is made up for by
\* the reports of those that hold its slots.
RecoversAfterHeal == (Guarding /\ healed) ~> (state = "closed" \/ cancelled)
=============================================================================
