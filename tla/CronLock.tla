----------------------------- MODULE CronLock ------------------------------
(***************************************************************************)
(* The distributed lock around one cron job: scheduled firings and manual  *)
(* triggers on every instance take one Redis key by SETNX, run the job,    *)
(* and renew the key from a ticker while the job runs; nobody deletes the  *)
(* key (internal/cron/lock_runner.go, internal/lock).                      *)
(*                                                                         *)
(* A run is a goroutine of some instance.  Time advances by one renewal    *)
(* interval; the key lives TTL intervals (ttl/CronLockDefaultRenewDivisor  *)
(* is the interval).  The key's value is a fresh UUID of the run, so it    *)
(* names the run: a slot of Runs that leaves the key behind cannot take it *)
(* again before it has expired.                                            *)
(***************************************************************************)
EXTENDS Integers, FiniteSets

CONSTANTS
    Runs,              \* goroutines that fire the job, of all instances
    Free,              \* the key does not exist
    TTL,               \* life of the key in renewal intervals
    MaxRenewFailures,  \* CronLockMaxConsecutiveRenewFailures
    MaxFaults          \* bound: crashes and Redis calls that fail

ASSUME CronLockAssumption ==
    /\ Free \notin Runs
    /\ TTL \in Nat \ {0}
    /\ MaxRenewFailures \in Nat \ {0}
    /\ MaxFaults \in Nat

VARIABLES
    holder,     \* the run whose value the key holds
    ttl,        \* intervals the key has left
    pc,         \* "idle" or "running": fn is executing
    renewing,   \* the run's renewLoop has not returned
    due,        \* its ticker has fired and Refresh has not answered
    failCount,
    faults

key  == <<holder, ttl>>
loop == <<renewing, due, failCount>>
vars == <<key, pc, loop, faults>>

TypeOK ==
    /\ holder \in Runs \union {Free}
    /\ ttl \in 0 .. TTL
    /\ pc \in [Runs -> {"idle", "running"}]
    /\ renewing \in [Runs -> BOOLEAN]
    /\ due \in [Runs -> BOOLEAN]
    /\ failCount \in [Runs -> 0 .. MaxRenewFailures]
    /\ faults \in 0 .. MaxFaults

Init ==
    /\ holder = Free
    /\ ttl = 0
    /\ pc = [r \in Runs |-> "idle"]
    /\ renewing = [r \in Runs |-> FALSE]
    /\ due = [r \in Runs |-> FALSE]
    /\ failCount = [r \in Runs |-> 0]
    /\ faults = 0

Fault == faults < MaxFaults /\ faults' = faults + 1

\* SETNX with a TTL; then fn and renewLoop start.
Lock(r) ==
    /\ pc[r] = "idle" /\ holder = Free
    /\ holder' = r
    /\ ttl' = TTL
    /\ pc' = [pc EXCEPT ![r] = "running"]
    /\ renewing' = [renewing EXCEPT ![r] = TRUE]
    /\ due' = [due EXCEPT ![r] = FALSE]
    /\ failCount' = [failCount EXCEPT ![r] = 0]
    /\ UNCHANGED faults

\* The reply of SETNX is lost: the run gives up, its value stays in the key.
LockReplyLost(r) ==
    /\ pc[r] = "idle" /\ holder = Free /\ Fault
    /\ holder' = r
    /\ ttl' = TTL
    /\ UNCHANGED <<pc, loop>>

\* Mutation of StopRunning: cancel is forgotten, renewLoop outlives fn.
StopLeavesLoop(r) ==
    /\ pc[r] = "running"
    /\ pc' = [pc EXCEPT ![r] = "idle"]
    /\ UNCHANGED <<key, loop, faults>>

\* fn returns, or the instance dies with it; the deferred cancel or the death
\* ends renewLoop, and the key is left to expire.
StopRunning(r) ==
    /\ pc[r] = "running"
    /\ pc' = [pc EXCEPT ![r] = "idle"]
    /\ renewing' = [renewing EXCEPT ![r] = FALSE]
    /\ due' = [due EXCEPT ![r] = FALSE]
    /\ UNCHANGED <<key, failCount, faults>>

\* Mutation of RenewSucceeds: Refresh does not compare the value.
RenewForeign(r) ==
    /\ due[r] /\ holder # Free
    /\ ttl' = TTL
    /\ due' = [due EXCEPT ![r] = FALSE]
    /\ failCount' = [failCount EXCEPT ![r] = 0]
    /\ UNCHANGED <<holder, pc, renewing, faults>>

\* Refresh found the run's own value and set the TTL again.
RenewSucceeds(r) ==
    /\ due[r] /\ holder = r
    /\ ttl' = TTL
    /\ due' = [due EXCEPT ![r] = FALSE]
    /\ failCount' = [failCount EXCEPT ![r] = 0]
    /\ UNCHANGED <<holder, pc, renewing, faults>>

\* The key is gone or another's: renewLoop returns, fn goes on.
RenewFindsLost(r) ==
    /\ due[r] /\ holder # r
    /\ due' = [due EXCEPT ![r] = FALSE]
    /\ renewing' = [renewing EXCEPT ![r] = FALSE]
    /\ UNCHANGED <<key, pc, failCount, faults>>

CountFailure(r) ==
    /\ failCount' = [failCount EXCEPT ![r] = @ + 1]
    /\ renewing' = [renewing EXCEPT ![r] = failCount[r] + 1 < MaxRenewFailures]

\* Refresh errs, before or after Redis has carried it out.
RenewFails(r) ==
    /\ due[r] /\ Fault
    /\ CountFailure(r)
    /\ due' = [due EXCEPT ![r] = FALSE]
    /\ ttl' \in {ttl} \union {t \in {TTL} : holder = r}
    /\ UNCHANGED <<holder, pc>>

\* A renewal interval passes: tickers fire.  A renewal takes less than one.
Tick ==
    /\ holder # Free => ttl > 0
    /\ \A r \in Runs : ~due[r]
    /\ ttl' = IF holder = Free THEN ttl ELSE ttl - 1
    /\ due' = [r \in Runs |-> renewing[r]]
    /\ UNCHANGED <<holder, pc, renewing, failCount, faults>>

\* Redis drops the key; a renewal due at that very moment may come first or second.
Expire ==
    /\ holder # Free /\ ttl = 0
    /\ holder' = Free
    /\ UNCHANGED <<ttl, pc, loop, faults>>

Next ==
    \/ \E r \in Runs :
          \/ Lock(r) \/ LockReplyLost(r) \/ StopRunning(r)
          \/ RenewSucceeds(r) \/ RenewFindsLost(r) \/ RenewFails(r)
    \/ Tick \/ Expire

Spec == Init /\ [][Next]_vars

\* Time passes, Redis expires keys, tickers and replies are served, fn returns.
Fairness ==
    /\ WF_vars(Tick) /\ WF_vars(Expire)
    /\ \A r \in Runs :
          /\ WF_vars(StopRunning(r))
          /\ WF_vars(RenewSucceeds(r) \/ RenewFindsLost(r))

FairSpec == Spec /\ Fairness

-----------------------------------------------------------------------------
(* Properties *)

\* The key is set to expire TTL intervals after the last renewal, so the last
\* attempt a run may miss is the one before last: from TTL - 1 failures in a row
\* the key may be gone although renewLoop still tries.
Covered(r) == pc[r] = "running" /\ renewing[r] /\ failCount[r] < TTL - 1

\* Strengthening: a covered run owns the key, and the key has lost no more
\* intervals than the run has failed or pending renewals.
KeyCoversRun ==
    \A r \in Runs : Covered(r) =>
        holder = r /\ ttl >= TTL - failCount[r] - (IF due[r] THEN 1 ELSE 0)

\* A stopped run renews nothing.
LoopEndsWithRun == \A r \in Runs : pc[r] = "idle" => ~renewing[r] /\ ~due[r]

\* Only a loop that has not reached the limit renews.
LoopBelowLimit ==
    \A r \in Runs : /\ due[r] => renewing[r]
                    /\ renewing[r] => failCount[r] < MaxRenewFailures

CronLockInv == TypeOK /\ LoopEndsWithRun /\ LoopBelowLimit /\ KeyCoversRun

\* Two runs of the job overlap only if one of them has not reached Redis for so
\* many renewals in a row that its key expired: one failure less is tolerated.
OneRunUnlessRenewalsFail ==
    \A p, q \in Runs :
        p # q /\ pc[p] = "running" /\ pc[q] = "running" => ~Covered(p) \/ ~Covered(q)

\* The key always becomes free again: no run, dead or alive, holds a job for ever.
KeyComesFree == []<>(holder = Free)
=============================================================================
