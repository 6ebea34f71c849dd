---------------------------- MODULE MCBackground ----------------------------
(* What an instance does beside its requests: cron jobs under their lock     *)
(* (CronLock), the hit counters (HitSync), the trigger words and what they   *)
(* do to a request (TriggerSync, Moderation), and going down (Shutdown).     *)
(* They share no state: a behaviour moves the one its focus names and leaves *)
(* the others at rest.                                                       *)
EXTENDS CronLock, Shutdown, Triggers

VARIABLE focus

syncVars == <<words, bumped, matcher, seen, life, notice, handler, poll, syncFaults>>
hitVars == <<counted, redis, rows, job, keys, popped, raced, hitFaults>>
textVars == <<loaded, checking, steady, rebuilds>>

MCInit ==
    /\ Init /\ SDInit /\ Sync!Init /\ Hits!Init /\ Texts!Init
    /\ focus \in {"cron", "shutdown", "triggers", "hits", "texts"}
    /\ focus # "texts" => loaded = [w \in Vocabulary |-> "none"]

MCNext ==
    \/ focus = "cron" /\ Next /\ UNCHANGED <<focus, sdVars, syncVars, hitVars, textVars>>
    \/ focus = "shutdown" /\ SDNext /\ UNCHANGED <<focus, vars, syncVars, hitVars, textVars>>
    \/ focus = "triggers" /\ Sync!Next /\ UNCHANGED <<focus, vars, sdVars, hitVars, textVars>>
    \/ focus = "hits" /\ Hits!Next /\ UNCHANGED <<focus, vars, sdVars, syncVars, textVars>>
    \/ focus = "texts" /\ Texts!Next /\ UNCHANGED <<focus, vars, sdVars, syncVars, hitVars>>

MCSpec == MCInit /\ [][MCNext]_<<focus, vars, sdVars, syncVars, hitVars, textVars>>

\* The fairness of each component, while it is the one looked at.
DownOn == focus = "shutdown" /\ Alive
SyncOn == focus = "triggers"
MCFairSpec ==
    /\ MCSpec
    /\ WF_vars(focus = "cron" /\ Tick) /\ WF_vars(focus = "cron" /\ Expire)
    /\ \A r \in Runs :
          /\ WF_vars(focus = "cron" /\ StopRunning(r))
          /\ WF_vars(focus = "cron" /\ (RenewSucceeds(r) \/ RenewFindsLost(r)))
    /\ WF_sdVars(DownOn /\ Drain)
    /\ WF_sdVars(DownOn /\ stage # "up" /\ Hook)
    /\ \A r \in Requests : WF_sdVars(DownOn /\
          (TrackAdd(r) \/ TrackRecheck(r) \/ Submit(r) \/ Untrack(r)
             \/ StoreTask(r) \/ UpstreamCancelled(r)))
    /\ \A p \in Pods :
          /\ WF_syncVars(SyncOn /\ Sync!Tell(p))
          /\ WF_syncVars(SyncOn /\ (Sync!Load(p) \/ Sync!StartSync(p)))
          /\ WF_syncVars(SyncOn /\ Sync!HearNotice(p))
          /\ WF_syncVars(SyncOn /\ Sync!FollowVersion(p))
          /\ SF_syncVars(SyncOn /\ Sync!RebuildAnyway(p))
    /\ WF_hitVars(focus = "hits" /\
          (Hits!Scan \/ Hits!Read \/ Hits!Delete \/ (\E w \in Words : Hits!Write(w)) \/ Hits!Finish))
=============================================================================
