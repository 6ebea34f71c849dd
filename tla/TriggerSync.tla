----------------------------- MODULE TriggerSync -----------------------------
(***************************************************************************)
(* The trigger words every instance holds in memory                        *)
(* (application/trigger/service.go).  The words live in the database; an   *)
(* instance that changes them rebuilds its own matcher, publishes a notice *)
(* and raises a version in Redis.  The others rebuild on the notice, when  *)
(* the version they poll has moved, and every five minutes in any case.    *)
(*                                                                         *)
(* The words are abstracted to the number of the last change they contain. *)
(* The polling loop lives as long as the context it was started with: fx   *)
(* passes OnStart the start context, which ends at the start timeout.      *)
(***************************************************************************)
EXTENDS Integers, Sequences

CONSTANTS Pods,        \* instances
          MaxChanges,  \* bound: changes of the words
          MaxFaults    \* bound: failed queries, commands and lost notices

VARIABLES
    words,     \* changes committed to the database
    bumped,    \* the changes whose INCR succeeded; its length is the version
    matcher,   \* what each instance matches against
    seen,      \* TriggerService.lastSeenVersion
    life,      \* "down", "loaded" by OnStart, "up" with its loop, "ended" without
    notice,    \* a notice is waiting in the subscription
    handler,   \* the change an instance's request is at, and its step
    poll,      \* the version checkVersion has read, or None
    faults

vars == <<words, bumped, matcher, seen, life, notice, handler, poll, faults>>

None == -1
Up(p) == life[p] = "up"
Subscribed(p) == life[p] \in {"up", "ended"}
Idle == [step |-> "idle", change |-> 0]
Version == Len(bumped)

Init ==
    /\ words = 0 /\ bumped = <<>> /\ faults = 0
    /\ matcher = [p \in Pods |-> 0]
    /\ seen = [p \in Pods |-> 0]
    /\ life = [p \in Pods |-> "down"]
    /\ notice = [p \in Pods |-> FALSE]
    /\ handler = [p \in Pods |-> Idle]
    /\ poll = [p \in Pods |-> None]

Fault == faults < MaxFaults /\ faults' = faults + 1

\* Rebuild: the matcher of p is read from the database, or kept on an error.
Rebuilt(p) == matcher' = [matcher EXCEPT ![p] = words] /\ UNCHANGED faults
RebuildFails == UNCHANGED matcher /\ Fault

At(p, step) == handler[p].step = step
Goto(p, step) == handler' = [handler EXCEPT ![p].step = step]

------------------------------------------------------------------------------
(* A request that creates, updates or deletes words *)

Change(p) ==
    /\ Subscribed(p) /\ At(p, "idle") /\ words < MaxChanges
    /\ words' = words + 1
    /\ handler' = [handler EXCEPT ![p] = [step |-> "rebuild", change |-> words + 1]]
    /\ UNCHANGED <<bumped, matcher, seen, life, notice, poll, faults>>

RebuildOwn(p) ==
    /\ At(p, "rebuild") /\ Goto(p, "publish")
    /\ Rebuilt(p) \/ RebuildFails
    /\ UNCHANGED <<words, bumped, seen, life, notice, poll>>

\* NotifyChanged publishes first: whoever is not subscribed hears nothing.
Publish(p) ==
    /\ At(p, "publish") /\ Goto(p, "bump")
    /\ \/ notice' = [q \in Pods |-> notice[q] \/ Subscribed(q)] /\ UNCHANGED faults
       \/ UNCHANGED notice /\ Fault
    /\ UNCHANGED <<words, bumped, matcher, seen, life, poll>>

Bump(p) ==
    /\ At(p, "bump") /\ handler' = [handler EXCEPT ![p] = Idle]
    /\ \/ bumped' = Append(bumped, handler[p].change) /\ UNCHANGED faults
       \/ UNCHANGED bumped /\ Fault
    /\ UNCHANGED <<words, matcher, seen, life, notice, poll>>

------------------------------------------------------------------------------
(* Following the changes *)

\* OnStart: a first rebuild, whose failure is ignored ...
Load(p) ==
    /\ life[p] = "down" /\ life' = [life EXCEPT ![p] = "loaded"]
    /\ Rebuilt(p) \/ RebuildFails
    /\ UNCHANGED <<words, bumped, seen, notice, handler, poll>>

\* ... then the subscription and the polling loop.
StartSync(p) ==
    /\ life[p] = "loaded" /\ life' = [life EXCEPT ![p] = "up"]
    /\ UNCHANGED <<words, bumped, matcher, seen, notice, handler, poll, faults>>

HearNotice(p) ==
    /\ notice[p]
    /\ notice' = [notice EXCEPT ![p] = FALSE]
    /\ \/ Up(p) /\ (Rebuilt(p) \/ RebuildFails)
       \/ ~Up(p) /\ UNCHANGED <<matcher, faults>>
    /\ UNCHANGED <<words, bumped, seen, life, handler, poll>>

\* checkVersion reads the version ...
PollVersion(p) ==
    /\ Up(p) /\ poll[p] = None
    /\ poll' = [poll EXCEPT ![p] = Version]
    /\ UNCHANGED <<words, bumped, matcher, seen, life, notice, handler, faults>>

\* Mutation of FollowVersion: a version is acknowledged before its rebuild is known to succeed.
AcknowledgeFirst(p) ==
    /\ poll[p] # None
    /\ poll' = [poll EXCEPT ![p] = None]
    /\ seen' = [seen EXCEPT ![p] = poll[p]]
    /\ \/ poll[p] # seen[p] /\ Up(p) /\ (Rebuilt(p) \/ RebuildFails)
       \/ (poll[p] = seen[p] \/ ~Up(p)) /\ UNCHANGED <<matcher, faults>>
    /\ UNCHANGED <<words, bumped, life, notice, handler>>

\* ... rebuilds if it has moved, and remembers the version it had read.
FollowVersion(p) ==
    /\ poll[p] # None
    /\ poll' = [poll EXCEPT ![p] = None]
    /\ \/ poll[p] = seen[p] /\ UNCHANGED <<matcher, seen, faults>>
       \/ poll[p] # seen[p] /\ Up(p) /\ Rebuilt(p) /\ seen' = [seen EXCEPT ![p] = poll[p]]
       \/ poll[p] # seen[p] /\ ~Up(p) /\ UNCHANGED <<matcher, seen, faults>>
       \/ poll[p] # seen[p] /\ Up(p) /\ RebuildFails /\ UNCHANGED seen
    /\ UNCHANGED <<words, bumped, life, notice, handler>>

\* Mutation of RebuildAnyway: the periodic rebuild is skipped while the version stands.
RebuildIfMoved(p) ==
    /\ Up(p) /\ poll[p] = None /\ Version # seen[p]
    /\ Rebuilt(p) \/ RebuildFails
    /\ UNCHANGED <<words, bumped, seen, life, notice, handler, poll>>

\* Five minutes after the last successful rebuild, whatever the version says.
RebuildAnyway(p) ==
    /\ Up(p) /\ poll[p] = None
    /\ Rebuilt(p) \/ RebuildFails
    /\ UNCHANGED <<words, bumped, seen, life, notice, handler, poll>>

\* The start context reaches its deadline: syncLoop returns, and every later
\* query on the context fails.
StartContextEnds(p) ==
    /\ Up(p) /\ life' = [life EXCEPT ![p] = "ended"]
    /\ UNCHANGED <<words, bumped, matcher, seen, notice, handler, poll, faults>>

\* What a request does once its words are committed.
Tell(p) == RebuildOwn(p) \/ Publish(p) \/ Bump(p)

Request(p) == Change(p) \/ Tell(p)
Follow(p) == Load(p) \/ StartSync(p) \/ HearNotice(p) \/ PollVersion(p) \/ FollowVersion(p)
             \/ RebuildAnyway(p)

Next == \E p \in Pods : Request(p) \/ Follow(p) \/ StartContextEnds(p)

Spec == Init /\ [][Next]_vars

\* Goroutines run on, and as long as the loop turns a tick comes five minutes
\* after the last rebuild.  Nobody need change a word, nothing need fail, and the
\* start context may last.
Fairness == \A p \in Pods :
    /\ WF_vars(Tell(p)) /\ WF_vars(Load(p) \/ StartSync(p)) /\ WF_vars(HearNotice(p))
    /\ WF_vars(FollowVersion(p)) /\ SF_vars(RebuildAnyway(p))

FairSpec == Spec /\ Fairness

------------------------------------------------------------------------------
(* Properties *)

\* The type of every variable.
TypeOK ==
    /\ words \in Nat /\ faults \in Nat /\ bumped \in Seq(Nat)
    /\ matcher \in [Pods -> Nat] /\ seen \in [Pods -> Nat]
    /\ life \in [Pods -> {"down", "loaded", "up", "ended"}]
    /\ notice \in [Pods -> BOOLEAN]
    /\ handler \in [Pods -> [step : {"idle", "rebuild", "publish", "bump"}, change : Nat]]
    /\ poll \in [Pods -> Nat \cup {None}]

\* A version an instance has acknowledged is loaded: every change counted in it
\* is in the matcher, whichever order requests commit and count in.
CursorCovered == \A p \in Pods : \A v \in 1..seen[p] : v <= Version /\ bumped[v] <= matcher[p]

\* What makes CursorCovered inductive: nothing is counted, held or matched that is
\* not committed, and no cursor or poll is ahead of the version.
NothingAhead ==
    /\ \A v \in 1..Version : bumped[v] <= words
    /\ \A p \in Pods : /\ matcher[p] <= words /\ handler[p].change <= words
                      /\ seen[p] <= Version /\ poll[p] <= Version

\* While its loop lives, an instance comes to every committed change, also when
\* notices and versions are lost.
FollowsWhileAlive == \A p \in Pods : []<>(matcher[p] = words \/ ~Up(p))

\* Every instance comes to every change: what is missed is made up by the loop
\* (service.go:121, lifecycle.go:62).
EveryPodFollows == \A p \in Pods : []<>(matcher[p] = words)
=============================================================================
