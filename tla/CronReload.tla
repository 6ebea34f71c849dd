----------------------------- MODULE CronReload -----------------------------
(***************************************************************************)
(* One cron job on every instance, changed while it runs: the update       *)
(* handler (cronmgmt/command/update_cron_job.go) writes the row, reloads   *)
(* its own CronManager (cron/manager.go) and publishes the change, which   *)
(* the managers of the other instances apply after reading the row again.  *)
(* Commands on Redis pub/sub are neither stored nor repeated.              *)
(***************************************************************************)
EXTENDS Naturals, Sequences

CONSTANTS Pods, Specs,
          MaxUpdates,   \* bound: update requests
          MaxLost,      \* bound: publications and reads of the row that fail
          MaxBoots      \* bound: restarts of an instance

VARIABLES
    row,      \* the cron_jobs row
    entry,    \* CronManager.entries: the registered instance and if it runs
    orphans,  \* specs of schedulers that run and are in no entry any more
    update,   \* the handler's step, the parameters, and the row it read back
    inbox,    \* notices waiting in the subscription
    heard,    \* the notice handleMessage is at, with the row it read
    boot,     \* the spec InitCronJobs has read, or Up when it is done
    updates, lost, boots,
    astray    \* instances that a known gap of the reload may have left off the row

vars == <<row, entry, orphans, update, inbox, heard, boot, updates, lost, boots, astray>>

Up == "up"
Rows == [enabled : BOOLEAN, spec : Specs]
Keep == "keep"   \* a parameter the request leaves out

Idle == [step |-> "idle"]
Started(s) == [spec |-> s, on |-> TRUE]

Init ==
    /\ row \in [enabled : {TRUE}, spec : Specs]
    /\ entry = [p \in Pods |-> Started(row.spec)]
    /\ orphans = [p \in Pods |-> {}]
    /\ update = [p \in Pods |-> Idle]
    /\ inbox = [p \in Pods |-> <<>>]
    /\ heard = [p \in Pods |-> Idle]
    /\ boot = [p \in Pods |-> Up]
    /\ updates = 0 /\ lost = 0 /\ boots = 0 /\ astray = {}

------------------------------------------------------------------------------
(* CronManager, under its mutex.  Start does not fail: a spec gets into the row  *)
(* by the handler's parser only, and AddFunc's accepts all that one accepts.     *)

\* A manager without the entry, because its instance is still booting, refuses.
Registered(p) == boot[p] = Up

Restart(p, s) ==
    /\ entry' = [entry EXCEPT ![p] = Started(s)]
    /\ UNCHANGED orphans

Disable(p) ==
    /\ entry' = [entry EXCEPT ![p].on = FALSE]
    /\ UNCHANGED orphans

\* enableLocked replaces the entry and does not stop what was in it.
Enable(p, s) ==
    /\ orphans' = [orphans EXCEPT ![p] = IF entry[p].on THEN @ \cup {entry[p].spec} ELSE @]
    /\ entry' = [entry EXCEPT ![p] = Started(s)]

Apply(p, action, s) ==
    \/ action = "restart" /\ Restart(p, s)
    \/ action = "disable" /\ Disable(p)
    \/ action = "enable" /\ Enable(p, s)
    \/ action = "nothing" /\ UNCHANGED <<entry, orphans>>

Reenabled(p, action) == IF action = "enable" /\ entry[p].on THEN {p} ELSE {}

------------------------------------------------------------------------------
(* The update handler *)

\* The parameters are valid and the row is written.
WriteRow(p, enabled, spec) ==
    /\ update[p] = Idle /\ Registered(p) /\ updates < MaxUpdates
    /\ row' = [enabled |-> IF enabled = Keep THEN row.enabled ELSE enabled = "on",
               spec |-> IF spec = Keep THEN row.spec ELSE spec]
    /\ update' = [update EXCEPT ![p] = [step |-> "read", enabled |-> enabled, spec |-> spec]]
    /\ updates' = updates + 1
    /\ astray' = astray \cup IF \E q \in Pods : update[q] # Idle THEN Pods
                             ELSE IF heard[p] # Idle \/ inbox[p] # <<>> THEN {p} ELSE {}
    /\ UNCHANGED <<entry, orphans, inbox, heard, boot, lost, boots>>

\* Mutation of Decide: a new spec restarts the job, disabled or not.
DecideSpecFirst(job, params) ==
    IF params.spec # Keep THEN "restart"
    ELSE IF ~job.enabled THEN "disable"
    ELSE IF params.enabled = "on" THEN "enable" ELSE "nothing"

Decide(job, params) ==
    IF ~job.enabled THEN "disable"
    ELSE IF params.spec # Keep THEN "restart"
    ELSE IF params.enabled = "on" THEN "enable" ELSE "nothing"

ReadBack(p) ==
    /\ update[p].step = "read"
    /\ update' = [update EXCEPT ![p] = [step |-> "reload", action |-> Decide(row, update[p]),
                                        spec |-> row.spec]]
    /\ UNCHANGED <<row, entry, orphans, inbox, heard, boot, updates, lost, boots, astray>>

\* The row is written all the same: nobody reloads and nobody is told.
ReadBackFails(p) ==
    /\ update[p].step = "read" /\ lost < MaxLost /\ lost' = lost + 1
    /\ update' = [update EXCEPT ![p] = Idle]
    /\ astray' = Pods
    /\ UNCHANGED <<row, entry, orphans, inbox, heard, boot, updates, boots>>

Reload(p) ==
    /\ update[p].step = "reload"
    /\ Apply(p, update[p].action, update[p].spec)
    /\ astray' = astray \cup Reenabled(p, update[p].action)
    /\ update' = [update EXCEPT ![p] =
                     IF @.action = "nothing" THEN Idle ELSE [step |-> "publish", action |-> @.action]]
    /\ UNCHANGED <<row, inbox, heard, boot, updates, lost, boots>>

\* Redis hands the notice to every subscription, the sender's own included.
Publish(p) ==
    /\ update[p].step = "publish"
    /\ update' = [update EXCEPT ![p] = Idle]
    /\ \/ /\ inbox' = [q \in Pods |-> IF q = p THEN inbox[q] ELSE Append(inbox[q], update[p].action)]
          /\ UNCHANGED <<lost, astray>>
       \/ /\ lost < MaxLost /\ lost' = lost + 1 /\ astray' = astray \cup (Pods \ {p})
          /\ UNCHANGED inbox
    /\ UNCHANGED <<row, entry, orphans, heard, boot, updates, boots>>

------------------------------------------------------------------------------
(* The listener of the other instances *)

HearNotice(p) ==
    /\ inbox[p] # <<>> /\ heard[p] = Idle
    /\ inbox' = [inbox EXCEPT ![p] = Tail(@)]
    /\ heard' = [heard EXCEPT ![p] =
          [step |-> "apply", spec |-> row.spec,
           action |-> IF Head(inbox[p]) = "disable" \/ row.enabled THEN Head(inbox[p]) ELSE "nothing"]]
    /\ UNCHANGED <<row, entry, orphans, update, boot, updates, lost, boots, astray>>

\* The row cannot be read: the notice is dropped.
HearFails(p) ==
    /\ inbox[p] # <<>> /\ heard[p] = Idle /\ lost < MaxLost /\ lost' = lost + 1
    /\ inbox' = [inbox EXCEPT ![p] = Tail(@)]
    /\ astray' = astray \cup {p}
    /\ UNCHANGED <<row, entry, orphans, update, heard, boot, updates, boots>>

ApplyNotice(p) ==
    /\ heard[p].step = "apply"
    /\ heard' = [heard EXCEPT ![p] = Idle]
    /\ \/ /\ Registered(p)
          /\ Apply(p, heard[p].action, heard[p].spec)
          /\ astray' = astray \cup Reenabled(p, heard[p].action)
       \/ /\ ~Registered(p) /\ UNCHANGED <<entry, orphans>>
          /\ astray' = astray \cup {p}
    /\ UNCHANGED <<row, update, inbox, boot, updates, lost, boots>>

------------------------------------------------------------------------------
(* A restart of the instance *)

\* The process is replaced and takes the update it was at with it.  It subscribes
\* before InitCronJobs reads the spec: with no update on its way from elsewhere,
\* the instance begins afresh from the row.
Reborn(p, s) ==
    /\ boots < MaxBoots /\ boots' = boots + 1
    /\ boot' = [boot EXCEPT ![p] = s]
    /\ entry' = [entry EXCEPT ![p].on = FALSE]
    /\ orphans' = [orphans EXCEPT ![p] = {}]
    /\ inbox' = [inbox EXCEPT ![p] = <<>>]
    /\ heard' = [heard EXCEPT ![p] = Idle]
    /\ update' = [update EXCEPT ![p] = Idle]
    /\ UNCHANGED <<row, updates>>

Forgone(p) == IF update[p] # Idle THEN Pods ELSE astray

BootRead(p) ==
    /\ Reborn(p, row.spec)
    /\ astray' = IF \E q \in Pods \ {p} : update[q] # Idle THEN Forgone(p) ELSE Forgone(p) \ {p}
    /\ UNCHANGED lost

\* The row cannot be read: the spec is the default, whatever the row says.
BootBlind(p) ==
    /\ \E s \in Specs : Reborn(p, s)
    /\ astray' = Forgone(p) \cup {p}
    /\ lost < MaxLost /\ lost' = lost + 1

\* InitCronJobs starts every configured job, whether its row is enabled or not.
BootRegister(p) ==
    /\ boot[p] # Up
    /\ boot' = [boot EXCEPT ![p] = Up]
    /\ entry' = [entry EXCEPT ![p] = Started(boot[p])]
    /\ astray' = astray \cup IF row.enabled THEN {} ELSE {p}
    /\ UNCHANGED <<row, orphans, update, inbox, heard, updates, lost, boots>>

Next == \E p \in Pods :
    \/ \E e \in {"on", "off", Keep}, s \in Specs \cup {Keep} : WriteRow(p, e, s)
    \/ ReadBack(p) \/ ReadBackFails(p) \/ Reload(p) \/ Publish(p)
    \/ HearNotice(p) \/ HearFails(p) \/ ApplyNotice(p)
    \/ BootRead(p) \/ BootBlind(p) \/ BootRegister(p)

Spec == Init /\ [][Next]_vars

------------------------------------------------------------------------------
(* Properties *)

Notices == {"restart", "enable", "disable"}
Actions == Notices \cup {"nothing"}

\* Only a reload that has something to tell is published.
TypeOK ==
    /\ row \in Rows
    /\ entry \in [Pods -> [spec : Specs, on : BOOLEAN]]
    /\ orphans \in [Pods -> SUBSET Specs]
    /\ update \in [Pods -> {Idle}
          \cup [step : {"read"}, enabled : {"on", "off", Keep}, spec : Specs \cup {Keep}]
          \cup [step : {"reload"}, action : Actions, spec : Specs]
          \cup [step : {"publish"}, action : Notices]]
    /\ inbox \in [Pods -> Seq(Notices)]
    /\ heard \in [Pods -> {Idle} \cup [step : {"apply"}, action : Actions, spec : Specs]]
    /\ boot \in [Pods -> Specs \cup {Up}]
    /\ updates \in Nat /\ lost \in Nat /\ boots \in Nat
    /\ astray \subseteq Pods

Settled == \A p \in Pods :
    update[p] = Idle /\ inbox[p] = <<>> /\ heard[p] = Idle /\ Registered(p)

Running(p) == orphans[p] \cup (IF entry[p].on THEN {entry[p].spec} ELSE {})

\* When nothing is in progress, an instance runs what the row says, unless since
\* its last restart a gap has led it astray: it missed a notice or could not read
\* the row for one, an update was forgone after the row was written, overlapped
\* another or met a notice at its own instance, a running job was enabled again,
\* or the instance booted past the change or the disabling of the row.
SettledFollowsRow == Settled =>
    \A p \in Pods \ astray : Running(p) = IF row.enabled THEN {row.spec} ELSE {}

------------------------------------------------------------------------------
(* The inductive invariant behind it *)

Follows(p) == (entry[p].on <=> row.enabled) /\ (row.enabled => entry[p].spec = row.spec)

\* The action is what the row asks for.
Fits(action) == action \in Notices /\ (action = "disable" <=> ~row.enabled)

\* The update changed nothing, and will neither reload nor publish anything.
Void(p) == \/ update[p].step = "read" /\ Decide(row, update[p]) = "nothing"
           \/ update[p].step = "reload" /\ update[p].action = "nothing"

Awaited == \E p \in Pods : update[p] # Idle /\ ~Void(p)

\* What is on its way to the instance, or what it has, is the row.
Caught(p) ==
    IF inbox[p] # <<>> THEN Fits(inbox[p][Len(inbox[p])])
    ELSE IF heard[p] # Idle
    THEN Fits(heard[p].action) /\ heard[p].spec = row.spec
    ELSE IF ~Registered(p) THEN boot[p] = row.spec ELSE Follows(p)

OneUpdate == \A p, q \in Pods : update[p] # Idle /\ update[q] # Idle => p = q

UpdaterHearsNothing == \A p \in Pods \ astray :
    update[p] # Idle => inbox[p] = <<>> /\ heard[p] = Idle /\ Registered(p)

NoOrphans == \A p \in Pods \ astray : orphans[p] = {}

ReloadFits == \A p \in Pods : update[p].step = "reload" =>
    /\ update[p].action = "nothing" \/ Fits(update[p].action)
    /\ update[p].spec = row.spec

PublishFits == \A p \in Pods : update[p].step = "publish" =>
    Fits(update[p].action) /\ (p \notin astray => Follows(p))

AllCaught == Awaited \/ \A p \in Pods \ astray : Caught(p)

\* As long as some instance is not led astray there is one update at a time, and
\* its notice will be what the row asks for; the instance updating hears nothing
\* else, and with no update to wait for each of those has caught up.
InStep == (\E p \in Pods : p \notin astray) =>
    OneUpdate /\ UpdaterHearsNothing /\ NoOrphans /\ ReloadFits /\ PublishFits /\ AllCaught
=============================================================================
