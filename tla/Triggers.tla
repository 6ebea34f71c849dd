------------------------------ MODULE Triggers ------------------------------
(* The trigger words: how the instances follow their changes (TriggerSync),  *)
(* what they do to a request (Moderation) and how their hits are counted     *)
(* (HitSync), each over variables of its own.                                *)

CONSTANTS Pods, MaxChanges, MaxSyncFaults
VARIABLES words, bumped, matcher, seen, life, notice, handler, poll, syncFaults

Sync == INSTANCE TriggerSync WITH MaxFaults <- MaxSyncFaults, faults <- syncFaults

CONSTANTS Words, MaxHits, MaxHitFaults
VARIABLES counted, redis, rows, job, keys, popped, raced, hitFaults

Hits == INSTANCE HitSync WITH MaxFaults <- MaxHitFaults, faults <- hitFaults

CONSTANTS Checked, Vocabulary, MaxRebuilds
VARIABLES loaded, checking, steady, rebuilds

Texts == INSTANCE Moderation WITH Requests <- Checked, Words <- Vocabulary, req <- checking

\* A matcher shows every change its cursor has acknowledged (TriggerSync).
CursorCovered == Sync!CursorCovered
\* An instance that goes on polling gets every change (TriggerSync).
FollowsWhileAlive == Sync!FollowsWhileAlive
\* Hits are counted once, and lost for named reasons only (HitSync).
HitsConserved == Hits!HitsConserved
\* Without faults the rows catch up with what was counted (HitSync).
HitsArrive == Hits!HitsArrive
\* A word that stays loaded takes effect, whatever is rebuilt meanwhile (Moderation).
WordsTakeEffect == Texts!WordsTakeEffect
=============================================================================
