------------------------------- MODULE HitSync -------------------------------
(***************************************************************************)
(* The hit counters of the trigger words: requests count in Redis          *)
(* (infrastructure/cache/trigger.go), a cron job moves the counts to the   *)
(* database (cron/trigger_hit_sync.go).  Reading and deleting the keys are *)
(* two commands, and the rows are raised one by one outside a transaction. *)
(***************************************************************************)
EXTENDS Naturals, FiniteSets, Functions, FiniteSetsExt

CONSTANTS Words,      \* trigger words
          MaxHits,    \* bound: hits counted
          MaxFaults   \* bound: failed commands and crashes

VARIABLES
    counted,   \* hits that were acknowledged, per word
    redis,     \* the counters in Redis; 0 is an absent key
    rows,      \* Trigger.hit_count
    job,       \* the job's step
    keys,      \* the keys SCAN returned
    popped,    \* the counts MGET returned, per word
    raced,     \* a hit came between MGET and DEL of its key
    faults     \* the commands that failed, by name

vars == <<counted, redis, rows, job, keys, popped, raced, faults>>

Zero == [w \in Words |-> 0]
Total(f) == FoldFunction(LAMBDA x, y : x + y, 0, f)
Found == {w \in Words : redis[w] > 0}

Init ==
    /\ counted = Zero /\ redis = Zero /\ rows = Zero /\ popped = Zero
    /\ job = "idle" /\ keys = {} /\ raced = FALSE /\ faults = {}

Fails(step) == Cardinality(faults) < MaxFaults /\ faults' = faults \cup {step}

\* IncrementHits: one pipeline raises every word a request matched.
Hit(ws) ==
    /\ Total(counted) + Cardinality(ws) <= MaxHits
    /\ counted' = [w \in Words |-> counted[w] + IF w \in ws THEN 1 ELSE 0]
    /\ redis' = [w \in Words |-> redis[w] + IF w \in ws THEN 1 ELSE 0]
    /\ raced' = (raced \/ (job = "delete" /\ ws \cap keys # {}))
    /\ UNCHANGED <<rows, job, keys, popped, faults>>

\* PopAll: SCAN, which ends the job when it finds nothing, ...
Scan ==
    /\ job = "idle" /\ Found # {}
    /\ job' = "read" /\ keys' = Found
    /\ UNCHANGED <<counted, redis, rows, popped, raced, faults>>

\* ... MGET ...
Read ==
    /\ job = "read"
    /\ popped' = [w \in Words |-> IF w \in keys THEN redis[w] ELSE 0]
    /\ job' = "delete"
    /\ UNCHANGED <<counted, redis, rows, keys, raced, faults>>

\* Mutation of Delete: everything found now is deleted, read or not.
DeleteAll ==
    /\ job = "delete" /\ job' = "write"
    /\ \/ redis' = Zero /\ UNCHANGED faults
       \/ Fails("delete") /\ UNCHANGED redis
    /\ UNCHANGED <<counted, rows, keys, popped, raced>>

\* ... and DEL, whose error is dropped.
Delete ==
    /\ job = "delete" /\ job' = "write"
    /\ \/ redis' = [w \in Words |-> IF w \in keys THEN 0 ELSE redis[w]] /\ UNCHANGED faults
       \/ Fails("delete") /\ UNCHANGED redis
    /\ UNCHANGED <<counted, rows, keys, popped, raced>>

\* BatchIncrementHitCount: one UPDATE per word, in map order.
Write(w) ==
    /\ job = "write" /\ popped[w] > 0
    /\ rows' = [rows EXCEPT ![w] = @ + popped[w]]
    /\ popped' = [popped EXCEPT ![w] = 0]
    /\ UNCHANGED <<counted, redis, job, keys, raced, faults>>

\* Mutation of Finish: the job ends with its first row.
FinishEarly ==
    /\ job = "write" /\ job' = "idle" /\ keys' = {} /\ popped' = Zero
    /\ UNCHANGED <<counted, redis, rows, raced, faults>>

\* All rows are raised, or one of them failed and the rest is dropped.
Finish ==
    /\ job = "write" /\ job' = "idle" /\ keys' = {} /\ popped' = Zero
    /\ \/ popped = Zero /\ UNCHANGED faults
       \/ popped # Zero /\ Fails("write")
    /\ UNCHANGED <<counted, redis, rows, raced>>

\* The process dies: what the job held in memory is gone.
Crash ==
    /\ job # "idle" /\ job' = "idle" /\ keys' = {} /\ popped' = Zero
    /\ Fails("crash")
    /\ UNCHANGED <<counted, redis, rows, raced>>

Next ==
    \/ \E ws \in SUBSET Words \ {{}} : Hit(ws)
    \/ Scan \/ Read \/ Delete \/ (\E w \in Words : Write(w)) \/ Finish \/ Crash

Spec == Init /\ [][Next]_vars

\* The job comes round and ends.
FairSpec == Spec /\ WF_vars(Scan \/ Read \/ Delete \/ (\E w \in Words : Write(w)) \/ Finish)

------------------------------------------------------------------------------
(* Properties *)

\* The type of every variable.
TypeOK ==
    /\ counted \in [Words -> Nat] /\ redis \in [Words -> Nat]
    /\ rows \in [Words -> Nat] /\ popped \in [Words -> Nat]
    /\ job \in {"idle", "read", "delete", "write"} /\ keys \subseteq Words
    /\ raced \in BOOLEAN /\ faults \subseteq {"delete", "write", "crash"}

\* A hit is never counted twice, unless the DEL failed unnoticed; and it is lost
\* only to a failed write, a crash, or a race with the DEL: otherwise every
\* acknowledged hit is in Redis, in the job's hands or in its row.
HitsConserved ==
    /\ "delete" \notin faults => \A w \in Words : rows[w] + redis[w] <= counted[w]
    /\ faults = {} /\ ~raced => \A w \in Words :
          counted[w] = rows[w] + (IF job = "delete" THEN 0 ELSE popped[w]) + redis[w]

\* What makes HitsConserved inductive: between MGET and DEL a count is in the
\* job's hands and in Redis, after the DEL in its hands only.
CountsInHand ==
    /\ job \in {"idle", "read"} => \A w \in Words : popped[w] = 0
    /\ \A w \in Words \ keys : popped[w] = 0
    /\ job = "delete" => \A w \in keys : popped[w] <= redis[w] /\ (~raced => popped[w] = redis[w])
    /\ "delete" \notin faults =>
          \A w \in Words : rows[w] + redis[w] + (IF job = "write" THEN popped[w] ELSE 0) <= counted[w]

\* Without faults the rows catch up with what was counted.
HitsArrive == \A n \in 1..MaxHits :
    Total(counted) >= n ~> (Total(rows) >= n \/ faults # {} \/ raced)
=============================================================================
