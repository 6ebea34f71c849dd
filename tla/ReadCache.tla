----------------------------- MODULE ReadCache -----------------------------
(***************************************************************************)
(* The read cache in front of endpoints and models                         *)
(* (infrastructure/cache/read_cache.go): reads load what is missing and    *)
(* write it back, every write of a row then deletes all entries by SCAN    *)
(* and DEL (endpoint_repository.go, model_repository.go).                  *)
(*                                                                         *)
(* What a query returns is abstracted to the number of the last committed  *)
(* write; that it finds nothing is a value like any other.                 *)
(***************************************************************************)
EXTENDS Integers, FiniteSets

CONSTANTS Keys,       \* cache keys
          Readers,    \* flights: one per key and instance at a time
          Writers,
          MaxWrites   \* bound: writes of rows

VARIABLES
    table,     \* the number of the last committed write
    entry,     \* the entry under each key: the write it shows, or Absent
    reader,    \* what each flight is at
    writer,    \* the keys an invalidation has still to scan
    late,      \* keys with an entry set by a load that a write has overlapped
    unswept    \* keys with an entry an invalidation failed to delete

vars == <<table, entry, reader, writer, late, unswept>>

Absent == -1
Idle == [at |-> "idle"]
At(r, step) == reader[r].at = step

Init ==
    /\ table = 0 /\ late = {} /\ unswept = {}
    /\ entry = [k \in Keys |-> Absent]
    /\ reader = [r \in Readers |-> Idle]
    /\ writer = [w \in Writers |-> Idle]

\* A miss, or a Redis that does not answer, opens a flight; hits change nothing.
Miss(r, k) ==
    /\ At(r, "idle")
    /\ reader' = [reader EXCEPT ![r] = [at |-> "load", key |-> k]]
    /\ UNCHANGED <<table, entry, writer, late, unswept>>

\* An error of the loader is returned and not cached.
Load(r) ==
    /\ At(r, "load")
    /\ \/ reader' = [reader EXCEPT ![r] = [at |-> "set", key |-> @.key, value |-> table]]
       \/ reader' = [reader EXCEPT ![r] = Idle]
    /\ UNCHANGED <<table, entry, writer, late, unswept>>

\* A failed SET is ignored.
SetEntry(r) ==
    /\ At(r, "set")
    /\ LET k == reader[r].key
           v == reader[r].value
       IN \/ /\ entry' = [entry EXCEPT ![k] = v]
             /\ late' = IF v < table THEN late \cup {k} ELSE late \ {k}
             /\ unswept' = unswept \ {k}
          \/ UNCHANGED <<entry, late, unswept>>
    /\ reader' = [reader EXCEPT ![r] = Idle]
    /\ UNCHANGED <<table, writer>>

\* The row is committed, then InvalidateAll begins.
Write(w) ==
    /\ writer[w] = Idle /\ table < MaxWrites
    /\ table' = table + 1
    /\ writer' = [writer EXCEPT ![w] = [at |-> "sweep", left |-> Keys]]
    /\ UNCHANGED <<entry, reader, late, unswept>>

\* Mutation of Sweep: the cursor of the first batch is not followed.
SweepOneBatch(w, batch) ==
    /\ writer[w].at = "sweep"
    /\ batch # {} /\ batch \subseteq writer[w].left
    /\ entry' = [k \in Keys |-> IF k \in batch THEN Absent ELSE entry[k]]
    /\ late' = late \ batch /\ unswept' = unswept \ batch
    /\ writer' = [writer EXCEPT ![w] = Idle]
    /\ UNCHANGED <<table, reader>>

\* One SCAN batch and its DEL.  SCAN returns what was there all the time.
Sweep(w, batch) ==
    /\ writer[w].at = "sweep"
    /\ batch # {} /\ batch \subseteq writer[w].left
    /\ entry' = [k \in Keys |-> IF k \in batch THEN Absent ELSE entry[k]]
    /\ late' = late \ batch /\ unswept' = unswept \ batch
    /\ writer' = [writer EXCEPT ![w] = IF @.left = batch THEN Idle
                                   ELSE [at |-> "sweep", left |-> @.left \ batch]]
    /\ UNCHANGED <<table, reader>>

\* An error of SCAN or DEL ends the invalidation.
SweepFails(w) ==
    /\ writer[w].at = "sweep"
    /\ unswept' = unswept \cup {k \in writer[w].left : entry[k] # Absent}
    /\ writer' = [writer EXCEPT ![w] = Idle]
    /\ UNCHANGED <<table, entry, reader, late>>

Expires(k) ==
    /\ entry[k] # Absent
    /\ entry' = [entry EXCEPT ![k] = Absent]
    /\ late' = late \ {k} /\ unswept' = unswept \ {k}
    /\ UNCHANGED <<table, reader, writer>>

Next ==
    \/ \E r \in Readers : (\E k \in Keys : Miss(r, k)) \/ Load(r) \/ SetEntry(r)
    \/ \E w \in Writers : Write(w) \/ (\E b \in SUBSET Keys : Sweep(w, b)) \/ SweepFails(w)
    \/ \E k \in Keys : Expires(k)

Spec == Init /\ [][Next]_vars

-----------------------------------------------------------------------------
(* Properties *)

\* A flight that has loaded holds what it will set; an invalidation never waits
\* for an empty rest of the keys.
TypeOK ==
    /\ table \in Nat
    /\ entry \in [Keys -> Nat \cup {Absent}]
    /\ reader \in [Readers -> {Idle} \cup [at : {"load"}, key : Keys]
                                  \cup [at : {"set"}, key : Keys, value : 0..table]]
    /\ writer \in [Writers -> {Idle} \cup [at : {"sweep"}, left : SUBSET Keys]]
    /\ late \subseteq Keys /\ unswept \subseteq Keys

Stale(k) == entry[k] # Absent /\ entry[k] < table
Sweeping(k) == \E w \in Writers : writer[w].at = "sweep" /\ k \in writer[w].left

\* An entry shows the last committed write, unless an invalidation is still on
\* its way to it, one failed on it, or the load it comes from overlapped a write:
\* beyond these, a reader sees what was stored (read_cache.go:27).
EntriesCurrent == \A k \in Keys : Stale(k) => Sweeping(k) \/ k \in late \/ k \in unswept
=============================================================================
