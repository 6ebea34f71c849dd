------------------------------ MODULE Shutdown ------------------------------
(***************************************************************************)
(* One instance going down: the in-flight tracker and its drain            *)
(* (common/inflight/tracker.go), the middleware that brackets requests     *)
(* with it (middleware/inflight.go), and the ordered stop hooks            *)
(* (bootstrap/lifecycle.go): cron, drain, pools, HTTP server, database.    *)
(*                                                                         *)
(* A streaming request leaves the middleware once its writer is            *)
(* registered; fasthttp runs the writer later, on a goroutine of its own   *)
(* (api/util/adapter.go).  Deadlines are steps that may come at any time.  *)
(***************************************************************************)
EXTENDS Naturals, FiniteSets

CONSTANTS Requests,   \* HTTP requests
          Streams     \* those answered with server-sent events

ASSUME ShutdownAssumption == IsFiniteSet(Requests) /\ Streams \subseteq Requests

VARIABLES
    stage,      \* what the stop hooks are at; "crashed" after a panic
    draining,   \* Tracker.state
    wg,         \* counter of Tracker.wg
    waiter,     \* the goroutine in wg.Wait: none, parked, released, returned
    cancelled,  \* Tracker.cancelCh is closed
    drained,    \* result of Drain: "no" yet, "all" returned, "gaveUp"
    pool,       \* the store pool accepts tasks
    poolLate,   \* PoolStopTimeout passed with tasks left
    req,        \* where each request is
    task        \* its record on the way to the database

sdVars == <<stage, draining, wg, waiter, cancelled, drained, pool, poolLate, req, task>>

Stages == {"up", "cron", "drain", "pool", "http", "db", "exited", "crashed"}
Alive == stage \notin {"exited", "crashed"}
Listening == stage \in {"up", "cron", "drain", "pool"}

\* Requests counted in the WaitGroup, and those of them inside the handler.
InHandler == {r \in Requests : req[r] \in {"serving", "registered", "storing", "leaving"}}
Tracked == InHandler \cup {r \in Requests : req[r] = "added"}

SDInit ==
    /\ stage = "up" /\ draining = FALSE /\ wg = 0 /\ waiter = "none"
    /\ cancelled = FALSE /\ drained = "no" /\ pool = TRUE /\ poolLate = FALSE
    /\ req = [r \in Requests |-> "idle"]
    /\ task = [r \in Requests |-> "none"]

Move(r, from, to) == req[r] = from /\ req' = [req EXCEPT ![r] = to]
QuietTracker == UNCHANGED <<draining, wg, waiter, cancelled, drained>>
QuietHooks == UNCHANGED <<stage, pool, poolLate>>

\* wg.Done: reaching zero lets a parked Wait go on.
WgDone ==
    /\ wg' = wg - 1
    /\ waiter' = IF wg = 1 /\ waiter = "parked" THEN "released" ELSE waiter

------------------------------------------------------------------------------
(* Requests *)

\* Track, first look at the state.
TrackLoad(r) ==
    /\ Listening
    /\ Move(r, "idle", IF draining THEN "rejected" ELSE "loaded")
    /\ QuietTracker /\ QuietHooks /\ UNCHANGED task

TrackAdd(r) ==
    /\ Move(r, "loaded", "added")
    /\ wg' = wg + 1
    /\ QuietHooks /\ UNCHANGED <<draining, waiter, cancelled, drained, task>>

\* Mutation of TrackRecheck: the second look is dropped.
TrackNoRecheck(r) ==
    /\ Move(r, "added", "serving")
    /\ QuietTracker /\ QuietHooks /\ UNCHANGED task

\* Track, second look: a drain that began meanwhile takes the request back.
TrackRecheck(r) ==
    /\ \/ draining /\ Move(r, "added", "rejected") /\ WgDone
       \/ ~draining /\ Move(r, "added", "serving") /\ UNCHANGED <<wg, waiter>>
    /\ QuietHooks /\ UNCHANGED <<draining, cancelled, drained, task>>

\* A stream's handler ends when its writer is registered.
RegisterStream(r) ==
    /\ r \in Streams
    /\ Move(r, "serving", "registered")
    /\ QuietTracker /\ QuietHooks /\ UNCHANGED task

\* The upstream's answer ends: a whole response, an error (for a stream too,
\* if it could not be opened), or the end of a stream.
UpstreamEnds(r) ==
    /\ Move(r, "serving", "storing") \/ Move(r, "streaming", "writing")
    /\ QuietTracker /\ QuietHooks /\ UNCHANGED task

\* Mutation of UpstreamCancelled: only streams derive their context from the broadcast.
CancelStreamsOnly(r) == r \in Streams /\ cancelled /\ UpstreamEnds(r)

\* The broadcast cancels the context the upstream request was derived from.
UpstreamCancelled(r) == cancelled /\ UpstreamEnds(r)

\* The record of the call is submitted to the store pool before the request ends.
Submit(r) ==
    /\ \/ Move(r, "storing", "leaving") \/ Move(r, "writing", "done")
    /\ task' = [task EXCEPT ![r] = IF pool THEN "queued" ELSE "refused"]
    /\ QuietTracker /\ QuietHooks

\* The middleware's deferred Untrack.
Untrack(r) ==
    /\ \/ Move(r, "leaving", "done") \/ Move(r, "registered", "streaming")
    /\ WgDone
    /\ QuietHooks /\ UNCHANGED <<draining, cancelled, drained, task>>

StoreTask(r) ==
    /\ task[r] = "queued"
    /\ task' = [task EXCEPT ![r] = "stored"]
    /\ QuietTracker /\ QuietHooks /\ UNCHANGED req

Request(r) ==
    \/ TrackLoad(r) \/ TrackAdd(r) \/ TrackRecheck(r) \/ RegisterStream(r)
    \/ UpstreamEnds(r) \/ UpstreamCancelled(r) \/ Submit(r) \/ Untrack(r) \/ StoreTask(r)

------------------------------------------------------------------------------
(* Drain *)

DrainStart ==
    /\ stage = "drain" /\ ~draining
    /\ draining' = TRUE
    /\ UNCHANGED <<stage, wg, waiter, cancelled, drained, pool, poolLate, req, task>>

\* wg.Wait, called on its own goroutine.
WaitCalled ==
    /\ draining /\ waiter = "none"
    /\ waiter' = IF wg = 0 THEN "returned" ELSE "parked"
    /\ UNCHANGED <<stage, draining, wg, cancelled, drained, pool, poolLate, req, task>>

\* A released Wait that finds the counter raised again panics.
WaitWakes ==
    /\ waiter = "released"
    /\ \/ wg = 0 /\ waiter' = "returned" /\ UNCHANGED stage
       \/ wg > 0 /\ stage' = "crashed" /\ UNCHANGED waiter
    /\ UNCHANGED <<draining, wg, cancelled, drained, pool, poolLate, req, task>>

SoftDeadline ==
    /\ stage = "drain" /\ draining /\ ~cancelled
    /\ cancelled' = TRUE
    /\ UNCHANGED <<stage, draining, wg, waiter, drained, pool, poolLate, req, task>>

DrainCompletes ==
    /\ stage = "drain" /\ waiter = "returned"
    /\ drained' = "all" /\ stage' = "pool"
    /\ UNCHANGED <<draining, wg, waiter, cancelled, pool, poolLate, req, task>>

HardDeadline ==
    /\ stage = "drain" /\ cancelled
    /\ drained' = "gaveUp" /\ stage' = "pool"
    /\ UNCHANGED <<draining, wg, waiter, cancelled, pool, poolLate, req, task>>

------------------------------------------------------------------------------
(* Stop hooks, in the order fx runs them *)

Sigterm == stage = "up" /\ stage' = "cron" /\ UNCHANGED <<pool, poolLate>>

CronStopped == stage = "cron" /\ stage' = "drain" /\ UNCHANGED <<pool, poolLate>>

\* Mutation of PoolCloses: the pools' hook runs beside the drain's.
PoolClosesEarly == stage \in {"drain", "pool"} /\ pool /\ pool' = FALSE /\ UNCHANGED <<stage, poolLate>>

PoolCloses == stage = "pool" /\ pool /\ pool' = FALSE /\ UNCHANGED <<stage, poolLate>>

QueuedTasks == {r \in Requests : task[r] = "queued"}

\* StopWithContext: the queue is empty, or PoolStopTimeout has passed.
PoolStops ==
    /\ stage = "pool" /\ ~pool
    /\ poolLate' = (QueuedTasks # {})
    /\ stage' = "http"
    /\ UNCHANGED pool

\* ShutdownWithContext: connections have ended, or FiberShutdownTimeout has passed.
HttpStops == stage = "http" /\ stage' = "db" /\ UNCHANGED <<pool, poolLate>>

\* The database and Redis close, then the process ends with what was left.
ProcessEnds == stage = "db" /\ stage' = "exited" /\ UNCHANGED <<pool, poolLate>>

Hook ==
    /\ Sigterm \/ CronStopped \/ PoolCloses \/ PoolStops \/ HttpStops \/ ProcessEnds
    /\ QuietTracker /\ UNCHANGED <<req, task>>

Drain == DrainStart \/ WaitCalled \/ WaitWakes \/ SoftDeadline \/ DrainCompletes

SDNext == Alive /\ ((\E r \in Requests : Request(r)) \/ Drain \/ HardDeadline \/ Hook)

SDSpec == SDInit /\ [][SDNext]_sdVars

\* Goroutines run and every hook has a deadline; the hard one of the drain is not
\* counted on.  Upstreams may stream for ever unless the broadcast cancels them, and
\* nothing makes a signal or a client come.
SDFairness ==
    /\ WF_sdVars(Alive /\ Drain)
    /\ WF_sdVars(Alive /\ stage # "up" /\ Hook)
    /\ \A r \in Requests :
          WF_sdVars(Alive /\ (TrackAdd(r) \/ TrackRecheck(r) \/ Submit(r) \/ Untrack(r)
                              \/ StoreTask(r) \/ UpstreamCancelled(r)))

SDFairSpec == SDSpec /\ SDFairness

------------------------------------------------------------------------------
(* Properties *)

\* The type of every variable.
SDTypeOK ==
    /\ stage \in Stages /\ draining \in BOOLEAN /\ wg \in Nat
    /\ waiter \in {"none", "parked", "released", "returned"}
    /\ cancelled \in BOOLEAN /\ drained \in {"no", "all", "gaveUp"}
    /\ pool \in BOOLEAN /\ poolLate \in BOOLEAN
    /\ req \in [Requests -> {"idle", "loaded", "added", "rejected", "serving", "registered",
                             "storing", "leaving", "streaming", "writing", "done"}]
    /\ task \in [Requests -> {"none", "queued", "stored", "refused"}]

\* What makes DrainedMeansHandlersLeft inductive (module BackgroundProofs): the
\* WaitGroup counts the tracked requests, and a Wait that returned did so during a
\* drain, with nobody inside.
SDInv ==
    /\ SDTypeOK
    /\ wg = Cardinality(Tracked)
    /\ waiter # "none" => draining
    /\ waiter = "returned" => InHandler = {}
    /\ drained = "all" => waiter = "returned"

\* Once Drain has reported everybody out, nobody is inside a handler, whoever
\* was between the two looks of Track when it began.
DrainedMeansHandlersLeft == drained = "all" => InHandler = {}

\* The pool outlives the drain: it refuses what a handler submits only when
\* the hard deadline had cut the drain short (lifecycle.go:40).
RefusedOnlyPastDeadline ==
    \A r \in Requests \ Streams : task[r] = "refused" => drained = "gaveUp"

\* What RefusedOnlyPastDeadline needs besides SDInv: the drain ends before the pool
\* closes, and what is not a stream ends inside its handler.
SDRefusalInv ==
    /\ stage \in {"up", "cron", "drain"} => drained = "no" /\ pool
    /\ stage \in {"pool", "http", "db", "exited"} \/ ~pool => drained # "no"
    /\ \A r \in Requests \ Streams : req[r] \notin {"registered", "streaming", "writing"}
    /\ RefusedOnlyPastDeadline

\* Shutdown reaches its end although upstreams may never answer: the broadcast at
\* the soft deadline frees every request the drain waits for.
ShutdownEnds == stage = "cron" ~> ~Alive

\* Drain waits for the requests in flight, streams included (tracker.go:44).
StreamsDrained == drained = "all" => \A r \in Requests : req[r] # "streaming"
=============================================================================
