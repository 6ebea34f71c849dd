# Aris MaaS in TLA+

TLA+ models, model-checking configurations and machine-checked proofs for the
Go core of Aris MaaS, an LLM gateway. It accepts requests in the OpenAI and
Anthropic protocols, forwards them to upstream endpoints under a circuit breaker
and a bulkhead, records the conversations in Postgres, and runs as several
instances that share locks, caches, quotas and notices through Redis.

Paths below are relative to the repository; Go code is under `internal/`.
`PROJECT.json` maps every definition to the lines it stands for and lists the
runs, the mutations each property has been tried against, the hazards of the code
and the theorems.

Reproduce a check with `tlc -config MCRequests.cfg MCRequests`, a counterexample
with `tlc -config MCTriggerSyncDies.cfg TriggerSync`, a proof with
`tlapm GuardProofs.tla`.

## 1. Inventory

What each part keeps, does, and must get right, and the module that models it.

**Upstream resilience** — `common/resilience`, `infrastructure/transport`: `Guard`,
`Bulkhead`. *State*: per endpoint a breaker (closed, open, half-open; a window of
outcomes; two probe counters) and a semaphore; per call a lease, a retry counter and
a body. *Operations*: `Guard.Allow`, `Semaphore.Acquire`, `Breaker.Report`, the retry
loop, `leaseBoundBody.Read/Close`, `GuardLease.Done`. *Interaction*: goroutines meet at
the breaker's mutex and the semaphore's channel; long streams hold lease and slot.
*Hard*: the breaker and the semaphore are asked one after the other, and a probe
the second turns away is never reported; a report arrives long after its admission; several paths end a call, some of them twice.
*Correct when*: slots equal calls holding them; only the upstream's own faults open
the breaker; a half-open episode admits its quota and ends; the breaker closes once
the upstream is healthy.

**LLM proxy use cases** — `application/llmproxy/usecase`, `domain/llmproxy/service`:
`Moderation`, `Fallback`. *State*: a request's outcome under the trigger words, its
candidates, the affinity of its conversation, a deferred record. *Hard*: every
question to the matcher may meet another matcher; rows change between resolution and
attempt; a context ends in between. *Correct when*: a word that stays loaded takes
effect; candidates are tried once each, in turn, and never after the first byte or the
end of the context; a call leaves one record, of the endpoint that ended it, and the
words leave one of theirs.

**Protocol converters, stream aggregation** — `application/llmproxy/converter`, `util`:
`Relay`. *State*: the tables of a stream in translation (blocks, choices, items,
calls). *Hard*: two numberings of the same pieces meet in one aggregator. *Correct
when*: what was said is stored; a client sees every item or block opened before its
deltas, once, and closed.

**OAuth subscription credentials** — `infrastructure/oauthprovider`,
`infrastructure/cache/oauth_access.go`, `application/endpoint/command/oauth_reauth.go`:
`OAuthToken`. *State*: the credential row, the cached access token, the refresh lock,
and at the provider the refresh tokens it still accepts. *Operations*:
`GetAccessToken`, `RefreshIfNeeded`, `refreshWithLock`, the reauthorization handler.
*Interaction*: request goroutines, the sweep and owners, on every instance. *Hard*:
rotating refresh tokens (a second use revokes the authorization), crashes between the
provider's answer and the save, lost replies, an expiring lock. *Correct when*: one
refresher at a time; the program never costs the owner the authorization; cache and
row do not fall behind; expiry is resolved.

**Distributed cron lock** — `cron/lock_runner.go`, `lock`: `CronLock`. *State*: one Redis
key per job, a renewal loop per run. *Hard*: Redis failing while a job runs, the key
expiring under it, a dead run's key. *Correct when*: one run at a time while Redis can
be reached; the key comes free.

**Cron manager** — `cron/manager.go`, `application/cronmgmt`: `CronReload`. *State*: a table
of running schedulers per instance, the job rows, a Redis channel. *Hard*: `Enable`
replaces an instance without stopping it, notices can be missed, updates race between
database and reload, reads of the row fail on the way, boot races with notices. *Correct
when*: with nothing in progress every instance runs what the row says, but for those a
named gap has led off it since their last restart.

**Conversation storage** — `infrastructure/pool`, `infrastructure/repository/session_dedup.go`,
`cron/soft_delete_purge.go`, `cron/session_terminal_cleanup.go`: `SessionStore`. *State*:
messages and tools shared by checksum, session rows naming them, soft deletion.
*Operations*: insert, merge, deletion, clean-up, purge. *Interaction*: pool workers of
every instance, users and two cron jobs over the same tables. *Hard*: insert and merge
are two transactions; the purge is four statements without one; scans precede locks.
*Correct when*: owners stay apart; a conversation ends in one row; merging loses
nothing; nothing a live session names is purged.

**Image blobs** — `infrastructure/blobstore`: `Blob`. *State*: per instance a set of
uploads in flight, a `blobs` row, the object, the messages that name it. *Hard*:
failing statements, crash, drain, retries, purge against new references. *Correct
when*: a stored reference can be resolved; row and object agree.

**Session shares** — `application/session`, `infrastructure/cache/share.go`: `Share`. *State*:
a key per link, a set per session, a sorted set per user. *Hard*: keys, sets and their
lives are written one by one. *Correct when*: one link at a time, and whoever made it
can revoke it.

**Trigger words** — `application/trigger`, `cron/trigger_hit_sync.go`,
`infrastructure/cache/trigger.go`: `TriggerSync`, `HitSync`. *State*: a matcher per
instance, a version, a channel, hit counters in Redis. *Hard*: notice before version,
a failing rebuild, read and delete as two commands. *Correct when*: instances that
poll get every change; a hit is counted once, and lost for named reasons only.

**API keys** — `application/apikey`, `middleware/apikey.go`: `KeyAuth`. *State*: key rows,
users, cached owners. *Hard*: a load that overlaps a revocation, a quota counted before
the insert. *Correct when*: a revocation sticks once old copies are gone; the quota is
overrun by concurrent issues only.

**Sign-in, users and permissions** — `application/identity`, `middleware/jwt.go`: `Account`.
*State*: user rows, the permission cache. *Hard*: whole-row saves, loads that overlap an
eviction. *Correct when*: a cached permission is the row's but for named reasons; an
administrator's decision stands.

**Read cache** — `infrastructure/cache/read_cache.go`: `ReadCache`. *Hard*: a flight that
loaded before a write and writes back after its invalidation; SCAN in batches. *Correct
when*: an entry is stale only for such a reason.

**Rate limiting** — `middleware/rate.go`, `middleware/token_rate.go`: `RateLimit`. *State*: two
buckets in Redis. *Hard*: clocks that differ, look before and charge after, expiring
keys. *Correct when*: a window admits a bucket and its refill; the debt is bounded.

**Graceful shutdown** — `common/inflight`, `middleware/inflight.go`, `bootstrap/lifecycle.go`:
`Shutdown`. *State*: a counter, a draining flag, deadlines, the order of stops. *Hard*:
`Track` against `Drain`; streams that outlive their handler. *Correct when*: after
`Drain` reports success no handler runs; pools outlive the requests that feed them.

**Not modelled**: audit records and runtime metrics (insert-only, nobody waits for
them; how many records a request leaves is in `Fallback`), reasoning extraction and
dataset export (text processing under the cron lock), the management API and demo
mode (one transaction per request, validation and mapping), the client, the web
frontend and the lint tools (separate programs).

How they meet: a request is let in by `KeyAuth`, `Account` and `RateLimit`, counted by
`Shutdown`, judged by `Moderation`, walks the candidates of `Fallback` (rows read
through `ReadCache`), each attempt through `Guard` with a token of `OAuthToken`; `Relay`
brings the answer back and to the store pool, whose workers are the writers of `Blob` and
`SessionStore`. Cron jobs run under `CronLock` by the schedules of `CronReload`.

## 2. Plan

All modules planned are written: the guard and its bulkhead, credentials, cron lock
and session store first, as what goes wrong most expensively, then shutdown, triggers
and hits, blobs, schedules, and the remaining request path.

Abstract specifications: `Bulkhead`, implemented by `Guard` in TLC (with fairness) and by
proof (its safety part). `TriggerSync` and `ReadCache` abstract the database to the number
of its last write, which makes "follows a register" an invariant of each.

Left, in this order:

1. a property of the terminal clean-up of its own (`cron/session_terminal_cleanup.go:156`):
   the model has the step, nothing forbids it to delete a conversation that was
   continued between its query and its deletion, which the code may do;
2. native Response streams and their aggregator;
3. the rebuild of the guard's registries past 1024 keys (`guard.go:128`).

## 3. Modules

Every module has one action per step between two places where another actor can
run: a mutex, a channel, a Redis command, a statement or transaction of the database,
a call to the provider. Variables called history are read by properties only.

**Guard** (`circuit_breaker.go`, `bulkhead.go`, `guard.go`, `transport/retry.go`,
`transport/openai.go`). A call is a goroutine: `idle -> acquire -> send <-> backoff ->
stream -> done -> release`. `Allow*` is `Breaker.Allow` with its three outcomes,
`Acquire*` the `select` of `Semaphore.Acquire`, `Try` one attempt of the retry loop
classified as `doUpstreamRequest` does, `StreamBreaks`/`CloseBody` the lease-bound body,
`Report`/`Release`/`Return` the end of the lease, whose outcome and attempts the next call
does not see (`LeaseEnds`). The clock is a flag (the open timeout)
and `AgeWindow`, which may expire any part of the window at any time: an
over-approximation of the six buckets, whose arithmetic is left out. Calls that a
drain cancels are reported like upstream faults, in a process that is going down. Of the
timer of `Acquire` (100 ms at least) one thing is assumed: a call that had reported when
the wait began, and had only its next statement, the release, left, has released before
the timer goes off (`ahead`, `TimerElapses`). Without it two goroutines could rest between
two adjacent statements (`transport/guard.go:99`) through every timer of the system. Once
gone off, the timer may win against a slot that became free, as a `select` allows.

**Bulkhead** is what the semaphore promises: at most `MaxConcurrent` holders, each of
which leaves.

**Fallback** (`resolver.go`, the walk of `usecase/common.go`). `Resolve` draws an order of
the candidates by pool, priority and affinity. `Words` is the verdict of `Moderation`, any
here, with the record it leaves: of a denial, of a capture, or of a history kept aside by a
request that is then forwarded (`openai.go:207`) and leaves a second record, of its call.
An attempt ends before the upstream was asked (`ConversionFails`, `TokenFails`), as
failed, answered, answered and lost, or with an open stream, which is read to an end, breaks,
or is closed unread when its writer cannot be registered (`StreamDropped`). The walk
goes on (`Switch`) while the failure, the candidates and the context allow it, and
otherwise submits the record that waited (`GiveUp`). `ContextEnds` is the end of the
context the use case is given: the third exit of `common.go:264`, which the repository's tests
take (`fallback_audit_test.go:114`). As the gateway is wired, neither a client that leaves
(fasthttp's request context is never done, `tracker.go:86`) nor the drain (it ends
contexts derived from it inside the transport) ends that one. Rows and affinity change meanwhile.

**Moderation** (`usecase/openai.go`, `anthropic.go`, `trigger_capture.go`). Each question to
the matcher is a step, and a rebuild may fall between any two. A request has a last question,
has none, or is a Decision, which is never captured; `remark` is the record the words leave.

**Relay** (`converter/openai_sse.go`, `openai.go`, `response_stream.go`, `util/openai.go`,
`util/anthropic.go`). The upstream says events; every event is translated and put
together at once, so the actions are the events and the state is the tables. What is
said is named by its place, not by its text. A block is named by its number, which is
all an Anthropic client knows of it.

**OAuthToken** (`token_provider.go`, `oauth_credential.go`, `oauth_access.go`,
`oauth_reauth.go`). Token sets are numbered as the provider issues them. A goroutine's
program counter names the next statement that leaves the process; `cred` is the
aggregate it works on, which is how stale snapshots arise. A token's remaining life is
one of the five classes the margins of the code (30 minutes, 3 minutes, 60 seconds,
expired) tell apart. Faults: any Redis, database or provider call may fail, a
provider's reply may be lost after it rotated, a goroutine may die, the owner or the
provider may revoke. Assumed of constants in the code: the lock's TTL (60 s) outlasts a
refresh and its save (15 s timeout) and the reads before and the cache write after them,
which have no timeout of their own, so the key of a live holder does not expire; tokens are issued
with equal lives.

**CronLock** (`lock_runner.go`, the scripts of `constant/lock.go`). Time advances in
renewal intervals; the key's life is `TTL` of them (three in the code). A renewal takes
less than one interval. The lock's value is a fresh UUID per run, so the model's run
cannot own a key left by an earlier run: it can only take the free key.

**CronReload** (`manager.go`, `update_cron_job.go`, `lock_runner.go`). An update is written,
read back, applied on its own instance and published; the others hear the notice and
read the row. Each of these reads may fail: after the commit, and nobody is told
(`ReadBackFails`); on a notice, which is dropped (`HearFails`); at boot, and the default spec is
used (`BootBlind`). `Start` does not fail: a spec reaches the row through the handler's
parser, which accepts less than `AddFunc`'s. Schedulers that lost their entry are kept in
`orphans`; `astray` is the set of instances a named gap has led off the row, which a
restart heals unless an update is under way elsewhere.

**SessionStore** (`store_pool.go`, `pool.go`, `session_dedup.go`, `soft_delete_purge.go`,
`session_terminal_cleanup.go` and their DAOs). A worker goes `idle -> storing -> stored ->
merging`: `Lookup` is the read of existing checksums at the start of the insert
transaction, `Store` its commit with conflicts skipped and read again (`RowsFor`),
`MergeScan` the `SELECT ... FOR UPDATE` of the conversation's rows and `Merge` the rest
of that transaction. Under READ COMMITTED the rows found by the scan are read again once
their locks are granted, and dropped if they no longer match: that is
`seen \cap Live` in `Merge`. `Continued`, `RollForward`, `Redundant`, `Container`, `Fold` are
`FindSessionTarget`, `writeBackSnapshot`, `FindRedundantSessions` and `applyMergeInTx`.
The purge is its statements, in order. Rows never get a number twice. Left out: scores,
metadata and questions of a row, the upgrade of stored reasoning, empty conversations
(which are never merged). The two lookups of an insert (messages, tools) are one step.
`GrowIdle` follows only rows that end at a tool call, the only ones asked for; it assumes
that a merge takes less than the idle threshold (half an hour).

**Blob** (`externalizer.go`, `uploader.go`, `purge.go`, the retry job). One image; a writer
externalizes and stores its message, jobs upload, retry and purge, any statement may
fail, an instance may drain or die, an upload's answer may be lost.

**Share** (`share.go` of the commands and of the cache). The reservation, the pipeline,
of which any prefix may have been executed, and the expiry of each key are steps.

**TriggerSync** (`application/trigger/service.go`). A change commits, rebuilds, publishes
and raises the version; instances follow the notice, the version and the slow rebuild.
The polling loop ends with the context it was started on; a handler's own rebuild runs on
its request's context (`Tell`).

**HitSync** (`trigger_hit_sync.go`, `cache/trigger.go`). SCAN, MGET, DEL, then a row at a time.

**Account**, **KeyAuth**, **ReadCache** share one shape: a load is its read and its
write-back, a change its commit and its eviction, and histories name why a copy may
be stale. Account adds the handlers that read a row and save all of it.

**RateLimit** (`rate.go`, `token_rate.go`, their scripts). Amounts are in parts of a token,
a tick refills a part, and each script gets its time from an instance whose clock may
be `Skew` ahead.

**Shutdown** (`tracker.go`, `inflight.go`, `lifecycle.go`, `adapter.go`). `Track` is its add and
its second look at the state, `Drain` its store, wait and deadline; hooks stop in order;
a stream's writer outlives the middleware.

**Compositions.** `RequestPath`, `Copies`, `Stored` and `Triggers` instantiate components over
variables of their own and name the properties that runs check and theorems state.
Components that share no state are checked together by modules in which a behaviour moves
the one that `focus` names, and the others rest in one of their initial states: `MCRequests` (Guard, RateLimit, Fallback), `MCCopies` (OAuthToken,
KeyAuth, Account, ReadCache, CronReload), `MCStored` (SessionStore, Relay, Blob, Share),
`MCBackground` (CronLock, Shutdown, TriggerSync, HitSync, Moderation) and `MCLive`
(OAuthToken, and Guard with and without its bulkhead). A composition checks each
component alone, exactly as a run of its own would, and claims nothing of interleavings between
them: what one needs of another it has as a step of its own environment (the purge and the
clean-up of `SessionStore` run one at a time, which `CronLock` is about; the pool that
refuses a task in `Shutdown`; the instance that drains or dies in `Blob`).

## 4. Runs

Passing runs:

| Run (module) | Instances | Shows |
|---|---|---|
| `guard_safety` (`MCRequests`) | Guard: 3 symmetric calls, 2 slots, 2 probes, 1 retry. RateLimit: 2 calls, 1 token of 2 parts, skew 1, 5 ticks. Fallback: up to 4 rows in 2 pools, 2 priorities, one OAuth; 2 changes; contexts that end. 1.2 M states | slots match holders; a half-open episode admits its quota; 429s and refusals never open the breaker; windows, overdraft and debt are bounded; one record per call beside that of the words; candidates tried once, in turn, while the context lives |
| `oauth_safety` (`MCCopies`) | OAuthToken: 2 callers, 1 owner, 3 token sets, rotating or not, 1 fault. KeyAuth: 2 users, 3 keys, quota 1. Account: 2 users, 2 handlers. ReadCache: 2 keys, 2 flights, 2 writes. CronReload: 2 instances, 3 updates, 1 lost notice or failed read, 1 restart. 1.9 M states | one refresher; only a loss outside the program costs the authorization; the cache never ahead of the row and the row never back, before a reauthorization; revocations stick; the quota is overrun by concurrent issues only; permissions, read-cache entries and schedules follow their rows but for named reasons |
| `session_store` (`MCStored`) | SessionStore: 2 workers, 3 inserts of 2 keys, 1 failed merge, 1 deletion. Relay: 5 events, every pair of protocols, calls with and without ids. Blob: 2 instances, 2 writers, 2 faults. Share: 2 users, 2 requests, 2 links. 2.1 M states | owners apart; duplicates heal; references dangle only after an overlap; merges keep content; streams are stored whole but for later Anthropic blocks; items paired; image references resolve; links revocable, one at a time |
| `background` (`MCBackground`) | CronLock: 3 runs, TTL 3, 4 faults. Shutdown: a plain and a streaming request. TriggerSync: 2 instances, 2 changes, 1 fault. HitSync: 2 words, 4 hits, 1 fault. Moderation: 1 request, 2 words, 2 rebuilds. 111 256 states, fair | runs overlap only after two failed renewals in a row; the key comes free; drained means handlers left; the pool refuses only past the deadline; shutdown ends; cursors are covered and polling instances follow; hits conserved and arriving; words take effect |
| `live` (`MCLive`) | OAuthToken: 1 caller, 1 sweep, 1 fault, rotating. Guard: 2 calls, 1 slot, with and without bulkhead. 102 066 states, fair | an expired token is resolved; `Guard` implements `Bulkhead`; every call returns; the breaker of a healed upstream closes again, with the bulkhead and without |

Violation runs, one property each, the code against its own documentation (section 5):
`guard_half_open_stuck`, `oauth_reauth_lost`, `session_id_drift`, `shutdown_streams`,
`trigger_sync_dies`, `profile_undoes_demotion`, `streams_lose_blocks`.

**Why the bounds are enough.** A breaker needs two reports to distinguish "below" from
"at" `MinRequests`, and three calls to have a stale reporter beside a probe and a waiter.
A refresh conflict needs two refreshers and three token sets (before, after, after a
second); a third process adds the owner. The cron lock needs a run in trouble, one that
takes over, and one more to lose the key again; `TTL` and the failure limit are the
code's own. A merge needs an established row, two rounds in flight and a foreign row;
two workers make every pair of transactions overlap. A stale copy needs one load and
one change; two of each let them overlap twice, and one fault makes every failure
happen in every place. Five events of an answer are a call with a split argument
beside a text that is interrupted and resumed. Four candidates give every order of own
and shared rows, of priorities, and the affinity's row in every position.

**Restrictions named in the runs.** In `MCRequests` the upstream never heals (`~healed'`):
healing only takes failures away, so it can add no new violation of the three properties,
and `MCLive` is about it. `MCLive` has rotating refresh tokens only (`Rotations`), the harder
case; `MCCopies` has both. Deadlock is not checked where the system really stops: when the
inputs of `SessionStore`, `Relay`, `Blob`, `Share`, `ReadCache` or the clock of `RateLimit` are used up.

**Fairness.** Goroutines that can run do run, and every network call ends, since each has
a timeout or a context; that is weak fairness on the steps of a process. The clock
moves (`OpenTimeoutElapses`, `AgeWindow`, `Tick`, `Expire`, `LockExpires`). `RecoversAfterHeal`
also needs clients that keep calling, since the breaker moves only when asked, and no more
probes than slots, as in the configuration's defaults (1 and 32): a probe that times out in
the semaphore is counted and never reported (`guard.go:97`), and what ends half-open then is
the report of whoever held the slot, since he reports before he releases and any report
counts. What happens with more probes than slots is the run `guard_half_open_stuck`.
`KeyComesFree` needs jobs that end: weak fairness on `StopRunning`. `FollowsWhileAlive` has
strong fairness on the rebuild every five minutes (`RebuildAnyway`): its ticker fires again
and again, but polls come in between and a rebuild may fail. `ShutdownEnds` counts on the
broadcast of the soft deadline only, not on the hard deadline. `ExpiryResolved` is for a
credential nobody reauthorizes meanwhile. No fairness is assumed of failures, of the
provider's healing, of the end of fx's start context, of users, or of any particular winner
of a race.

## 5. What the checks found

Seven runs exhibit a disagreement between code and documentation.

1. **A half-open breaker can wedge when it takes more probes than there are slots**
   (`guard.go:97`). `Guard.Allow` lets the breaker count a probe, then asks the semaphore;
   when that refuses, it returns without a report. With two probes and one slot, which
   the clamps of `config.go:439` allow, one probe succeeds while the other times out: the
   successes never reach the quota, and every later call is rejected, against
   `enum/breaker_state.go:23`. With the defaults (1 and 32) half-open always ends
   (`RecoversAfterHeal`).
2. **A reauthorization can be lost** (`oauth_reauth.go:103`). The handler saves without the
   refresh lock; a refresh that had read the row earlier saves its snapshot over it.
3. **A session id can drift** (`session_dedup.go:343`). With two rounds of an established
   conversation inserted before either is merged, the merge keeps a new row and deletes
   the established one, and with it score and shares (CONTEXT.md:302).
4. **Drain does not wait for streams** (`middleware/inflight.go:36`). A streaming handler
   returns once its writer is registered, and leaves the tracker with it; the writer runs
   later, and its records meet a stopped pool (`tracker.go:44`).
5. **Polling ends with the start** (`lifecycle.go:63`). `StartSync` polls on fx's start
   context, which ends at the start timeout; from then on the instance loads the changes
   made through itself, and no longer those of the others.
6. **A profile update undoes a demotion** (`update_profile.go:48`). The user's row is read,
   changed and saved whole, with the permission it had when read.
7. **Later blocks of a translated answer are lost** (`openai_sse.go:46`). Deltas go to the
   choice numbered like their block, and only the first choice is stored (README.md:75).

Met while stating properties, and most of them named in the properties' exceptions.

*Credentials.* The sweep's double check uses the request path's margin of 3 minutes, so a
token with 3 to 30 minutes left is cached again instead of refreshed
(`token_provider.go:122`).

*Guard.* A report from before the breaker opened, arriving in half-open, counts as a
probe's (`circuit_breaker.go:118`), so `EpisodeProbesBounded` is about calls of one episode
and not about reports. That is also what saves half-open when the semaphore turns its
probe away: the mutation in which a report counts for its own episode only wedges.

*Sessions.* A purge can take what an insert just named, neither locks the messages it
has read (`soft_delete_purge.go:172`, CONTEXT.md:299). A merge works with the row its worker
inserted and not with the row under the lock (`session_dedup.go:332`). The clean-up deletes
by ids read one query earlier. The last step of the purge takes rows soft-deleted after
its first, and nobody names their messages then (`soft_delete_purge.go:188`).

*Cron.* A key outlives its run, so a trigger can be told "already running"
(`manager.go:303`). `Enable` of a running job leaves a scheduler nobody can reach
(`manager.go:252`). A read that fails after the commit leaves every instance on the old
schedule and the caller with an error (`update_cron_job.go:64`). A disable notice is applied without a look at the row (`manager.go:138`).

*Shutdown.* `Track` may add to a WaitGroup whose `Wait` is returning, which Go answers with
a panic (stage "crashed"). README.md:123 names another order of stops than the code's, and
its 660 s exceed the 480 s of `k8s/deployment.yaml:27`.

*Identity.* An account that was deleted signs in as a new pending row. The unique indexes
of `model/user.go:24` make two users without the provider's id collide on ''.

*Images.* A duplicate submitter trusts another whose raw insert may fail; a purge may
delete the object and then fail to delete the row; a retry racing it leaves an object
without a row (`purge.go:50`).

*Shares.* A rollback after a failing pipeline leaves the set's member: the session is
refused as shared and has no link (against `share.go:118`).

*Caches and buckets.* An invalidation that fails leaves entries until their TTL
(`read_cache.go:27`). A debt of more than two periods is forgiven when its key expires.

*Proxy.* The walk over the candidates sees neither the drain, which only the transport does,
nor a client that leaves, though `common.go:249` names both. Conversion and token errors leave no record. A client that leaves in a
stream is charged nothing. A tenant whose own rows are all disabled is not served by
the public pool. A denial, a capture and the stored texts are judged on several
snapshots of the matcher.

*Streams.* Text, thinking and the first tool call of a chat stream share index 0 for an
Anthropic client, and no block is closed (`converter/openai.go:188`). A call without an id gets
another random id when it ends. Events of several translated structures carry no model. A chat
stream that ends without `[DONE]` counts as complete.

## 6. Proofs

Checked by TLAPS for every value of the constants under the named assumptions
(`GuardAssumption`, `OAuthAssumption`, `CronLockAssumption`, `SessionAssumption`,
`ShutdownAssumption`, `KeyAuthAssumption`), which are what configuration clamps and
constants of the code guarantee; where a theorem assumes more, its statement says so
and the paragraph below says why. Types are proved and not
listed as properties of a run: a type invariant that holds by proof needs no
instance. The inductive invariants below were checked by TLC on the instances of
section 4 before they were proved. A proof module that holds several components
extends the module that instantiates them (`RequestPath`, `Copies`, `Stored`, `Triggers`), as
the run's module does.

**GuardProofs.** `TypeCorrect` and `BulkheadSound` (slots = holders ≤ `MaxConcurrent`) from
`GuardInv`: typing alone is not inductive, since the success counter stays within its
quota only because half-open ends when it is reached, and the attempt counter only
because a call backs off below the limit; the slots stay in range only through the
holders they count. The step lemmas count holders with the cardinality theorems: a step
moves one call in or out. `BreakerOpensOnFaultsOnly` strengthens "closed" by "no failure
in the window and no lease about to report one". `EpisodeQuotaKept` relates the current
probes to `halfOpenSent`: a new episode makes all earlier probes stale. `RefinesBulkhead`:
every step of the guard is one of the bulkhead's or a stutter, under the same
invariant.

**OAuthProofs.** `OAuthTypeCorrect`; `RefreshIsExclusive` by `LockOwned` (who is in the
section has the key); `GrantLostOnlyOutside` by `OAuthInv`: while nothing was lost, the
refresh token the next refresh will present is one the provider accepts, either in the
row or in the hands of the one goroutine that is about to save it (`GrantKept`), and an
owner's fresh token set is known to nobody else before it is saved (`ReauthUnshared`).
`CacheBehindRow` and `SavesNeverRegress` by `InOrder` over `OAuthInv`: until an owner
reauthorizes, who is about to cache a token has one the row has seen, and who is about
to write the row has one at least as new. The second is an action property, which
follows from `InOrder` in the state before the save.

**RequestProofs** is about `RateLimit` and `Fallback` (through `RequestPath`).
`WindowsBounded`: in no window is a client admitted more than a bucket and its refill.
The bound is not inductive, since it does not say what is left. `Metered` balances what
was taken since a mark, what is left, and the time of the last script, so that a
script whose clock is ahead or behind moves both sides alike; and it says that a
bucket has refilled when its key expires. `DebtsBounded` by `Overdraft` (the bucket of the
fastest clock, less what each call under way may still cost) and `LastCharged` (only
charges write the token bucket). Both assume a skew of at most the time in which a bucket
fills (`RateParameters`), and the first needs it: with a bucket of 1 part and a skew of 3, TLC
violates `WindowBounded`, as a key then expires before its bucket has refilled.
`OneRecordEach` and `WalkInTurn` by `WalkInv`: what was tried is the candidates up to the
position of the request (`Walked`), in the order `Resolve` gave them (`InTurn`), and an
attempt that ended after the context is the last one; a record waits exactly from an
upstream's refusal until it is judged (`Judged`); and the records there are, are that of
the words and then that of the call (`Recorded`). Rows are
any finite set; their ids need not differ.

**CopiesProofs** is about `ReadCache`, `Account` and `CronReload` (through `Copies`).
`CacheCurrent` and `PermissionCacheFollows` are inductive relative to the types, as their
histories name every load that overlapped a change. `SettledFollowsRow` is not: it says
nothing of states with work in progress. `InStep` does: while some instance is not astray,
updates come one at a time, and unless one is awaited, every instance not astray has the
row or the notice that brings it (`Caught`). `SchedulesFollow` assumes that the model's mark of a boot that
has not read the row is no schedule (`Reloads!Up \notin Specs`).

**BackgroundProofs** is about `CronLock`, `Shutdown` and, through `Triggers`, `TriggerSync`,
`HitSync` and `Moderation`.
`CronTypeCorrect`, `CronRunsExclude` by `KeyCoversRun`: a run with fewer than `TTL - 1`
failures in a row owns the key, whose remaining life is at least the intervals not yet
lost to failed or pending renewals.
`DrainInvariant`, that the counter equals the requests inside, and `DrainSound` from it: a
drain that reports success has seen it at zero after the flag, and whoever adds later
looks at the flag again and leaves. `RefusalsPastDeadline` adds (`SDRefusalInv`) that the pool
stops only after the drain's hook, so that when it does a drain has reported that
nobody submits any more, or has given up.
`CursorSound` by `NothingAhead`: nothing is counted, held or matched that is not committed,
and no cursor or poll is ahead of the version.
`HitsBalance` by `CountsInHand`: between MGET and DEL a count is in Redis and in the job's
hands, after the DEL in its hands only.
`WordsJudged`, an action property, by `WordsKnown`: a request on its way has passed only the
questions that its steady words let it pass.

**StoredProofs** is about `Share`, `Blob` and `Relay` (through `Stored`). `LinksRevocable` is inductive
relative to the types (`MadeLinksRevocable`). `SharedOnce` needs `TakenInTurn`: requests that
create follow one another, each finds the set empty and leaves it with its own id, which
sets the expiry, so what is not in the set is not yet indexed or has expired.
`ReferencesResolve` and `RowsMatchObjects` come from one `BlobInv`: who works on the image has it
in `inflight` (`HandsFull`), who is about to store a reference has a row or an image
behind it (`Resolvable`), who is about to record an upload has the object (`Recorded`), and
where nothing was lost an object is recorded or about to be (`Accounted`). The two
theorems assume that the model's marks of an idle job, "none" and "job", are no writers.
Of `Relay`, every step that is not an end is one event with its chunk (`Speech`).
`LaterBlocksOnly` needs that calls are numbered as they begin and that what is said in a call
has one (`SaidInv`), so a delta finds its call; the first choice then lists, in order, what
it was told (`AnswerInv`). `ItemsMatched` adds `ShownInv`: what the client was shown are
the items of what was said, and the tables of the translation know exactly those, so an item
is added when its first piece comes and never again; the items closed are read off the
choice, hence off what was said. `MaxSaid` plays no part.

**SessionProofs.** `TenantsIsolated`, that a live session holds what its own key sent. The
invariant (`OwnersInv`) follows the key through a merge: whatever a worker has scanned
is, while alive, of the key of the row it holds, and ids beyond `lastId` are unused, so
no insert can bring a scanned id to life. Steps that insert nothing are shown `Tame`
(they change no owner and revive no row) once, and every invariant part is preserved by
tame steps. `PurgeSpares` adds (`NamesInv`) where row numbers come from, and that, while
`overlap` is false, what live sessions name exists and is not picked by the purge in
progress (`Backed`): an insert or a write-back names rows out of a worker's memory, and
`overlap` records exactly when one of them was taken or picked since.
`DuplicatesFound` by `Healing`: two related rows are in debt, or the worker of one of them
has yet to compare them (`Attended`). That is not inductive, since a merge takes what it saw
out of debt and may have missed a row inserted after its scan; `MissedAttended` says that such a
row has its own worker, and `SeenFirst` that it has the larger id, so no two scans can
each miss what the other saw. Two lemmas carry the merges: rows that survive a fold are
not the beginning of one another (`FoldSeparates`), and a row rolled forward is related to no
row its old messages were not related to. `MergesContinue`, an action property, rests on
`Contained`: a redundant row has a container that stays, as "longer first, then older" is
well-founded on a finite table.

**KeyAuthProofs.** `KeyTypesCorrect`; `QuotaOverrun`: the keys of a user and his issues that
passed the count are together bounded by the quota and the issues under way, which
the count before an insert keeps; `RevocationFinal`: a revoked key has no owner to load,
so an entry of it can only come from a copy that was made before.

**Model-checked only.** Liveness (`KeyComesFree`, `ShutdownEnds`, `FollowsWhileAlive`, `HitsArrive`,
`ExpiryResolved`, `CallsReturn`, `RecoversAfterHeal`) and the refinement of `Bulkhead` with its
fairness, which the prover does not reach. Every safety invariant and action property
of the passing runs is proved of its component. The
compositions of section 3 claim nothing beyond their components.

## 7. Limits

Parts of modelled components that are not modelled, with the reason.

- Guard: the registries' reset at 1024 keys and the rounding of buckets
  (`circuit_breaker.go:172`); one endpoint at a time.
- OAuthToken: the authorization flow before the code exchange; one endpoint.
- CronLock: renewals slower than an interval.
- SessionStore: isolation levels other than READ COMMITTED, data of a row beyond its lists.
- Relay: native Response streams, unary answers and field mapping: stateless, or pinned by
  their tests.
- Fallback: what the records say; `count_tokens`, which has no fallback.
- Blob: the migration of old messages, the command line's synchronous uploader.
- Account: the OAuth2 state (one atomic script), the tokens' signatures.
- Share: the listing. ReadCache: what a query returns beyond its last write.
- Shutdown: hooks no request depends on. TriggerSync: the Aho-Corasick matcher, a pure
  function of the words.

DTOs, handlers, repositories, the management API and the web frontend are most of the
repository's lines: they validate, copy fields and run one transaction, and keep no
state that an interleaving could spoil. The map therefore covers the parts above and
stays a small share of the whole.
