---------------------------- MODULE RequestPath ----------------------------
(* What a request meets before the guard of an endpoint: the two token       *)
(* buckets of its client (RateLimit) and the candidates of its model         *)
(* (Fallback), each over variables of its own.                               *)

CONSTANTS Clients, Capacity, Grain, Skew, MaxCost, MaxTime
VARIABLES now, requests, tokens, call, mark, charged

Rates == INSTANCE RateLimit WITH Calls <- Clients

CONSTANTS Requests, Rows, SharedPoolFallback, MaxChanges
VARIABLES rows, usable, affinity, walk, log, audits, changes

Walks == INSTANCE Fallback WITH req <- walk

\* In any window a client is admitted a full bucket and the refill at most (RateLimit).
WindowBounded == Rates!WindowBounded
\* The token bucket is overdrawn once per call, and for two periods (RateLimit).
DebtBounded == Rates!DebtBounded
\* A call leaves one record, of the endpoint that ended it, beside that of the
\* trigger words (Fallback).
OneRecord == Walks!OneRecord
\* Candidates are tried once each, in turn, while the context of the request lives,
\* and all before it gives up on a switchable failure (Fallback).
TriedInTurn == Walks!TriedInTurn
=============================================================================
