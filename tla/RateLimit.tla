----------------------------- MODULE RateLimit -----------------------------
(***************************************************************************)
(* Two token buckets of one client in Redis: of requests, filled and taken *)
(* from in one script (middleware/rate.go), and of model tokens, looked at *)
(* before a call and charged after it (middleware/token_rate.go).          *)
(*                                                                         *)
(* Amounts are in parts: Grain parts are one token, and a tick of the      *)
(* clock refills one part, so Period ticks fill a bucket.  Scripts get the *)
(* time from the instance that runs them, whose clock may be Skew ahead.   *)
(* Keys expire by Redis's clock, two periods after the last script that    *)
(* wrote them.                                                             *)
(***************************************************************************)
EXTENDS Integers, FiniteSets

CONSTANTS Calls,      \* calls of the client that may be under way at a time
          Capacity,   \* of either bucket, in tokens
          Grain,
          Skew,
          MaxCost,    \* bound: tokens one call uses
          MaxTime     \* bound: ticks

VARIABLES
    now,
    requests,   \* the request bucket
    tokens,     \* the token bucket
    call,       \* idle, admitted by the first bucket, running after the second
    mark,       \* a moment somebody begins to count at, and the requests since
    charged     \* when the token bucket was last charged

vars == <<now, requests, tokens, call, mark, charged>>

Full == Capacity * Grain
Period == Full
Clocks == now..(now + Skew)

Missing == [parts |-> Full, last |-> 0, expires |-> 0]
Lower(a, b) == IF a < b THEN a ELSE b
Higher(a, b) == IF a > b THEN a ELSE b

Init ==
    /\ now = 0 /\ requests = Missing /\ tokens = Missing
    /\ call = [c \in Calls |-> "idle"]
    /\ mark = [at |-> -1, admitted |-> 0] /\ charged = -1

\* Mutation of Refilled: the time of the last refill goes back with a slow clock.
RefilledClockBack(bucket, t) ==
    IF bucket.expires <= now THEN [Missing EXCEPT !.last = t]
    ELSE [bucket EXCEPT !.parts = Lower(Full, @ + Higher(0, t - bucket.last)), !.last = t]

\* What a script finds at time t: a bucket not there is full; time that passed
\* since the last refill adds to it, a clock that is behind adds nothing.
Refilled(bucket, t) ==
    IF bucket.expires <= now THEN [Missing EXCEPT !.last = t]
    ELSE [bucket EXCEPT !.parts = Lower(Full, @ + Higher(0, t - bucket.last)),
                        !.last = Higher(@, t)]

Written(bucket) == [bucket EXCEPT !.expires = now + 2 * Period]

\* tokenBucketLua: takes a token if there is a whole one.
Admit(c) == \E t \in Clocks :
    LET b == Refilled(requests, t) IN
    /\ call[c] = "idle"
    /\ \/ /\ b.parts >= Grain
          /\ requests' = Written([b EXCEPT !.parts = @ - Grain])
          /\ call' = [call EXCEPT ![c] = "admitted"]
          /\ mark' = [mark EXCEPT !.admitted = IF mark.at < 0 THEN 0 ELSE @ + 1]
       \/ /\ b.parts < Grain
          /\ requests' = Written(b)
          /\ UNCHANGED <<call, mark>>
    /\ UNCHANGED <<now, tokens, charged>>

\* Mutation of Peek: looking at the balance writes it back.
PeekRenews(c) == \E t \in Clocks :
    /\ call[c] = "admitted"
    /\ call' = [call EXCEPT ![c] =
          IF Refilled(tokens, t).parts \div Grain > 0 THEN "running" ELSE "idle"]
    /\ tokens' = Written(Refilled(tokens, t))
    /\ UNCHANGED <<now, requests, mark, charged>>

\* tokenBucketPeekLua writes nothing; the balance is rounded down.
Peek(c) == \E t \in Clocks :
    /\ call[c] = "admitted"
    /\ call' = [call EXCEPT ![c] =
          IF Refilled(tokens, t).parts \div Grain > 0 THEN "running" ELSE "idle"]
    /\ UNCHANGED <<now, requests, tokens, mark, charged>>

\* tokenUsageReporter.Report: tokenBucketDeductLua, whatever the balance.
Deduct(c, cost) == \E t \in Clocks :
    /\ call[c] = "running"
    /\ call' = [call EXCEPT ![c] = "idle"]
    /\ tokens' = Written([Refilled(tokens, t) EXCEPT !.parts = @ - cost * Grain])
    /\ charged' = now
    /\ UNCHANGED <<now, requests, mark>>

\* The call used no tokens, or the script failed, which is logged.
EndUncharged(c) ==
    /\ call[c] \in {"admitted", "running"}
    /\ call' = [call EXCEPT ![c] = "idle"]
    /\ UNCHANGED <<now, requests, tokens, mark, charged>>

Tick ==
    /\ now < MaxTime /\ now' = now + 1
    /\ UNCHANGED <<requests, tokens, call, mark, charged>>

\* Any moment may be the one a window is counted from.
Mark ==
    /\ mark.at < 0 /\ mark' = [at |-> now, admitted |-> 0]
    /\ UNCHANGED <<now, requests, tokens, call, charged>>

Next ==
    \/ \E c \in Calls : Admit(c) \/ Peek(c) \/ EndUncharged(c)
                        \/ \E cost \in 1..MaxCost : Deduct(c, cost)
    \/ Tick \/ Mark

Spec == Init /\ [][Next]_vars

-----------------------------------------------------------------------------
(* Properties *)

TypeOK ==
    /\ now \in Nat
    /\ requests \in [parts : 0..Full, last : Nat, expires : Nat]
    /\ tokens \in [parts : Int, last : Nat, expires : Nat]
    /\ call \in [Calls -> {"idle", "admitted", "running"}]
    /\ mark \in [at : Nat \cup {-1}, admitted : Nat]
    /\ charged \in Nat \cup {-1}

Running == {c \in Calls : call[c] = "running"}

\* In any window a client is admitted at most a full bucket and what the window
\* refills, however many instances admit him and whatever their clocks say
\* (within the skew), expiry of the key included (rate.go:91).
WindowBounded == mark.at >= 0 => mark.admitted * Grain <= Full + (now - mark.at) + Skew

\* Calls under way may overdraw the token bucket, by no more than each of them
\* uses once: after the balance is used up nobody new gets in.  And a debt keeps
\* the client out for two periods after the last charge at most: looking at the
\* balance does not keep the key alive.
DebtBounded ==
    /\ Refilled(tokens, now + Skew).parts
          >= Grain - Grain * MaxCost * (Cardinality(Calls) - Cardinality(Running))
    /\ charged >= 0 /\ now >= charged + 2 * Period =>
          \A t \in Clocks : Refilled(tokens, t).parts = Full

-----------------------------------------------------------------------------
(* Why the properties hold *)

\* No bucket was refilled later than the fastest clock says.
Punctual == requests.last <= now + Skew /\ tokens.last <= now + Skew

\* What was taken since the mark and what is left of it, less the refill up to
\* the last script, is a full bucket at the mark: a script whose clock is behind
\* or ahead moves parts and last alike.  It was last written a skew after its
\* last refill at the earliest, so that it has refilled when its key expires.
Metered ==
    /\ mark.at <= now
    /\ mark.at < 0 => mark.admitted = 0
    /\ mark.admitted > 0 =>
          /\ mark.admitted * Grain + requests.parts + mark.at <= Full + requests.last
          /\ requests.last + 2 * Period <= requests.expires + Skew

\* Charges are all that writes the token bucket.
LastCharged ==
    /\ charged < 0 => tokens = Missing
    /\ charged >= 0 => tokens.expires = charged + 2 * Period
=============================================================================
