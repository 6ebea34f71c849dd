---------------------------- MODULE RequestProofs ----------------------------
(***************************************************************************)
(* Proofs about what a request meets before an upstream: the token buckets *)
(* of its client (RateLimit) and the candidates of its model (Fallback),   *)
(* each taken by itself, for every value of the constants.  The bounds on  *)
(* time and on changes play no part.                                       *)
(***************************************************************************)
EXTENDS RequestPath, Integers, Sequences, FiniteSets, FiniteSetTheorems, TLAPS

-----------------------------------------------------------------------------
(* The token buckets, for any calls, capacity, grain, skew and cost          *)

\* What is assumed of the parameters: the clocks of the instances differ by no
\* more than a bucket takes to fill, which is a minute for the calls of a model.
RateParameters ==
    /\ IsFiniteSet(Clients)
    /\ Capacity \in Nat \ {0} /\ Grain \in Nat \ {0} /\ MaxCost \in Nat
    /\ Skew \in Nat /\ Skew <= Rates!Full

Bucket == [parts : Int, last : Nat, expires : Nat]

LEMMA FullTyped ==
    ASSUME RateParameters
    PROVE  Rates!Full \in Nat /\ Grain \in Nat /\ Grain <= Rates!Full /\ Rates!Period = Rates!Full /\ 1 <= Grain
<1>1. Capacity \in Nat /\ Grain \in Nat /\ Capacity >= 1 /\ Grain >= 1
  BY DEF RateParameters
<1>2. Capacity * Grain \in Nat /\ (Capacity - 1) * Grain >= 0
  BY <1>1
<1>3. Capacity * Grain = (Capacity - 1) * Grain + Grain
  BY <1>1
<1>4. QED
  BY <1>1, <1>2, <1>3 DEF Rates!Full, Rates!Period

\* What a script finds, in each of its three cases.
LEMMA WhatIsFound ==
    ASSUME RateParameters, now \in Nat, NEW b \in Bucket, NEW t \in Nat
    PROVE  /\ b.expires <= now => Rates!Refilled(b, t) = [parts |-> Rates!Full, last |-> t, expires |-> 0]
           /\ b.expires > now /\ t <= b.last =>
                Rates!Refilled(b, t) = [b EXCEPT !.parts = Rates!Lower(Rates!Full, b.parts)]
           /\ b.expires > now /\ t > b.last =>
                Rates!Refilled(b, t) = [b EXCEPT !.parts = Rates!Lower(Rates!Full, b.parts + (t - b.last)),
                                           !.last = t]
<1>1. CASE b.expires <= now
  BY <1>1 DEF Rates!Refilled, Rates!Missing, Bucket
<1>2. ASSUME b.expires > now
      PROVE  Rates!Refilled(b, t) = [b EXCEPT !.parts = Rates!Lower(Rates!Full, b.parts + Rates!Higher(0, t - b.last)),
                                        !.last = Rates!Higher(b.last, t)]
  <2>1. ~(b.expires <= now)
    BY <1>2 DEF Bucket
  <2>2. QED
    BY <2>1 DEF Rates!Refilled
<1>3. CASE b.expires > now /\ t <= b.last
  <2>1. Rates!Higher(0, t - b.last) = 0 /\ Rates!Higher(b.last, t) = b.last /\ b.parts + 0 = b.parts
    BY <1>3 DEF Rates!Higher, Bucket
  <2>2. Rates!Refilled(b, t) = [b EXCEPT !.parts = Rates!Lower(Rates!Full, b.parts), !.last = b.last]
    BY <1>2, <1>3, <2>1
  <2>3. [b EXCEPT !.parts = Rates!Lower(Rates!Full, b.parts), !.last = b.last]
            = [b EXCEPT !.parts = Rates!Lower(Rates!Full, b.parts)]
    BY DEF Bucket
  <2>4. QED
    BY <1>3, <2>2, <2>3 DEF Bucket
<1>4. CASE b.expires > now /\ t > b.last
  <2>1. Rates!Higher(0, t - b.last) = t - b.last /\ Rates!Higher(b.last, t) = t
    BY <1>4 DEF Rates!Higher, Bucket
  <2>2. Rates!Refilled(b, t) = [b EXCEPT !.parts = Rates!Lower(Rates!Full, b.parts + (t - b.last)), !.last = t]
    BY <1>2, <1>4, <2>1
  <2>3. QED
    BY <1>4, <2>2 DEF Bucket
<1>5. QED
  BY <1>1, <1>3, <1>4 DEF Bucket

\* The same, as numbers: what is there is at most full, the time of the refill
\* never goes back, and parts less time never grows while the key is there.
LEMMA RefillBounds ==
    ASSUME RateParameters, now \in Nat, NEW b \in Bucket, NEW t \in Rates!Clocks
    PROVE  LET f == Rates!Refilled(b, t) IN
           /\ f \in Bucket /\ f.parts <= Rates!Full /\ t \in Nat /\ now <= t /\ t <= now + Skew
           /\ t <= f.last
           /\ b.last <= now + Skew => f.last <= now + Skew
           /\ b.expires > now => f.parts - f.last <= b.parts - b.last
           /\ b.expires <= now => f.parts = Rates!Full /\ f.last = t
           /\ 0 <= b.parts => 0 <= f.parts
<1> DEFINE f == Rates!Refilled(b, t)
<1>1. t \in Nat /\ now <= t /\ t <= now + Skew
  BY DEF RateParameters, Rates!Clocks
<1>2. Rates!Full \in Nat
  BY FullTyped
<1>3. CASE b.expires <= now
  <2>1. f = [parts |-> Rates!Full, last |-> t, expires |-> 0]
    BY <1>1, <1>3, WhatIsFound
  <2>2. f.parts = Rates!Full /\ f.last = t /\ f \in Bucket
    BY <1>1, <1>2, <2>1 DEF Bucket
  <2>3. ~(b.expires > now)
    BY <1>3 DEF Bucket
  <2>4. QED
    BY <1>1, <1>2, <1>3, <2>2, <2>3
<1>4. CASE b.expires > now /\ t <= b.last
  <2>1. f = [b EXCEPT !.parts = Rates!Lower(Rates!Full, b.parts)]
    BY <1>1, <1>4, WhatIsFound
  <2>2. Rates!Lower(Rates!Full, b.parts) \in Int /\ Rates!Lower(Rates!Full, b.parts) <= Rates!Full
        /\ Rates!Lower(Rates!Full, b.parts) <= b.parts /\ (0 <= b.parts => 0 <= Rates!Lower(Rates!Full, b.parts))
    BY <1>2 DEF Rates!Lower, Bucket
  <2>3. f.parts = Rates!Lower(Rates!Full, b.parts) /\ f.last = b.last /\ f \in Bucket
    BY <2>1, <2>2 DEF Bucket
  <2>4. QED
    BY <1>1, <1>2, <1>4, <2>2, <2>3 DEF Bucket, RateParameters
<1>5. CASE b.expires > now /\ t > b.last
  <2> DEFINE p == b.parts + (t - b.last)
  <2>1. f = [b EXCEPT !.parts = Rates!Lower(Rates!Full, p), !.last = t]
    BY <1>1, <1>5, WhatIsFound
  <2>2. p \in Int /\ (0 <= b.parts => 0 <= p)
    BY <1>1, <1>5 DEF Bucket
  <2>3. Rates!Lower(Rates!Full, p) \in Int /\ Rates!Lower(Rates!Full, p) <= Rates!Full
        /\ Rates!Lower(Rates!Full, p) <= p /\ (0 <= p => 0 <= Rates!Lower(Rates!Full, p))
    BY <1>2, <2>2 DEF Rates!Lower
  <2>4. f.parts = Rates!Lower(Rates!Full, p) /\ f.last = t /\ f \in Bucket
    BY <1>1, <2>1, <2>3 DEF Bucket
  <2>5. QED
    BY <1>1, <1>2, <1>5, <2>2, <2>3, <2>4 DEF Bucket, RateParameters
<1>6. QED
  BY <1>1, <1>3, <1>4, <1>5 DEF Bucket

\* Every variable keeps its type, and no refill is ahead of the fastest clock.
RateTyped == Rates!TypeOK /\ Rates!Punctual

LEMMA BucketsTyped ==
    ASSUME RateParameters, RateTyped
    PROVE  /\ requests \in Bucket /\ tokens \in Bucket /\ now \in Nat /\ Skew \in Nat
           /\ requests.last <= now + Skew /\ tokens.last <= now + Skew
           /\ 0 <= requests.parts /\ requests.parts <= Rates!Full
<1>1. Rates!Full \in Nat
  BY FullTyped
<1>2. QED
  BY <1>1 DEF RateTyped, Rates!TypeOK, Rates!Punctual, Bucket, RateParameters

LEMMA RateTypedStep == RateParameters /\ RateTyped /\ [Rates!Next]_Rates!vars => RateTyped'
<1> SUFFICES ASSUME RateParameters, RateTyped, [Rates!Next]_Rates!vars PROVE RateTyped'
  OBVIOUS
<1> USE DEF RateTyped
<1>1. Rates!Full \in Nat /\ Grain \in Nat /\ 1 <= Grain /\ Grain <= Rates!Full /\ Rates!Period = Rates!Full
  BY FullTyped
<1>2. requests \in Bucket /\ tokens \in Bucket /\ now \in Nat /\ Skew \in Nat
      /\ requests.last <= now + Skew /\ tokens.last <= now + Skew
      /\ 0 <= requests.parts /\ requests.parts <= Rates!Full
  BY BucketsTyped
<1>3. now + 2 * Rates!Period \in Nat
  BY <1>1, <1>2
<1>4. ASSUME NEW c \in Clients, Rates!Admit(c) PROVE RateTyped'
  <2>1. PICK t \in Rates!Clocks : LET b == Rates!Refilled(requests, t) IN
            \/ /\ b.parts >= Grain
               /\ requests' = Rates!Written([b EXCEPT !.parts = @ - Grain])
               /\ call' = [call EXCEPT ![c] = "admitted"]
               /\ mark' = [mark EXCEPT !.admitted = IF mark.at < 0 THEN 0 ELSE @ + 1]
            \/ /\ b.parts < Grain
               /\ requests' = Rates!Written(b)
               /\ UNCHANGED <<call, mark>>
    BY <1>4 DEF Rates!Admit
  <2> DEFINE b == Rates!Refilled(requests, t)
  <2>2. b \in Bucket /\ b.parts <= Rates!Full /\ 0 <= b.parts /\ b.last <= now + Skew
    BY <1>2, RefillBounds
  <2> HIDE DEF b
  <2>3. UNCHANGED <<now, tokens, charged>>
    BY <1>4 DEF Rates!Admit
  <2>4. CASE /\ b.parts >= Grain
             /\ requests' = Rates!Written([b EXCEPT !.parts = @ - Grain])
             /\ call' = [call EXCEPT ![c] = "admitted"]
             /\ mark' = [mark EXCEPT !.admitted = IF mark.at < 0 THEN 0 ELSE @ + 1]
    <3>1. b.parts - Grain \in 0 .. Rates!Full
      BY <1>1, <2>2, <2>4 DEF Bucket
    <3>2. requests' = [parts |-> b.parts - Grain, last |-> b.last, expires |-> now + 2 * Rates!Period]
      BY <2>2, <2>4 DEF Rates!Written, Bucket
    <3>3. requests' \in [parts : 0 .. Rates!Full, last : Nat, expires : Nat]
      BY <1>3, <2>2, <3>1, <3>2 DEF Bucket
    <3>4. requests'.last <= now + Skew
      BY <2>2, <3>2
    <3>5. mark' \in [at : Nat \cup {-1}, admitted : Nat]
      BY <2>4 DEF Rates!TypeOK
    <3>6. QED
      BY <2>3, <2>4, <3>3, <3>4, <3>5 DEF Rates!TypeOK, Rates!Punctual
  <2>5. CASE b.parts < Grain /\ requests' = Rates!Written(b) /\ UNCHANGED <<call, mark>>
    <3>1. requests' = [parts |-> b.parts, last |-> b.last, expires |-> now + 2 * Rates!Period]
      BY <2>2, <2>5 DEF Rates!Written, Bucket
    <3>2. requests' \in [parts : 0 .. Rates!Full, last : Nat, expires : Nat]
      BY <1>1, <1>3, <2>2, <3>1 DEF Bucket
    <3>3. requests'.last <= now + Skew
      BY <2>2, <3>1
    <3>4. QED
      BY <2>3, <2>5, <3>2, <3>3 DEF Rates!TypeOK, Rates!Punctual
  <2>6. QED
    BY <2>1, <2>4, <2>5 DEF b
<1>5. ASSUME NEW c \in Clients, Rates!Peek(c) \/ Rates!EndUncharged(c) PROVE RateTyped'
  BY <1>5 DEF Rates!Peek, Rates!EndUncharged, Rates!TypeOK, Rates!Punctual
<1>6. ASSUME NEW c \in Clients, NEW cost \in 1 .. MaxCost, Rates!Deduct(c, cost) PROVE RateTyped'
  <2>1. PICK t \in Rates!Clocks :
            tokens' = Rates!Written([Rates!Refilled(tokens, t) EXCEPT !.parts = @ - cost * Grain])
    BY <1>6 DEF Rates!Deduct
  <2> DEFINE b == Rates!Refilled(tokens, t)
  <2>2. b \in Bucket /\ b.last <= now + Skew
    BY <1>2, RefillBounds
  <2> HIDE DEF b
  <2>3. cost \in Nat /\ cost * Grain \in Nat
    BY <1>1 DEF RateParameters
  <2>4. tokens' = [parts |-> b.parts - cost * Grain, last |-> b.last,
                   expires |-> now + 2 * Rates!Period]
    BY <2>1, <2>2 DEF Rates!Written, Bucket, b
  <2>5. b.parts - cost * Grain \in Int
    BY <2>2, <2>3 DEF Bucket
  <2>6. tokens' \in [parts : Int, last : Nat, expires : Nat]
    BY <1>3, <2>2, <2>4, <2>5 DEF Bucket
  <2>7. tokens'.last <= now + Skew
    BY <2>2, <2>4
  <2>8. UNCHANGED <<now, requests, mark>> /\ charged' = now
        /\ call' = [call EXCEPT ![c] = "idle"]
    BY <1>6 DEF Rates!Deduct
  <2>9. QED
    BY <1>2, <2>6, <2>7, <2>8 DEF Rates!TypeOK, Rates!Punctual
<1>7. CASE Rates!Tick
  BY <1>2, <1>7 DEF Rates!Tick, Rates!TypeOK, Rates!Punctual
<1>8. CASE Rates!Mark
  BY <1>8 DEF Rates!Mark, Rates!TypeOK, Rates!Punctual
<1>9. CASE UNCHANGED Rates!vars
  BY <1>9 DEF Rates!vars, Rates!TypeOK, Rates!Punctual
<1>10. QED
  BY <1>4, <1>5, <1>6, <1>7, <1>8, <1>9 DEF Rates!Next

\* What a taken part does to the meter: the arithmetic of Metered, with the
\* product of the requests admitted and Grain as one number.
LEMMA TakenIsMetered ==
    ASSUME NEW n \in Nat, NEW g \in Nat
    PROVE  (n + 1) * g = n * g + g /\ n * g \in Nat
<1>1. n * g \in Nat
  OBVIOUS
<1>2. QED
  BY <1>1

LEMMA MeteredStep ==
    RateParameters /\ RateTyped /\ Rates!Metered /\ [Rates!Next]_Rates!vars => Rates!Metered'
<1> SUFFICES ASSUME RateParameters, RateTyped, Rates!Metered, [Rates!Next]_Rates!vars
             PROVE Rates!Metered'
  OBVIOUS
<1>1. Rates!Full \in Nat /\ Grain \in Nat /\ 1 <= Grain /\ Grain <= Rates!Full /\ Rates!Period = Rates!Full
      /\ Skew \in Nat /\ Skew <= Rates!Full
  BY FullTyped DEF RateParameters
<1>2. requests \in Bucket /\ tokens \in Bucket /\ now \in Nat
      /\ requests.last <= now + Skew
      /\ 0 <= requests.parts /\ requests.parts <= Rates!Full
  BY BucketsTyped
<1>3. mark \in [at : Nat \cup {-1}, admitted : Nat]
  BY DEF RateTyped, Rates!TypeOK
<1>4. mark.admitted \in Nat /\ mark.at \in Int /\ mark.admitted * Grain \in Nat
      /\ (mark.admitted + 1) * Grain = mark.admitted * Grain + Grain
  BY <1>1, <1>3, TakenIsMetered
<1>5. ASSUME NEW c \in Clients, Rates!Admit(c) PROVE Rates!Metered'
  <2>1. PICK t \in Rates!Clocks : LET b == Rates!Refilled(requests, t) IN
            \/ /\ b.parts >= Grain
               /\ requests' = Rates!Written([b EXCEPT !.parts = @ - Grain])
               /\ mark' = [mark EXCEPT !.admitted = IF mark.at < 0 THEN 0 ELSE @ + 1]
            \/ requests' = Rates!Written(b) /\ UNCHANGED mark
    BY <1>5 DEF Rates!Admit
  <2> DEFINE b == Rates!Refilled(requests, t)
             Taken(n) == n * Grain
  <2>2. /\ b \in Bucket /\ b.parts <= Rates!Full /\ 0 <= b.parts /\ t \in Nat /\ now <= t
        /\ t <= b.last /\ b.last <= now + Skew
        /\ requests.expires > now => b.parts - b.last <= requests.parts - requests.last
        /\ requests.expires <= now => b.parts = Rates!Full /\ b.last = t
    BY <1>2, RefillBounds
  <2> HIDE DEF b, Taken
  <2>3. now' = now
    BY <1>5 DEF Rates!Admit
  <2>4. /\ mark.at <= now /\ (mark.at < 0 => mark.admitted = 0)
        /\ mark.admitted > 0 =>
              /\ Taken(mark.admitted) + requests.parts + mark.at <= Rates!Full + requests.last
              /\ requests.last + 2 * Rates!Full <= requests.expires + Skew
    BY <1>1 DEF Rates!Metered, Taken
  <2>5. /\ Taken(mark.admitted) \in Nat /\ Taken(0) = 0
        /\ Taken(mark.admitted + 1) = Taken(mark.admitted) + Grain
    BY <1>1, <1>4 DEF Taken
  \* while the key is there and after it has expired alike
  <2>6. mark.admitted > 0 => Taken(mark.admitted) + b.parts + mark.at <= Rates!Full + b.last
    <3>1. CASE requests.expires > now
      BY <1>1, <1>2, <1>4, <2>2, <2>4, <2>5, <3>1 DEF Bucket
    <3>2. CASE requests.expires <= now
      BY <1>1, <1>2, <1>4, <2>2, <2>4, <2>5, <3>2 DEF Bucket
    <3>3. QED
      BY <1>2, <3>1, <3>2 DEF Bucket
  <2>7. CASE /\ b.parts >= Grain
             /\ requests' = Rates!Written([b EXCEPT !.parts = @ - Grain])
             /\ mark' = [mark EXCEPT !.admitted = IF mark.at < 0 THEN 0 ELSE @ + 1]
    <3>1. requests' = [parts |-> b.parts - Grain, last |-> b.last, expires |-> now + 2 * Rates!Full]
      BY <1>1, <2>2, <2>7 DEF Rates!Written, Bucket
    <3>2. mark'.at = mark.at /\ mark'.admitted = IF mark.at < 0 THEN 0 ELSE mark.admitted + 1
      BY <1>3, <2>7
    <3>3. requests'.last + 2 * Rates!Full <= requests'.expires + Skew
      BY <1>1, <1>2, <2>2, <3>1 DEF Bucket
    <3>4. ASSUME mark.at >= 0
          PROVE  Taken(mark.admitted + 1) + (b.parts - Grain) + mark.at <= Rates!Full + b.last
      <4>1. CASE mark.admitted > 0
        BY <1>1, <1>4, <2>2, <2>5, <2>6, <4>1 DEF Bucket
      <4>2. CASE mark.admitted = 0
        BY <1>1, <1>2, <1>4, <2>2, <2>4, <2>5, <4>2 DEF Bucket
      <4>3. QED
        BY <1>4, <4>1, <4>2
    <3>5. mark'.admitted > 0 =>
             Taken(mark'.admitted) + requests'.parts + mark'.at <= Rates!Full + requests'.last
      <4>1. CASE mark.at < 0
        BY <3>2, <4>1
      <4>2. CASE mark.at >= 0
        BY <1>4, <3>1, <3>2, <3>4, <4>2
      <4>3. QED
        BY <1>4, <4>1, <4>2
    <3>6. mark'.at <= now' /\ (mark'.at < 0 => mark'.admitted = 0)
      BY <2>3, <2>4, <3>2
    <3>7. QED
      BY <1>1, <3>3, <3>5, <3>6 DEF Rates!Metered, Taken, Rates!Period, Rates!Full
  <2>8. CASE requests' = Rates!Written(b) /\ UNCHANGED mark
    <3>1. requests' = [parts |-> b.parts, last |-> b.last, expires |-> now + 2 * Rates!Full]
      BY <1>1, <2>2, <2>8 DEF Rates!Written, Bucket
    <3>2. requests'.last + 2 * Rates!Full <= requests'.expires + Skew
      BY <1>1, <1>2, <2>2, <3>1 DEF Bucket
    <3>3. mark.admitted > 0 =>
             Taken(mark.admitted) + requests'.parts + mark.at <= Rates!Full + requests'.last
      BY <2>6, <3>1
    <3>4. QED
      BY <1>1, <2>3, <2>4, <2>8, <3>2, <3>3 DEF Rates!Metered, Taken, Rates!Period, Rates!Full
  <2>9. QED
    BY <2>1, <2>7, <2>8 DEF b
<1>6. ASSUME NEW c \in Clients, Rates!Peek(c) \/ Rates!EndUncharged(c) PROVE Rates!Metered'
  BY <1>6 DEF Rates!Peek, Rates!EndUncharged, Rates!Metered, Rates!Period, Rates!Full
<1>7. ASSUME NEW c \in Clients, NEW cost \in 1 .. MaxCost, Rates!Deduct(c, cost)
      PROVE Rates!Metered'
  BY <1>7 DEF Rates!Deduct, Rates!Metered, Rates!Period, Rates!Full
<1>8. CASE Rates!Tick
  BY <1>2, <1>4, <1>8 DEF Rates!Tick, Rates!Metered, Rates!Period, Rates!Full
<1>9. CASE Rates!Mark
  BY <1>2, <1>9 DEF Rates!Mark, Rates!Metered
<1>10. CASE UNCHANGED Rates!vars
  BY <1>10 DEF Rates!vars, Rates!Metered, Rates!Period, Rates!Full
<1>11. QED
  BY <1>5, <1>6, <1>7, <1>8, <1>9, <1>10 DEF Rates!Next

LEMMA RateInit == RateParameters /\ Rates!Init => RateTyped /\ Rates!Metered /\ Rates!LastCharged
<1> SUFFICES ASSUME RateParameters, Rates!Init
             PROVE RateTyped /\ Rates!Metered /\ Rates!LastCharged
  OBVIOUS
<1>1. Rates!Full \in Nat /\ Skew \in Nat
  BY FullTyped DEF RateParameters
<1>2. Rates!Missing \in [parts : 0 .. Rates!Full, last : Nat, expires : Nat] /\ Rates!Missing.last = 0
      /\ Rates!Missing \in [parts : Int, last : Nat, expires : Nat]
  BY <1>1 DEF Rates!Missing
<1>3. Rates!TypeOK
  BY <1>2 DEF Rates!Init, Rates!TypeOK
<1>4. Rates!Punctual
  BY <1>1, <1>2 DEF Rates!Init, Rates!Punctual
<1>5. Rates!Metered
  BY DEF Rates!Init, Rates!Metered
<1>6. Rates!LastCharged
  BY DEF Rates!Init, Rates!LastCharged
<1>7. QED
  BY <1>3, <1>4, <1>5, <1>6 DEF RateTyped

\* However many instances ask, whatever their clocks say within the skew, and
\* whether or not the key has expired in between: in no window is a client
\* admitted more than a full bucket and the refill (tokenBucketLua, rate.go).
THEOREM WindowsBounded ==
    ASSUME RateParameters PROVE Rates!Spec => []WindowBounded
<1> DEFINE Inv == RateTyped /\ Rates!Metered
<1>1. Rates!Init => Inv
  BY RateInit
<1>2. Inv /\ [Rates!Next]_Rates!vars => Inv'
  BY RateTypedStep, MeteredStep
<1>3. Inv => Rates!WindowBounded
  <2> SUFFICES ASSUME Inv, mark.at >= 0
               PROVE  mark.admitted * Grain <= Rates!Full + (now - mark.at) + Skew
    BY DEF Rates!WindowBounded
  <2>1. requests \in Bucket /\ now \in Nat /\ requests.last <= now + Skew
        /\ 0 <= requests.parts
    BY BucketsTyped
  <2>2. Rates!Full \in Nat /\ Grain \in Nat /\ Skew \in Nat
    BY FullTyped DEF RateParameters
  <2>3. mark.admitted \in Nat /\ mark.at \in Int /\ mark.admitted * Grain \in Nat
    BY <2>2 DEF RateTyped, Rates!TypeOK
  <2>4. CASE mark.admitted = 0
    <3>1. mark.admitted * Grain = 0 /\ mark.at <= now
      BY <2>2, <2>4 DEF Rates!Metered
    <3>2. QED
      BY <2>1, <2>2, <2>3, <3>1
  <2>5. CASE mark.admitted > 0
    <3>1. mark.admitted * Grain + requests.parts + mark.at <= Rates!Full + requests.last
      BY <2>5 DEF Rates!Metered
    <3>2. QED
      BY <2>1, <2>2, <2>3, <3>1 DEF Bucket
  <2>6. QED
    BY <2>3, <2>4, <2>5
<1>4. QED
  BY <1>1, <1>2, <1>3, PTL DEF Rates!Spec, WindowBounded

\* The most a script can find in a bucket at a time n of Redis.
Most(b, n) == IF b.expires <= n THEN Rates!Full ELSE Rates!Lower(Rates!Full, b.parts + (n + Skew - b.last))

LEMMA MostIsFound ==
    ASSUME RateParameters, RateTyped
    PROVE  Rates!Refilled(tokens, now + Skew).parts = Most(tokens, now)
<1>1. tokens \in Bucket /\ now \in Nat /\ Skew \in Nat /\ tokens.last <= now + Skew
  BY BucketsTyped
<1>2. now + Skew \in Nat /\ Rates!Full \in Nat
  BY <1>1, FullTyped
<1>3. CASE tokens.expires <= now
  <2>1. Rates!Refilled(tokens, now + Skew) = [parts |-> Rates!Full, last |-> now + Skew, expires |-> 0]
    BY <1>1, <1>2, <1>3, WhatIsFound
  <2>2. QED
    BY <1>3, <2>1 DEF Most
<1>4. CASE tokens.expires > now /\ now + Skew = tokens.last
  <2>1. Rates!Refilled(tokens, now + Skew).parts = Rates!Lower(Rates!Full, tokens.parts)
    <3>1. Rates!Refilled(tokens, now + Skew) = [tokens EXCEPT !.parts = Rates!Lower(Rates!Full, tokens.parts)]
      BY <1>1, <1>2, <1>4, WhatIsFound
    <3>2. QED
      BY <1>1, <3>1 DEF Bucket
  <2>2. tokens.parts + (now + Skew - tokens.last) = tokens.parts
        /\ ~(tokens.expires <= now)
    BY <1>1, <1>4 DEF Bucket
  <2>3. QED
    BY <2>1, <2>2 DEF Most
<1>5. CASE tokens.expires > now /\ now + Skew > tokens.last
  <2> DEFINE t == now + Skew
  <2>0. t \in Nat /\ t > tokens.last
    BY <1>2, <1>5
  <2> HIDE DEF t
  <2>1. Rates!Refilled(tokens, t)
          = [tokens EXCEPT !.parts = Rates!Lower(Rates!Full, tokens.parts + (t - tokens.last)), !.last = t]
    BY <1>1, <1>5, <2>0, WhatIsFound
  <2>2. ~(tokens.expires <= now)
    BY <1>1, <1>5 DEF Bucket
  <2>3. Rates!Refilled(tokens, t).parts = Rates!Lower(Rates!Full, tokens.parts + (t - tokens.last))
    BY <1>1, <2>1 DEF Bucket
  <2>4. Most(tokens, now) = Rates!Lower(Rates!Full, tokens.parts + (t - tokens.last))
    <3>1. tokens.parts + (now + Skew - tokens.last) = tokens.parts + (t - tokens.last)
      BY <1>1 DEF t, Bucket
    <3>2. QED
      BY <2>2, <3>1 DEF Most
  <2>5. Rates!Refilled(tokens, t).parts = Most(tokens, now)
    BY <2>3, <2>4
  <2>6. QED
    BY <2>5 DEF t
<1>6. QED
  BY <1>1, <1>2, <1>3, <1>4, <1>5 DEF Bucket

\* A script at any clock finds no more than the most, and taking k parts leaves
\* at most k fewer to be found.
LEMMA TakingFromMost ==
    ASSUME RateParameters, RateTyped, NEW t \in Rates!Clocks
    PROVE  LET f == Rates!Refilled(tokens, t)
           IN  /\ f.parts <= Most(tokens, now)
               /\ \A k \in Nat, b \in Bucket :
                     /\ b.parts = f.parts - k /\ b.last = f.last
                     /\ b.expires = now + 2 * Rates!Period
                     => Most(b, now) >= Most(tokens, now) - k
<1> DEFINE f == Rates!Refilled(tokens, t)
<1>1. tokens \in Bucket /\ now \in Nat /\ Skew \in Nat /\ tokens.last <= now + Skew
  BY BucketsTyped
<1>2. t \in Nat /\ now <= t /\ t <= now + Skew /\ f \in Bucket /\ f.last <= now + Skew
  BY <1>1, RefillBounds
<1>3. Rates!Full \in Nat /\ Rates!Period = Rates!Full /\ Rates!Full >= 1
  BY FullTyped
<1>4. ASSUME NEW k \in Nat, NEW b \in Bucket, b.parts = f.parts - k, b.last = f.last,
             b.expires = now + 2 * Rates!Period
      PROVE  Most(b, now) = Rates!Lower(Rates!Full, f.parts - k + (now + Skew - f.last))
  <2>1. ~(b.expires <= now)
    BY <1>1, <1>3, <1>4
  <2>2. QED
    BY <1>4, <2>1 DEF Most
<1>5. /\ f.parts <= Most(tokens, now)
      /\ Most(tokens, now) \in Int
      /\ \A k \in Nat : Rates!Lower(Rates!Full, f.parts - k + (now + Skew - f.last)) >= Most(tokens, now) - k
  <2>1. CASE tokens.expires <= now
    <3>1. f = [parts |-> Rates!Full, last |-> t, expires |-> 0] /\ Most(tokens, now) = Rates!Full
      BY <1>1, <1>2, <2>1, WhatIsFound DEF Most
    <3>2. f.parts = Rates!Full /\ f.last = t
      BY <3>1
    <3>3. QED
      BY <1>1, <1>2, <1>3, <3>1, <3>2 DEF Rates!Lower
  <2>2. CASE tokens.expires > now /\ t <= tokens.last
    <3>1. f = [tokens EXCEPT !.parts = Rates!Lower(Rates!Full, tokens.parts)]
      BY <1>1, <1>2, <2>2, WhatIsFound
    <3>2. f.parts = Rates!Lower(Rates!Full, tokens.parts) /\ f.last = tokens.last
      BY <1>1, <3>1 DEF Bucket
    <3>3. Most(tokens, now) = Rates!Lower(Rates!Full, tokens.parts + (now + Skew - tokens.last))
      BY <1>1, <2>2 DEF Most, Bucket
    <3>4. tokens.parts \in Int /\ tokens.last \in Nat
      BY <1>1 DEF Bucket
    <3>5. QED
      BY <1>1, <1>2, <1>3, <3>2, <3>3, <3>4 DEF Rates!Lower
  <2>3. CASE tokens.expires > now /\ t > tokens.last
    <3>1. f = [tokens EXCEPT !.parts = Rates!Lower(Rates!Full, tokens.parts + (t - tokens.last)), !.last = t]
      BY <1>1, <1>2, <2>3, WhatIsFound
    <3>2. f.parts = Rates!Lower(Rates!Full, tokens.parts + (t - tokens.last)) /\ f.last = t
      BY <1>1, <3>1 DEF Bucket
    <3>3. Most(tokens, now) = Rates!Lower(Rates!Full, tokens.parts + (now + Skew - tokens.last))
      BY <1>1, <2>3 DEF Most, Bucket
    <3>4. tokens.parts \in Int /\ tokens.last \in Nat
      BY <1>1 DEF Bucket
    <3>5. QED
      BY <1>1, <1>2, <1>3, <3>2, <3>3, <3>4 DEF Rates!Lower
  <2>4. QED
    BY <1>1, <1>2, <2>1, <2>2, <2>3 DEF Bucket
<1>6. QED
  BY <1>4, <1>5

\* Cardinality of the modules and of the instance are one operator.
LEMMA SameSize == \A s : Rates!Cardinality(s) = Cardinality(s)
BY DEF Rates!Cardinality, Cardinality

\* The calls under way, one more or one less.
LEMMA RunningCounted ==
    ASSUME RateParameters, Rates!TypeOK
    PROVE  /\ Cardinality(Clients) \in Nat /\ Cardinality(Rates!Running) \in Nat
           /\ Cardinality(Rates!Running) <= Cardinality(Clients)
           /\ \A c \in Clients \ Rates!Running :
                 /\ Cardinality(Rates!Running \cup {c}) = Cardinality(Rates!Running) + 1
                 /\ Cardinality(Rates!Running) + 1 <= Cardinality(Clients)
           /\ \A c \in Rates!Running : Cardinality(Rates!Running \ {c}) = Cardinality(Rates!Running) - 1
<1>1. IsFiniteSet(Clients) /\ Rates!Running \in SUBSET Clients
  BY DEF RateParameters, Rates!Running
<1>2. IsFiniteSet(Rates!Running) /\ Cardinality(Rates!Running) <= Cardinality(Clients)
      /\ Cardinality(Clients) \in Nat /\ Cardinality(Rates!Running) \in Nat
  BY <1>1, FS_Subset, FS_CardinalityType
<1>3. ASSUME NEW c \in Clients \ Rates!Running
      PROVE  /\ Cardinality(Rates!Running \cup {c}) = Cardinality(Rates!Running) + 1
             /\ Cardinality(Rates!Running) + 1 <= Cardinality(Clients)
  <2>1. Cardinality(Rates!Running \cup {c}) = Cardinality(Rates!Running) + 1
    BY <1>2, FS_AddElement
  <2>2. Rates!Running \cup {c} \in SUBSET Clients
    BY <1>1
  <2>3. Cardinality(Rates!Running \cup {c}) <= Cardinality(Clients)
    BY <1>1, <2>2, FS_Subset
  <2>4. QED
    BY <2>1, <2>3
<1>4. ASSUME NEW c \in Rates!Running
      PROVE  Cardinality(Rates!Running \ {c}) = Cardinality(Rates!Running) - 1
  BY <1>2, FS_RemoveElement
<1>5. QED
  BY <1>2, <1>3, <1>4

\* The overdraft of DebtBounded, of the most a script can find.
Overdraft ==
    Most(tokens, now) >= Grain - Grain * MaxCost * (Cardinality(Clients) - Cardinality(Rates!Running))

\* One call fewer or more to come lowers or raises the bound by its cost at most.
LEMMA OverdraftMoves ==
    ASSUME RateParameters, Rates!TypeOK
    PROVE  LET left == Cardinality(Clients) - Cardinality(Rates!Running)
           IN  /\ left \in Nat /\ Grain * MaxCost \in Nat /\ Grain * MaxCost * left \in Nat
               /\ Grain * MaxCost * (left + 1) = Grain * MaxCost * left + Grain * MaxCost
               /\ left > 0 => Grain * MaxCost * (left - 1) \in Nat
               /\ \A cost \in 1 .. MaxCost : cost * Grain \in Nat /\ cost * Grain <= Grain * MaxCost
<1> DEFINE left == Cardinality(Clients) - Cardinality(Rates!Running)
           most == Grain * MaxCost
<1>1. left \in Nat
  BY RunningCounted
<1>2. Grain \in Nat /\ MaxCost \in Nat /\ most \in Nat
  BY DEF RateParameters
<1>3. ASSUME NEW cost \in 1 .. MaxCost PROVE cost * Grain \in Nat /\ cost * Grain <= most
  <2>1. cost \in Nat /\ MaxCost - cost \in Nat
    BY <1>2
  <2>2. (MaxCost - cost) * Grain \in Nat /\ cost * Grain \in Nat
    BY <1>2, <2>1
  <2>3. Grain * MaxCost = (MaxCost - cost) * Grain + cost * Grain
    BY <1>2, <2>1
  <2>4. QED
    BY <2>2, <2>3
<1>4. most * left \in Nat /\ most * (left + 1) = most * left + most
  <2> HIDE DEF most, left
  <2>1. QED
    BY <1>1, <1>2
<1>5. left > 0 => most * (left - 1) \in Nat
  <2> HIDE DEF most, left
  <2>1. QED
    BY <1>1, <1>2
<1>6. QED
  BY <1>1, <1>2, <1>3, <1>4, <1>5

LEMMA OverdraftStep ==
    RateParameters /\ RateTyped /\ Overdraft /\ [Rates!Next]_Rates!vars => Overdraft'
<1> SUFFICES ASSUME RateParameters, RateTyped, Overdraft, [Rates!Next]_Rates!vars PROVE Overdraft'
  OBVIOUS
<1> DEFINE size == Cardinality(Clients)
           busy == Cardinality(Rates!Running)
           each == Grain * MaxCost
           most == Most(tokens, now)
<1>1. Rates!Full \in Nat /\ Grain \in Nat /\ 1 <= Grain /\ Grain <= Rates!Full /\ Rates!Period = Rates!Full
      /\ Skew \in Nat /\ Rates!TypeOK
  BY FullTyped DEF RateParameters, RateTyped
<1>2. tokens \in Bucket /\ now \in Nat /\ tokens.last <= now + Skew
  BY BucketsTyped
<1>3. size \in Nat /\ busy \in Nat /\ busy <= size /\ each \in Nat
      /\ each * (size - busy) \in Nat
  BY <1>1, RunningCounted, OverdraftMoves
<1>4. most \in Int /\ most >= Grain - each * (size - busy)
  <2>1. most \in Int
    BY <1>1, <1>2 DEF Most, Rates!Lower, Bucket
  <2>2. QED
    BY <2>1 DEF Overdraft
<1>5. ASSUME Most(tokens', now') >= most, Rates!Running' \subseteq Rates!Running PROVE Overdraft'
  <2>1. IsFiniteSet(Rates!Running)
    <3>1. IsFiniteSet(Clients) /\ Rates!Running \in SUBSET Clients
      BY DEF RateParameters, Rates!Running
    <3>2. QED
      BY <3>1, FS_Subset
  <2>2. IsFiniteSet(Rates!Running') /\ Cardinality(Rates!Running') <= busy
    BY <1>5, <2>1, FS_Subset
  <2>3. Cardinality(Rates!Running') \in Nat
    BY <2>2, FS_CardinalityType
  <2>4. each * (size - Cardinality(Rates!Running')) >= each * (size - busy)
    <3> DEFINE rest == busy - Cardinality(Rates!Running')
               open == size - busy
    <3>1. rest \in Nat /\ open \in Nat /\ size - Cardinality(Rates!Running') = open + rest
      BY <1>3, <2>2, <2>3
    <3> HIDE DEF rest, open, each
    <3>2. each * (open + rest) = each * open + each * rest /\ each * rest \in Nat
          /\ each * open \in Nat
      BY <1>3, <3>1
    <3>3. QED
      BY <3>1, <3>2 DEF open
  <2>5. each * (size - Cardinality(Rates!Running')) \in Nat /\ Most(tokens', now') \in Int
    <3>1. size - Cardinality(Rates!Running') \in Nat
      BY <1>3, <2>2, <2>3
    <3>2. each * (size - Cardinality(Rates!Running')) \in Nat
      <4> HIDE DEF each, size
      <4>1. QED
        BY <1>3, <3>1
    <3>3. RateTyped'
      BY RateTypedStep
    <3>4. tokens' \in Bucket /\ now' \in Nat
      BY <3>3 DEF RateTyped, Rates!TypeOK, Bucket
    <3>5. Most(tokens', now') \in Int
      BY <1>1, <3>4 DEF Most, Rates!Lower, Bucket
    <3>6. QED
      BY <3>2, <3>5
  <2> HIDE DEF each, size, busy, most
  <2>6. Most(tokens', now') >= Grain - each * (size - Cardinality(Rates!Running'))
    BY <1>1, <1>3, <1>4, <1>5, <2>4, <2>5
  <2>7. QED
    BY <2>6 DEF Overdraft, each, size
<1>6. ASSUME NEW c \in Clients, Rates!Admit(c) PROVE Overdraft'
  <2>1. tokens' = tokens /\ now' = now /\ Rates!Running' \subseteq Rates!Running
    BY <1>6 DEF Rates!Admit, Rates!Running, RateTyped, Rates!TypeOK
  <2>2. QED
    BY <1>4, <1>5, <2>1
<1>7. ASSUME NEW c \in Clients, Rates!EndUncharged(c) PROVE Overdraft'
  <2>1. tokens' = tokens /\ now' = now /\ Rates!Running' \subseteq Rates!Running
    BY <1>7 DEF Rates!EndUncharged, Rates!Running, RateTyped, Rates!TypeOK
  <2>2. QED
    BY <1>4, <1>5, <2>1
\* Who gets in found a whole token.
<1>8. ASSUME NEW c \in Clients, Rates!Peek(c) PROVE Overdraft'
  <2>1. PICK t \in Rates!Clocks :
            call' = [call EXCEPT ![c] =
                IF Rates!Refilled(tokens, t).parts \div Grain > 0 THEN "running" ELSE "idle"]
    BY <1>8 DEF Rates!Peek
  <2>2. tokens' = tokens /\ now' = now /\ call[c] = "admitted"
    BY <1>8 DEF Rates!Peek
  <2>3. CASE Rates!Refilled(tokens, t).parts \div Grain > 0
    <3> DEFINE found == Rates!Refilled(tokens, t).parts
    <3>1. found <= most /\ found \in Int
      BY <1>2, TakingFromMost, RefillBounds DEF Bucket
    <3> HIDE DEF found
    <3>2. found >= Grain
      BY <1>1, <2>3, <3>1 DEF found
    <3>3. Rates!Running' = Rates!Running \cup {c} /\ c \in Clients \ Rates!Running
      BY <2>1, <2>2, <2>3 DEF Rates!Running, RateTyped, Rates!TypeOK
    <3>4. Cardinality(Rates!Running') = busy + 1 /\ busy + 1 <= size
      BY <1>1, <3>3, RunningCounted
    <3>5. each * (size - (busy + 1)) \in Nat
      <4>1. size - (busy + 1) \in Nat
        BY <1>3, <3>4
      <4> HIDE DEF each, size, busy
      <4>2. QED
        BY <1>3, <4>1
    <3>6. most >= Grain - each * (size - (busy + 1))
      <4> HIDE DEF most, each, size, busy
      <4>1. QED
        BY <1>1, <1>4, <3>1, <3>2, <3>5
    <3>7. QED
      BY <2>2, <3>4, <3>6 DEF Overdraft
  <2>4. CASE ~(Rates!Refilled(tokens, t).parts \div Grain > 0)
    <3>1. Rates!Running' \subseteq Rates!Running
      BY <2>1, <2>4 DEF Rates!Running, RateTyped, Rates!TypeOK
    <3>2. QED
      BY <1>4, <1>5, <2>2, <3>1
  <2>5. QED
    BY <2>3, <2>4
\* A call is charged once, and gone.
<1>9. ASSUME NEW c \in Clients, NEW cost \in 1 .. MaxCost, Rates!Deduct(c, cost) PROVE Overdraft'
  <2>1. PICK t \in Rates!Clocks :
            tokens' = Rates!Written([Rates!Refilled(tokens, t) EXCEPT !.parts = @ - cost * Grain])
    BY <1>9 DEF Rates!Deduct
  <2>2. now' = now /\ call[c] = "running" /\ call' = [call EXCEPT ![c] = "idle"]
    BY <1>9 DEF Rates!Deduct
  <2> DEFINE f == Rates!Refilled(tokens, t)
             k == cost * Grain
  <2>3. f \in Bucket
    BY <1>2, RefillBounds
  <2>4. k \in Nat /\ k <= each
    BY <1>1, OverdraftMoves
  <2>5. tokens' = [parts |-> f.parts - k, last |-> f.last, expires |-> now + 2 * Rates!Period]
    <3> HIDE DEF f, k
    <3>1. QED
      BY <2>1, <2>3 DEF Rates!Written, Bucket, f, k
  <2>6. tokens' \in Bucket
    BY RateTypedStep DEF RateTyped, Rates!TypeOK, Bucket
  <2>7. Most(tokens', now) >= most - k
    <3>1. tokens'.parts = f.parts - k /\ tokens'.last = f.last
          /\ tokens'.expires = now + 2 * Rates!Period
      BY <2>5
    <3> HIDE DEF most, k
    <3>2. QED
      BY <2>4, <2>6, <3>1, TakingFromMost DEF most
  <2>8. Rates!Running' = Rates!Running \ {c} /\ c \in Rates!Running
    BY <2>2 DEF Rates!Running, RateTyped, Rates!TypeOK
  <2>9. Cardinality(Rates!Running') = busy - 1
    BY <1>1, <2>8, RunningCounted
  <2>10. each * (size - (busy - 1)) = each * (size - busy) + each
    <3>1. size - (busy - 1) = (size - busy) + 1 /\ size - busy \in Nat
      BY <1>3
    <3> DEFINE open == size - busy
    <3> HIDE DEF each, open
    <3>2. each * (open + 1) = each * open + each
      BY <1>3, <3>1 DEF open
    <3>3. QED
      BY <3>1, <3>2 DEF open
  <2>11. Most(tokens', now) \in Int
    BY <1>1, <1>2, <2>6 DEF Most, Rates!Lower, Bucket
  <2>12. Most(tokens', now) >= Grain - each * (size - (busy - 1))
    <3> DEFINE before == each * (size - busy)
               after == each * (size - (busy - 1))
    <3>1. before \in Nat /\ after = before + each
      BY <1>3, <2>10
    <3>2. most >= Grain - before
      BY <1>4
    <3> HIDE DEF most, each, k, before, after
    <3>3. Most(tokens', now) >= Grain - after
      BY <1>1, <1>3, <1>4, <2>4, <2>7, <2>11, <3>1, <3>2
    <3>4. QED
      BY <3>3 DEF after
  <2>13. QED
    BY <2>2, <2>9, <2>12 DEF Overdraft
<1>10. CASE Rates!Tick
  <2>1. tokens' = tokens /\ now' = now + 1 /\ call' = call
    BY <1>10 DEF Rates!Tick
  <2>2. Most(tokens, now + 1) >= most
    BY <1>1, <1>2 DEF Most, Rates!Lower, Bucket
  <2>3. QED
    BY <1>5, <2>1, <2>2 DEF Rates!Running
<1>11. CASE Rates!Mark
  BY <1>4, <1>5, <1>11 DEF Rates!Mark, Rates!Running
<1>12. CASE UNCHANGED Rates!vars
  BY <1>4, <1>5, <1>12 DEF Rates!vars, Rates!Running
<1>13. QED
  BY <1>6, <1>7, <1>8, <1>9, <1>10, <1>11, <1>12 DEF Rates!Next

LEMMA LastChargedStep ==
    RateParameters /\ RateTyped /\ Rates!LastCharged /\ [Rates!Next]_Rates!vars => Rates!LastCharged'
<1> SUFFICES ASSUME RateParameters, RateTyped, Rates!LastCharged, [Rates!Next]_Rates!vars
             PROVE Rates!LastCharged'
  OBVIOUS
<1>1. now \in Nat /\ charged \in Nat \cup {-1} /\ tokens \in Bucket
  BY BucketsTyped DEF RateTyped, Rates!TypeOK
<1>2. ASSUME NEW c \in Clients, NEW cost \in 1 .. MaxCost, Rates!Deduct(c, cost)
      PROVE Rates!LastCharged'
  <2>1. PICK t \in Rates!Clocks :
            tokens' = Rates!Written([Rates!Refilled(tokens, t) EXCEPT !.parts = @ - cost * Grain])
    BY <1>2 DEF Rates!Deduct
  <2>2. Rates!Refilled(tokens, t) \in Bucket
    BY <1>1, RefillBounds
  <2>3. tokens'.expires = now + 2 * Rates!Period
    BY <2>1, <2>2 DEF Rates!Written, Bucket
  <2>4. charged' = now /\ now >= 0
    BY <1>1, <1>2 DEF Rates!Deduct
  <2>5. QED
    BY <1>1, <2>3, <2>4 DEF Rates!LastCharged, Rates!Period, Rates!Full
<1>3. ASSUME UNCHANGED <<tokens, charged>> PROVE Rates!LastCharged'
  BY <1>3 DEF Rates!LastCharged, Rates!Missing, Rates!Period, Rates!Full
<1>4. QED
  BY <1>2, <1>3 DEF Rates!Next, Rates!Admit, Rates!Peek, Rates!EndUncharged, Rates!Tick,
      Rates!Mark, Rates!vars

\* The calls of a client overdraw its tokens by what the calls under way use,
\* once each, although each looks before and is charged after; and a debt is
\* over two periods after the last charge (tokenBucketPeekLua and
\* tokenBucketDeductLua, token_rate.go).
THEOREM DebtsBounded ==
    ASSUME RateParameters PROVE Rates!Spec => []DebtBounded
<1> DEFINE Inv == RateTyped /\ Rates!LastCharged /\ Overdraft
<1>1. Rates!Init => Inv
  <2> SUFFICES ASSUME Rates!Init PROVE Inv
    OBVIOUS
  <2>1. RateTyped /\ Rates!LastCharged
    BY RateInit
  <2>2. Most(tokens, now) = Rates!Full
    <3>1. tokens.expires = 0 /\ now = 0
      BY DEF Rates!Init, Rates!Missing
    <3>2. QED
      BY <3>1 DEF Most
  <2>3. LET left == Cardinality(Clients) - Cardinality(Rates!Running)
        IN  Grain * MaxCost * left \in Nat
    BY <2>1, OverdraftMoves DEF RateTyped
  <2>4. Rates!Full \in Nat /\ Grain \in Nat /\ Grain <= Rates!Full
    BY FullTyped
  <2> DEFINE bound == Grain * MaxCost * (Cardinality(Clients) - Cardinality(Rates!Running))
  <2>5. bound \in Nat
    BY <2>3
  <2>6. Most(tokens, now) >= Grain - bound
    <3> HIDE DEF bound
    <3>1. QED
      BY <2>2, <2>4, <2>5
  <2>7. QED
    BY <2>1, <2>6 DEF Overdraft
<1>2. Inv /\ [Rates!Next]_Rates!vars => Inv'
  BY RateTypedStep, LastChargedStep, OverdraftStep
<1>3. Inv => Rates!DebtBounded
  <2> SUFFICES ASSUME Inv PROVE Rates!DebtBounded
    OBVIOUS
  <2>1. Rates!Refilled(tokens, now + Skew).parts
          >= Grain - Grain * MaxCost * (Cardinality(Clients) - Cardinality(Rates!Running))
    BY MostIsFound DEF Overdraft
  <2>2. ASSUME charged >= 0, now >= charged + 2 * Rates!Period, NEW t \in Rates!Clocks
        PROVE  Rates!Refilled(tokens, t).parts = Rates!Full
    <3>1. tokens.expires <= now
      BY <2>2 DEF Rates!LastCharged
    <3>2. tokens \in Bucket /\ now \in Nat
      BY BucketsTyped
    <3>3. QED
      BY <3>1, <3>2, RefillBounds
  <2>3. QED
    BY <2>1, <2>2, SameSize DEF Rates!DebtBounded
<1>4. QED
  BY <1>1, <1>2, <1>3, PTL DEF Rates!Spec, DebtBounded

-----------------------------------------------------------------------------
(* The candidates, for any rows and any requests of one conversation         *)

\* What is assumed of the rows: a finite table, of rows with an id of their own
\* kind and a priority.
RowParameters ==
    /\ IsFiniteSet(Rows)
    /\ \A m \in Rows : m.id \in Nat \ {Walks!NoRow} /\ m.priority \in Int

\* The candidates of a pool in any order of theirs.
LEMMA OrderedInTurn ==
    ASSUME RowParameters, NEW S \in SUBSET Rows, NEW s \in Walks!Ordered(S)
    PROVE  /\ s \in Seq(Rows) /\ Walks!InTurn(s) /\ (S # {} => s # <<>>)
           /\ \A i, j \in DOMAIN s : i # j => s[i] # s[j]
           /\ \A i, j \in DOMAIN s : i < j => s[i].priority <= s[j].priority
<1> DEFINE n == Cardinality(S)
<1>1. IsFiniteSet(S) /\ n \in Nat
  BY FS_Subset, FS_CardinalityType DEF RowParameters
<1>2. Walks!Cardinality(S) = n
  BY DEF Walks!Cardinality, Cardinality
<1>3. s \in [1 .. n -> S] /\ \A i, j \in 1 .. n : i # j => s[i] # s[j]
  BY <1>2 DEF Walks!Ordered, Walks!SetToSeqs
<1>4. s \in Seq(S) /\ DOMAIN s = 1 .. n
  BY <1>1, <1>3
<1>5. S # {} => s # <<>>
  <2>1. S # {} => n # 0
    BY <1>1, FS_EmptySet
  <2>2. QED
    BY <1>1, <1>4, <2>1
<1>6. \A i, j \in DOMAIN s : i < j => s[i].priority <= s[j].priority
  BY DEF Walks!Ordered
<1>7. QED
  BY <1>1, <1>3, <1>4, <1>5, <1>6 DEF Walks!InTurn

\* Moving the endpoint of the conversation to the front keeps the rest in order.
LEMMA PinnedInTurn ==
    ASSUME NEW s \in Seq(Rows), Walks!InTurn(s),
           \A i, j \in DOMAIN s : i # j => s[i] # s[j],
           \A i, j \in DOMAIN s : i < j => s[i].priority <= s[j].priority
    PROVE  Walks!Pinned(s) \in Seq(Rows) /\ Walks!InTurn(Walks!Pinned(s)) /\ (s # <<>> => Walks!Pinned(s) # <<>>)
<1> DEFINE at == {i \in DOMAIN s : s[i].id = affinity}
           i0 == CHOOSE i \in at : TRUE
           rest == Walks!RemoveAt(s, i0)
<1>1. CASE at \subseteq {1}
  BY <1>1 DEF Walks!Pinned
<1>2. CASE ~(at \subseteq {1})
  <2>1. i0 \in at
    BY <1>2
  <2>2. i0 \in 1 .. Len(s)
    BY <2>1
  <2> HIDE DEF i0
  <2>3. rest = SubSeq(s, 1, i0 - 1) \o SubSeq(s, i0 + 1, Len(s))
    BY DEF Walks!RemoveAt
  <2>4. rest \in Seq(Rows) /\ Len(rest) = Len(s) - 1
        /\ \A j \in 1 .. Len(s) - 1 : rest[j] = IF j < i0 THEN s[j] ELSE s[j + 1]
    <3> DEFINE front == SubSeq(s, 1, i0 - 1)
               back == SubSeq(s, i0 + 1, Len(s))
    <3>1. front \in Seq(Rows) /\ Len(front) = i0 - 1 /\ \A j \in 1 .. i0 - 1 : front[j] = s[j]
      BY <2>2
    <3>2. back \in Seq(Rows) /\ Len(back) = Len(s) - i0
          /\ \A j \in 1 .. Len(s) - i0 : back[j] = s[i0 + j]
      BY <2>2
    <3> HIDE DEF front, back
    <3>3. rest = front \o back
      BY <2>3 DEF front, back
    <3>4. rest \in Seq(Rows) /\ Len(rest) = Len(s) - 1
      BY <2>2, <3>1, <3>2, <3>3
    <3>5. ASSUME NEW j \in 1 .. Len(s) - 1
          PROVE  rest[j] = IF j < i0 THEN s[j] ELSE s[j + 1]
      <4> HIDE DEF rest
      <4>1. CASE j < i0
        BY <2>2, <3>1, <3>2, <3>3, <4>1
      <4>2. CASE j >= i0
        <5>1. j > Len(front) /\ j - Len(front) \in 1 .. Len(back) /\ j - Len(front) = j - i0 + 1
          BY <2>2, <3>1, <3>2, <4>2
        <5>2. rest[j] = back[j - Len(front)]
          BY <3>1, <3>2, <3>3, <5>1
        <5>3. back[j - i0 + 1] = s[i0 + (j - i0 + 1)] /\ i0 + (j - i0 + 1) = j + 1
          BY <2>2, <3>2, <4>2, <5>1
        <5>4. QED
          BY <2>2, <4>2, <5>1, <5>2, <5>3
      <4>3. QED
        BY <2>2, <4>1, <4>2
    <3>6. QED
      BY <3>4, <3>5
  <2> HIDE DEF rest
  <2>5. Walks!Pinned(s) = <<s[i0]>> \o rest
    BY <1>2 DEF Walks!Pinned, i0, rest
  <2> DEFINE p == Walks!Pinned(s)
  <2>6. p \in Seq(Rows) /\ Len(p) = Len(s) /\ p[1] = s[i0]
        /\ \A j \in 2 .. Len(s) : p[j] = rest[j - 1]
    BY <2>2, <2>4, <2>5
  <2>7. \A j \in 2 .. Len(s) : p[j] = IF j - 1 < i0 THEN s[j - 1] ELSE s[j]
    BY <2>4, <2>6
  <2> HIDE DEF p
  <2>8. ASSUME NEW i \in 1 .. Len(s), NEW j \in 1 .. Len(s), i < j
        PROVE  p[i] # p[j] /\ (i > 1 => p[i].priority <= p[j].priority)
    <3> DEFINE from(k) == IF k - 1 < i0 THEN k - 1 ELSE k
    <3>1. \A k \in 2 .. Len(s) : from(k) \in 1 .. Len(s) /\ from(k) # i0 /\ p[k] = s[from(k)]
      BY <2>2, <2>7
    <3>2. CASE i = 1
      <4>1. j \in 2 .. Len(s)
        BY <2>8, <3>2
      <4>2. p[j] = s[from(j)] /\ from(j) \in 1 .. Len(s) /\ from(j) # i0
        BY <3>1, <4>1
      <4> HIDE DEF from
      <4>3. s[from(j)] # s[i0]
        BY <2>2, <4>2
      <4>4. QED
        BY <2>6, <3>2, <4>2, <4>3
    <3>3. CASE i > 1
      <4>1. i \in 2 .. Len(s) /\ j \in 2 .. Len(s) /\ from(i) < from(j)
        BY <2>2, <2>8, <3>3
      <4>2. /\ p[i] = s[from(i)] /\ from(i) \in 1 .. Len(s)
            /\ p[j] = s[from(j)] /\ from(j) \in 1 .. Len(s)
        BY <3>1, <4>1
      <4> HIDE DEF from
      <4>3. s[from(i)] # s[from(j)] /\ s[from(i)].priority <= s[from(j)].priority
        BY <2>2, <4>1, <4>2
      <4>4. QED
        BY <4>2, <4>3
    <3>4. QED
      BY <3>2, <3>3
  <2>9. DOMAIN p = 1 .. Len(s)
    BY <2>6
  <2>10. QED
    BY <2>2, <2>6, <2>8, <2>9 DEF Walks!InTurn, p
<1>3. QED
  BY <1>1, <1>2

Walking(r) == Walks!Walked(r) /\ Walks!Judged(r) /\ Walks!Recorded(r)

Stage ==
    [pc : {"idle", "unresolved", "words", "refused", "captured", "try", "judge",
           "streaming", "failed", "answered", "broken", "dropped"},
     verdict : {"none", "pass", "aside", "refused", "captured"},
     cands : Seq(Rows), pos : Nat, pending : Walks!Ids \cup {Walks!NoRow},
     error : {"none", "final", "switchable"}, done : BOOLEAN]

\* A step of one request leaves the others where they are.
LEMMA OthersWalk ==
    ASSUME NEW q, Walking(q), walk'[q] = walk[q], log'[q] = log[q], audits'[q] = audits[q]
    PROVE  Walking(q)'
<1>1. Walks!Walked(q)'
  BY DEF Walking, Walks!Walked, Walks!InTurn
<1>2. Walks!Judged(q)'
  BY DEF Walking, Walks!Judged, Walks!Candidate, Walks!Last, Walks!Hows, Walks!NoRow
<1>3. Walks!Recorded(q)'
  BY DEF Walking, Walks!Recorded, Walks!Candidate, Walks!Remarked, Walks!Called, Walks!NoRow
<1>4. QED
  BY <1>1, <1>2, <1>3 DEF Walking

\* What a request has in its types.
LEMMA RequestTyped ==
    ASSUME RowParameters, Walks!TypeOK, NEW r \in Requests
    PROVE  /\ walk \in [Requests -> Stage] /\ walk[r] \in Stage
           /\ walk[r].cands \in Seq(Rows) /\ walk[r].pos \in Nat
           /\ walk[r].pending \in Walks!Ids \cup {Walks!NoRow}
           /\ walk[r].error \in {"none", "final", "switchable"} /\ walk[r].done \in BOOLEAN
           /\ log \in [Requests -> Seq(Walks!Entry)] /\ log[r] \in Seq(Walks!Entry)
           /\ audits \in [Requests -> Seq(Walks!Record)] /\ audits[r] \in Seq(Walks!Record)
           /\ Walks!NoRow \notin Walks!Ids
<1>1. walk \in [Requests -> Stage]
  BY DEF Walks!TypeOK, Stage
<1>2. walk[r] \in Stage
  BY <1>1
<1>3. /\ walk[r].cands \in Seq(Rows) /\ walk[r].pos \in Nat
      /\ walk[r].pending \in Walks!Ids \cup {Walks!NoRow}
      /\ walk[r].error \in {"none", "final", "switchable"} /\ walk[r].done \in BOOLEAN
  BY <1>2 DEF Stage
<1>4. /\ log \in [Requests -> Seq(Walks!Entry)] /\ log[r] \in Seq(Walks!Entry)
      /\ audits \in [Requests -> Seq(Walks!Record)] /\ audits[r] \in Seq(Walks!Record)
  BY DEF Walks!TypeOK
<1>5. Walks!NoRow \notin Walks!Ids
  BY DEF RowParameters, Walks!Ids, Walks!NoRow
<1>6. QED
  BY <1>1, <1>2, <1>3, <1>4, <1>5

\* A step of a request to a stage of it.
LEMMA StageTaken ==
    ASSUME RowParameters, Walks!TypeOK, NEW r \in Requests, NEW next \in Stage,
           walk' = [walk EXCEPT ![r] = next]
    PROVE  /\ walk' \in [Requests -> Stage] /\ walk'[r] = next
           /\ \A q \in Requests \ {r} : walk'[q] = walk[q]
BY RequestTyped

\* The types are kept when those of what a step changes are.
LEMMA TypesAgain ==
    ASSUME walk' \in [Requests -> Stage],
           log' \in [Requests -> Seq(Walks!Entry)],
           audits' \in [Requests -> Seq(Walks!Record)],
           rows' \subseteq Rows, usable' \subseteq rows',
           affinity' \in Walks!Ids \cup {Walks!NoRow}, changes' \in Nat
    PROVE  Walks!TypeOK'
BY DEF Walks!TypeOK, Stage, Walks!Ids, Walks!NoRow, Walks!Hows, Walks!Entry, Walks!Record

\* What a step of request r has to show.
StepOf(r) ==
    /\ Walks!TypeOK' /\ Walking(r)'
    /\ \A q \in Requests \ {r} : walk'[q] = walk[q] /\ log'[q] = log[q] /\ audits'[q] = audits[q]

\* A step of request r that leaves the log, the records and the rows alone.
LEMMA StageStep ==
    ASSUME RowParameters, Walks!TypeOK, NEW r \in Requests, NEW next \in Stage,
           walk' = [walk EXCEPT ![r] = next],
           UNCHANGED <<rows, usable, affinity, changes, log, audits>>,
           Walks!Walked(r)', Walks!Judged(r)', Walks!Recorded(r)'
    PROVE  StepOf(r)
<1>1. walk' \in [Requests -> Stage] /\ \A q \in Requests \ {r} : walk'[q] = walk[q]
  BY StageTaken
<1>2. Walks!TypeOK'
  BY <1>1, TypesAgain, RequestTyped DEF Walks!TypeOK
<1>3. QED
  BY <1>1, <1>2 DEF StepOf, Walking

\* An attempt is written down as the next one of the walk.
LEMMA AttemptLogged ==
    ASSUME RowParameters, Walks!TypeOK, NEW r \in Requests, Walks!Walked(r), Walks!At(r, "try"),
           NEW how \in Walks!Hows, Walks!Logged(r, how)
    PROVE  /\ log' \in [Requests -> Seq(Walks!Entry)]
           /\ \A q \in Requests \ {r} : log'[q] = log[q]
           /\ Walks!Candidate(r) \in Rows /\ Walks!Candidate(r).id \in Walks!Ids
           /\ walk[r].pos \in DOMAIN walk[r].cands
           /\ Len(log'[r]) = walk[r].pos
           /\ log'[r][Len(log'[r])].how = how
           /\ \A i \in DOMAIN log'[r] : log'[r][i].row = walk[r].cands[i]
           /\ \A i \in DOMAIN log'[r] : log'[r][i].late => i = Len(log'[r]) /\ walk[r].done
<1>1. /\ walk[r].cands \in Seq(Rows) /\ walk[r].pos \in DOMAIN walk[r].cands
      /\ walk[r].pos \in Nat /\ log[r] \in Seq(Walks!Entry) /\ walk[r].done \in BOOLEAN
      /\ log \in [Requests -> Seq(Walks!Entry)]
  BY RequestTyped DEF Walks!Walked, Walks!At
<1>2. /\ Len(log[r]) = walk[r].pos - 1
      /\ \A i \in DOMAIN log[r] : log[r][i].row = walk[r].cands[i] /\ ~log[r][i].late
  BY DEF Walks!Walked, Walks!At
<1>3. Walks!Candidate(r) \in Rows /\ Walks!Candidate(r).id \in Walks!Ids
  BY <1>1 DEF Walks!Candidate, Walks!Ids
<1> DEFINE e == [row |-> Walks!Candidate(r), how |-> how, late |-> walk[r].done]
<1>4. e \in Walks!Entry /\ e.how = how /\ e.row = walk[r].cands[walk[r].pos] /\ e.late = walk[r].done
  BY <1>1, <1>3 DEF Walks!Candidate, Walks!Entry
<1>5. log' = [log EXCEPT ![r] = Append(@, e)]
  BY DEF Walks!Logged
<1> HIDE DEF e
<1>6. log'[r] = Append(log[r], e) /\ \A q \in Requests \ {r} : log'[q] = log[q]
  BY <1>1, <1>5
<1>7. log'[r] \in Seq(Walks!Entry)
  BY <1>1, <1>4, <1>6
<1>8. log' \in [Requests -> Seq(Walks!Entry)]
  <2> DEFINE Logs == Seq(Walks!Entry)
  <2>1. log \in [Requests -> Logs] /\ log'[r] \in Logs /\ log' = [log EXCEPT ![r] = log'[r]]
    BY <1>1, <1>5, <1>7
  <2> HIDE DEF Logs
  <2>2. log' \in [Requests -> Logs]
    BY <2>1
  <2>3. QED
    BY <2>2 DEF Logs
<1>9. /\ Len(log'[r]) = walk[r].pos
      /\ log'[r][walk[r].pos] = e
      /\ \A i \in 1 .. walk[r].pos - 1 : log'[r][i] = log[r][i]
  BY <1>1, <1>2, <1>4, <1>6
<1>10. DOMAIN log'[r] = 1 .. walk[r].pos /\ DOMAIN log[r] = 1 .. walk[r].pos - 1
  BY <1>1, <1>2, <1>7, <1>9
<1>11. ASSUME NEW i \in 1 .. walk[r].pos
       PROVE  /\ log'[r][i].row = walk[r].cands[i]
              /\ log'[r][i].late => i = walk[r].pos /\ walk[r].done
  <2>1. CASE i = walk[r].pos
    BY <1>4, <1>9, <2>1
  <2>2. CASE i # walk[r].pos
    <3>1. i \in 1 .. walk[r].pos - 1
      BY <1>1, <2>2
    <3>2. QED
      BY <1>2, <1>9, <1>10, <3>1
  <2>3. QED
    BY <2>1, <2>2
<1>12. QED
  BY <1>1, <1>3, <1>4, <1>6, <1>8, <1>9, <1>10, <1>11

\* One record more for a request.
LEMMA RecordAdded ==
    ASSUME RowParameters, Walks!TypeOK, NEW r \in Requests,
           NEW row \in Walks!Ids, NEW usage \in BOOLEAN,
           audits' = [audits EXCEPT ![r] = Append(@, [row |-> row, usage |-> usage])]
    PROVE  /\ audits' \in [Requests -> Seq(Walks!Record)]
           /\ \A q \in Requests \ {r} : audits'[q] = audits[q]
           /\ Len(audits'[r]) = Len(audits[r]) + 1 /\ Len(audits[r]) \in Nat
           /\ audits'[r][Len(audits'[r])].row = row
           /\ Len(audits[r]) = 1 => audits'[r][1] = audits[r][1]
<1> DEFINE x == [row |-> row, usage |-> usage]
           Records == Seq(Walks!Record)
<1>1. x \in Walks!Record /\ x.row = row
  BY DEF Walks!Record
<1>2. audits \in [Requests -> Seq(Walks!Record)] /\ audits[r] \in Seq(Walks!Record)
  BY RequestTyped
<1>3. audits' = [audits EXCEPT ![r] = Append(@, x)]
  OBVIOUS
<1> HIDE DEF x
<1>4. audits'[r] = Append(audits[r], x) /\ \A q \in Requests \ {r} : audits'[q] = audits[q]
  BY <1>2, <1>3
<1>5. Append(audits[r], x) \in Records
  BY <1>1, <1>2
<1>6. audits \in [Requests -> Records]
  BY <1>2
<1>7. /\ Len(audits'[r]) = Len(audits[r]) + 1 /\ Len(audits[r]) \in Nat
      /\ audits'[r][Len(audits[r]) + 1] = x
      /\ Len(audits[r]) = 1 => audits'[r][1] = audits[r][1]
  BY <1>1, <1>2, <1>4
<1> HIDE DEF Records
<1>8. audits' \in [Requests -> Records]
  BY <1>3, <1>5, <1>6
<1>9. QED
  BY <1>1, <1>4, <1>7, <1>8 DEF Records

\* The records of a request that goes on without one more.
LEMMA RecordsKept ==
    ASSUME NEW r, Walks!Recorded(r), ~Walks!Called(r), ~Walks!Called(r)',
           walk'[r].verdict = walk[r].verdict, walk'[r].cands = walk[r].cands,
           audits'[r] = audits[r]
    PROVE  Walks!Recorded(r)'
<1>1. Walks!Remarked(r)' = Walks!Remarked(r)
  BY DEF Walks!Remarked
<1>2. QED
  BY <1>1 DEF Walks!Recorded

\* The record of the call comes last.
LEMMA CallRecorded ==
    ASSUME RowParameters, Walks!TypeOK, NEW r \in Requests,
           Walks!Recorded(r), ~Walks!Called(r), Walks!Called(r)',
           walk'[r].verdict = walk[r].verdict, walk'[r].cands = walk[r].cands,
           walk'[r].pos = walk[r].pos,
           Walks!Candidate(r).id \in Walks!Ids, NEW usage \in BOOLEAN,
           audits' = [audits EXCEPT ![r] = Append(@, [row |-> Walks!Candidate(r).id, usage |-> usage])]
    PROVE  /\ audits' \in [Requests -> Seq(Walks!Record)]
           /\ \A q \in Requests \ {r} : audits'[q] = audits[q]
           /\ Walks!Recorded(r)'
<1>1. /\ audits' \in [Requests -> Seq(Walks!Record)]
      /\ \A q \in Requests \ {r} : audits'[q] = audits[q]
      /\ Len(audits'[r]) = Len(audits[r]) + 1 /\ Len(audits[r]) \in Nat
      /\ audits'[r][Len(audits'[r])].row = Walks!Candidate(r).id
      /\ Len(audits[r]) = 1 => audits'[r][1] = audits[r][1]
  BY RecordAdded
<1>2. Walks!Remarked(r)' = Walks!Remarked(r) /\ Walks!Candidate(r)' = Walks!Candidate(r)
  BY DEF Walks!Remarked, Walks!Candidate
<1>3. Len(audits[r]) = IF Walks!Remarked(r) THEN 1 ELSE 0
  BY DEF Walks!Recorded
<1>4. Walks!Remarked(r) => audits[r][1].row = walk[r].cands[1].id
  BY DEF Walks!Recorded
<1>5. QED
  BY <1>1, <1>2, <1>3, <1>4 DEF Walks!Recorded

\* Before its end a request has no record of its call.
LEMMA NotCalled ==
    ASSUME NEW r, walk[r].pc \notin {"answered", "broken", "failed"}
    PROVE  ~Walks!Called(r)
BY DEF Walks!Called

\* An attempt that fails.
LEMMA AttemptedWalks ==
    ASSUME RowParameters, Walks!TypeOK, NEW r \in Requests, Walking(r),
           NEW how \in Walks!Hows \ {"answered", "opened"}, NEW error \in {"final", "switchable"},
           NEW fails, fails <=> how = "failed",
           Walks!Attempted(r, how, error, fails)
    PROVE  StepOf(r)
<1>1. Walks!At(r, "try") /\ Walks!Walked(r) /\ Walks!Judged(r) /\ Walks!Recorded(r)
      /\ Walks!Logged(r, how) /\ UNCHANGED <<rows, usable, affinity, changes, audits>>
  BY DEF Walks!Attempted, Walks!stored, Walking
<1>2. /\ log' \in [Requests -> Seq(Walks!Entry)]
      /\ \A q \in Requests \ {r} : log'[q] = log[q]
      /\ Walks!Candidate(r) \in Rows /\ Walks!Candidate(r).id \in Walks!Ids
      /\ walk[r].pos \in DOMAIN walk[r].cands
      /\ Len(log'[r]) = walk[r].pos
      /\ log'[r][Len(log'[r])].how = how
      /\ \A i \in DOMAIN log'[r] : log'[r][i].row = walk[r].cands[i]
      /\ \A i \in DOMAIN log'[r] : log'[r][i].late => i = Len(log'[r]) /\ walk[r].done
  BY <1>1, AttemptLogged
<1> DEFINE waits == IF fails THEN Walks!Candidate(r).id ELSE Walks!NoRow
           next == [walk[r] EXCEPT !.pc = "judge", !.error = error, !.pending = waits]
<1>3. /\ waits \in Walks!Ids \cup {Walks!NoRow}
      /\ waits = IF how = "failed" THEN Walks!Candidate(r).id ELSE Walks!NoRow
  BY <1>2
<1>4. walk' = [walk EXCEPT ![r] = next]
  BY DEF Walks!Attempted
<1> HIDE DEF waits
<1>5. /\ next \in Stage /\ next.pc = "judge" /\ next.cands = walk[r].cands /\ next.pos = walk[r].pos
      /\ next.pending = waits /\ next.verdict = walk[r].verdict /\ next.done = walk[r].done
  BY <1>3, RequestTyped DEF Stage
<1> HIDE DEF next
<1>6. /\ walk' \in [Requests -> Stage] /\ walk'[r] = next
      /\ \A q \in Requests \ {r} : walk'[q] = walk[q]
  BY <1>4, <1>5, StageTaken
<1>7. Walks!TypeOK'
  BY <1>1, <1>2, <1>6, TypesAgain, RequestTyped DEF Walks!TypeOK
<1>8. Walks!Walked(r)'
  BY <1>1, <1>2, <1>5, <1>6 DEF Walks!Walked, Walks!InTurn
<1>9. Walks!Judged(r)'
  <2>1. walk[r].verdict \notin {"refused", "captured"}
    BY <1>1 DEF Walks!Judged, Walks!At
  <2>2. QED
    BY <1>2, <1>3, <1>5, <1>6, <2>1 DEF Walks!Judged, Walks!Candidate, Walks!Last, Walks!Hows,
        Walks!NoRow
<1>10. Walks!Recorded(r)'
  <2>1. ~Walks!Called(r) /\ ~Walks!Called(r)'
    BY <1>1, <1>5, <1>6, NotCalled DEF Walks!At, Walks!Called
  <2>2. QED
    BY <1>1, <1>5, <1>6, <2>1, RecordsKept
<1>11. QED
  BY <1>1, <1>2, <1>6, <1>7, <1>8, <1>9, <1>10 DEF StepOf, Walking

LEMMA IdleStage ==
    /\ Walks!Idle \in Stage /\ Walks!Idle.pc = "idle" /\ Walks!Idle.verdict = "none"
    /\ Walks!Idle.cands = <<>> /\ Walks!InTurn(Walks!Idle.cands)
<1>1. <<>> \in Seq(Rows) /\ Walks!NoRow \in Walks!Ids \cup {Walks!NoRow} /\ 0 \in Nat
  OBVIOUS
<1>2. Walks!Idle \in Stage
  BY <1>1 DEF Walks!Idle, Stage
<1>3. Walks!Idle.pc = "idle" /\ Walks!Idle.cands = <<>> /\ Walks!Idle.verdict = "none"
  BY DEF Walks!Idle
<1>4. QED
  BY <1>2, <1>3 DEF Walks!InTurn

LEMMA AnswersWalks ==
    ASSUME RowParameters, Walks!TypeOK, NEW r \in Requests, Walking(r), Walks!Answers(r)
    PROVE  StepOf(r)
<1>1. Walks!At(r, "try") /\ Walks!Walked(r) /\ Walks!Judged(r) /\ Walks!Recorded(r)
      /\ Walks!Logged(r, "answered")
  BY DEF Walks!Answers, Walking
<1>2. /\ log' \in [Requests -> Seq(Walks!Entry)]
      /\ \A q \in Requests \ {r} : log'[q] = log[q]
      /\ Walks!Candidate(r) \in Rows /\ Walks!Candidate(r).id \in Walks!Ids
      /\ walk[r].pos \in DOMAIN walk[r].cands
      /\ Len(log'[r]) = walk[r].pos
      /\ log'[r][Len(log'[r])].how = "answered"
      /\ \A i \in DOMAIN log'[r] : log'[r][i].row = walk[r].cands[i]
      /\ \A i \in DOMAIN log'[r] : log'[r][i].late => i = Len(log'[r]) /\ walk[r].done
  <2>1. "answered" \in Walks!Hows
    BY DEF Walks!Hows
  <2>2. QED
    BY <1>1, <2>1, AttemptLogged
<1>3. PICK usage \in BOOLEAN :
          audits' = [audits EXCEPT ![r] = Append(@, [row |-> Walks!Candidate(r).id, usage |-> usage])]
  BY DEF Walks!Answers
<1> DEFINE next == [walk[r] EXCEPT !.pc = "answered", !.pending = Walks!NoRow]
<1>4. /\ next \in Stage /\ next.pc = "answered" /\ next.cands = walk[r].cands
      /\ next.pos = walk[r].pos /\ next.verdict = walk[r].verdict /\ next.done = walk[r].done
  BY RequestTyped DEF Stage
<1>5. walk' = [walk EXCEPT ![r] = next]
  BY DEF Walks!Answers
<1> HIDE DEF next
<1>6. /\ walk' \in [Requests -> Stage] /\ walk'[r] = next
      /\ \A q \in Requests \ {r} : walk'[q] = walk[q]
  BY <1>4, <1>5, StageTaken
<1>7. /\ audits' \in [Requests -> Seq(Walks!Record)]
      /\ \A q \in Requests \ {r} : audits'[q] = audits[q]
      /\ Walks!Recorded(r)'
  <2>1. ~Walks!Called(r) /\ Walks!Called(r)'
    BY <1>1, <1>4, <1>6, NotCalled DEF Walks!At, Walks!Called
  <2>2. QED
    BY <1>1, <1>2, <1>3, <1>4, <1>6, <2>1, CallRecorded
<1>8. affinity' \in Walks!Ids \cup {Walks!NoRow} /\ UNCHANGED <<rows, usable, changes>>
  BY <1>2 DEF Walks!Answers, Walks!Remember, Walks!TypeOK
<1>9. Walks!TypeOK'
  BY <1>2, <1>6, <1>7, <1>8, TypesAgain DEF Walks!TypeOK
<1>10. Walks!Walked(r)'
  BY <1>1, <1>2, <1>4, <1>6 DEF Walks!Walked, Walks!InTurn
<1>11. Walks!Judged(r)'
  <2>1. walk[r].verdict \notin {"refused", "captured"}
    BY <1>1 DEF Walks!Judged, Walks!At
  <2>2. QED
    BY <1>2, <1>4, <1>6, <2>1 DEF Walks!Judged, Walks!Last
<1>12. QED
  BY <1>2, <1>6, <1>7, <1>9, <1>10, <1>11 DEF StepOf, Walking

LEMMA OpensStreamWalks ==
    ASSUME RowParameters, Walks!TypeOK, NEW r \in Requests, Walking(r), Walks!OpensStream(r)
    PROVE  StepOf(r)
<1>1. Walks!At(r, "try") /\ Walks!Walked(r) /\ Walks!Judged(r) /\ Walks!Recorded(r)
      /\ Walks!Logged(r, "opened") /\ UNCHANGED audits
  BY DEF Walks!OpensStream, Walking
<1>2. /\ log' \in [Requests -> Seq(Walks!Entry)]
      /\ \A q \in Requests \ {r} : log'[q] = log[q]
      /\ Walks!Candidate(r) \in Rows /\ Walks!Candidate(r).id \in Walks!Ids
      /\ walk[r].pos \in DOMAIN walk[r].cands
      /\ Len(log'[r]) = walk[r].pos
      /\ log'[r][Len(log'[r])].how = "opened"
      /\ \A i \in DOMAIN log'[r] : log'[r][i].row = walk[r].cands[i]
      /\ \A i \in DOMAIN log'[r] : log'[r][i].late => i = Len(log'[r]) /\ walk[r].done
  <2>1. "opened" \in Walks!Hows
    BY DEF Walks!Hows
  <2>2. QED
    BY <1>1, <2>1, AttemptLogged
<1> DEFINE next == [walk[r] EXCEPT !.pc = "streaming", !.pending = Walks!NoRow]
<1>3. /\ next \in Stage /\ next.pc = "streaming" /\ next.cands = walk[r].cands
      /\ next.pos = walk[r].pos /\ next.verdict = walk[r].verdict /\ next.done = walk[r].done
  BY RequestTyped DEF Stage
<1>4. walk' = [walk EXCEPT ![r] = next]
  BY DEF Walks!OpensStream
<1> HIDE DEF next
<1>5. /\ walk' \in [Requests -> Stage] /\ walk'[r] = next
      /\ \A q \in Requests \ {r} : walk'[q] = walk[q]
  BY <1>3, <1>4, StageTaken
<1>6. affinity' \in Walks!Ids \cup {Walks!NoRow} /\ UNCHANGED <<rows, usable, changes>>
  BY <1>2 DEF Walks!OpensStream, Walks!Remember, Walks!TypeOK
<1>7. Walks!TypeOK'
  BY <1>1, <1>2, <1>5, <1>6, TypesAgain, RequestTyped DEF Walks!TypeOK
<1>8. Walks!Walked(r)'
  BY <1>1, <1>2, <1>3, <1>5 DEF Walks!Walked, Walks!InTurn
<1>9. Walks!Judged(r)'
  <2>1. walk[r].verdict \notin {"refused", "captured"}
    BY <1>1 DEF Walks!Judged, Walks!At
  <2>2. QED
    BY <1>2, <1>3, <1>5, <2>1 DEF Walks!Judged, Walks!Last
<1>10. Walks!Recorded(r)'
  <2>1. ~Walks!Called(r) /\ ~Walks!Called(r)'
    BY <1>1, <1>3, <1>5, NotCalled DEF Walks!At, Walks!Called
  <2>2. QED
    BY <1>1, <1>3, <1>5, <2>1, RecordsKept
<1>11. QED
  BY <1>1, <1>2, <1>5, <1>7, <1>8, <1>9, <1>10 DEF StepOf, Walking

\* A log of no length has no entry.
LEMMA EmptyLog ==
    ASSUME RowParameters, Walks!TypeOK, NEW r \in Requests, Len(log[r]) = 0
    PROVE  log[r] = <<>> /\ DOMAIN log[r] = {}
BY RequestTyped

LEMMA ResolveWalks ==
    ASSUME RowParameters, Walks!TypeOK, NEW r \in Requests, Walking(r), Walks!Resolve(r)
    PROVE  StepOf(r)
<1>1. PICK oauthFits \in BOOLEAN :
         \E s \in Walks!Ordered({m \in Walks!Found \cap usable : m.oauth => oauthFits}) :
            s # <<>> /\ Walks!Lined(r, Walks!Pinned(s))
  BY DEF Walks!Resolve
<1>2. Walks!At(r, "idle") /\ UNCHANGED <<rows, usable, affinity, changes, log, audits>>
      /\ Walks!Walked(r) /\ Walks!Judged(r) /\ Walks!Recorded(r)
  BY DEF Walks!Resolve, Walks!stored, Walking
<1> DEFINE cands == {m \in Walks!Found \cap usable : m.oauth => oauthFits}
<1>3. cands \in SUBSET Rows
  BY DEF Walks!TypeOK
<1>4. PICK s \in Walks!Ordered(cands) : s # <<>> /\ Walks!Lined(r, Walks!Pinned(s))
  BY <1>1
<1> HIDE DEF cands
<1>5. /\ s \in Seq(Rows) /\ Walks!InTurn(s)
      /\ \A i, j \in DOMAIN s : i # j => s[i] # s[j]
      /\ \A i, j \in DOMAIN s : i < j => s[i].priority <= s[j].priority
  BY <1>3, OrderedInTurn
<1>6. Walks!Pinned(s) \in Seq(Rows) /\ Walks!InTurn(Walks!Pinned(s)) /\ Walks!Pinned(s) # <<>>
  BY <1>4, <1>5, PinnedInTurn
<1> DEFINE next == [walk[r] EXCEPT !.pc = "words", !.pos = 1, !.cands = Walks!Pinned(s)]
<1>7. /\ next \in Stage /\ next.pc = "words" /\ next.pos = 1 /\ next.cands = Walks!Pinned(s)
      /\ next.verdict = walk[r].verdict
  BY <1>6, RequestTyped DEF Stage
<1>8. walk' = [walk EXCEPT ![r] = next]
  BY <1>4 DEF Walks!Lined
<1> HIDE DEF next
<1>9. walk'[r] = next
  BY <1>7, <1>8, StageTaken
<1>10. Len(log[r]) = 0 /\ DOMAIN log[r] = {}
  BY <1>2, EmptyLog DEF Walks!Walked, Walks!At
<1>11. 1 \in DOMAIN next.cands
  BY <1>6, <1>7
<1>12. Walks!InTurn(walk[r].cands)'
  BY <1>6, <1>7, <1>9 DEF Walks!InTurn
<1>13. Walks!Walked(r)'
  BY <1>2, <1>7, <1>9, <1>10, <1>11, <1>12 DEF Walks!Walked
<1>14. walk[r].verdict = "none"
  BY <1>2 DEF Walks!Judged, Walks!At
<1>15. Walks!Judged(r)'
  BY <1>7, <1>9, <1>14 DEF Walks!Judged
<1>16. Walks!Recorded(r)'
  BY <1>2, <1>7, <1>9, <1>14 DEF Walks!Recorded, Walks!Called, Walks!Remarked, Walks!At
<1>17. QED
  BY <1>2, <1>7, <1>8, <1>13, <1>15, <1>16, StageStep

LEMMA ResolveFailsWalks ==
    ASSUME RowParameters, Walks!TypeOK, NEW r \in Requests, Walking(r), Walks!ResolveFails(r)
    PROVE  StepOf(r)
<1>1. Walks!At(r, "idle") /\ UNCHANGED <<rows, usable, affinity, changes, log, audits>>
      /\ Walks!Walked(r) /\ Walks!Judged(r) /\ Walks!Recorded(r)
  BY DEF Walks!ResolveFails, Walks!stored, Walking
<1> DEFINE next == [walk[r] EXCEPT !.pc = "unresolved"]
<1>2. /\ next \in Stage /\ next.pc = "unresolved" /\ next.cands = walk[r].cands
      /\ next.verdict = walk[r].verdict
  BY RequestTyped DEF Stage
<1>3. walk' = [walk EXCEPT ![r] = next]
  BY DEF Walks!ResolveFails
<1> HIDE DEF next
<1>4. walk'[r] = next
  BY <1>2, <1>3, StageTaken
<1>5. Len(log[r]) = 0 /\ DOMAIN log[r] = {}
  BY <1>1, EmptyLog DEF Walks!Walked, Walks!At
<1>6. Walks!Walked(r)'
  BY <1>1, <1>2, <1>4, <1>5 DEF Walks!Walked, Walks!InTurn
<1>7. Walks!Judged(r)'
  BY <1>1, <1>2, <1>4 DEF Walks!Judged, Walks!At
<1>8. Walks!Recorded(r)'
  BY <1>1, <1>2, <1>4, RecordsKept DEF Walks!Called, Walks!At
<1>9. QED
  BY <1>1, <1>2, <1>3, <1>6, <1>7, <1>8, StageStep

\* The words leave the first record, or none.
LEMMA WordsWalks ==
    ASSUME RowParameters, Walks!TypeOK, NEW r \in Requests, Walking(r), Walks!Words(r)
    PROVE  StepOf(r)
<1>1. PICK verdict \in {"pass", "aside", "refused", "captured"} :
          /\ walk' = [walk EXCEPT ![r] = [@ EXCEPT !.verdict = verdict,
                        !.pc = IF verdict \in {"pass", "aside"} THEN "try" ELSE verdict]]
          /\ audits' = [audits EXCEPT ![r] = IF verdict = "pass" THEN @
                            ELSE Append(@, [row |-> Walks!Candidate(r).id, usage |-> FALSE])]
  BY DEF Walks!Words
<1>2. Walks!At(r, "words") /\ UNCHANGED <<rows, usable, affinity, changes, log>>
      /\ Walks!Walked(r) /\ Walks!Judged(r) /\ Walks!Recorded(r)
  BY DEF Walks!Words, Walks!stored, Walking
<1> DEFINE after == IF verdict \in {"pass", "aside"} THEN "try" ELSE verdict
           next == [walk[r] EXCEPT !.verdict = verdict, !.pc = after]
<1>3. after \in {"try", "refused", "captured"} /\ \A v \in {"refused", "captured"} : verdict = v <=> after = v
  OBVIOUS
<1>4. walk' = [walk EXCEPT ![r] = next]
  BY <1>1
<1> HIDE DEF after
<1>5. /\ next \in Stage /\ next.pc = after /\ next.verdict = verdict
      /\ next.cands = walk[r].cands /\ next.pos = walk[r].pos
  BY <1>3, RequestTyped DEF Stage
<1> HIDE DEF next
<1>6. /\ walk' \in [Requests -> Stage] /\ walk'[r] = next
      /\ \A q \in Requests \ {r} : walk'[q] = walk[q]
  BY <1>4, <1>5, StageTaken
<1>7. Len(log[r]) = 0 /\ DOMAIN log[r] = {} /\ walk[r].pos = 1 /\ 1 \in DOMAIN walk[r].cands
      /\ walk[r].verdict = "none"
  BY <1>2, EmptyLog DEF Walks!Walked, Walks!Judged, Walks!At
<1>8. Walks!Candidate(r) = walk[r].cands[1] /\ Walks!Candidate(r).id \in Walks!Ids
  <2>1. walk[r].cands[1] \in Rows
    BY <1>7, RequestTyped
  <2>2. QED
    BY <1>7, <2>1 DEF Walks!Candidate, Walks!Ids
<1>9. Len(audits[r]) = 0
  BY <1>2, <1>7 DEF Walks!Recorded, Walks!Remarked, Walks!Called, Walks!At
<1>10. Walks!Walked(r)'
  BY <1>2, <1>3, <1>5, <1>6, <1>7 DEF Walks!Walked, Walks!InTurn
<1>11. Walks!Judged(r)'
  BY <1>3, <1>5, <1>6 DEF Walks!Judged
<1>12. ~Walks!Called(r)'
  BY <1>3, <1>5, <1>6 DEF Walks!Called
<1>13. CASE verdict = "pass"
  <2>1. audits' = audits
    BY <1>1, <1>13, RequestTyped
  <2>2. Walks!Recorded(r)'
    BY <1>5, <1>6, <1>9, <1>12, <1>13, <2>1 DEF Walks!Recorded, Walks!Remarked
  <2>3. Walks!TypeOK'
    BY <1>2, <1>6, <2>1, TypesAgain, RequestTyped DEF Walks!TypeOK
  <2>4. QED
    BY <1>2, <1>6, <1>10, <1>11, <2>1, <2>2, <2>3 DEF StepOf, Walking
<1>14. CASE verdict # "pass"
  <2>1. audits' = [audits EXCEPT ![r] = Append(@, [row |-> Walks!Candidate(r).id, usage |-> FALSE])]
    BY <1>1, <1>14
  <2>2. /\ audits' \in [Requests -> Seq(Walks!Record)]
        /\ \A q \in Requests \ {r} : audits'[q] = audits[q]
        /\ Len(audits'[r]) = 1 /\ audits'[r][1].row = Walks!Candidate(r).id
    <3>1. /\ audits' \in [Requests -> Seq(Walks!Record)]
          /\ \A q \in Requests \ {r} : audits'[q] = audits[q]
          /\ Len(audits'[r]) = Len(audits[r]) + 1
          /\ audits'[r][Len(audits'[r])].row = Walks!Candidate(r).id
      BY <1>8, <2>1, RecordAdded
    <3>2. Len(audits'[r]) = 1
      BY <1>9, <3>1
    <3>3. QED
      BY <3>1, <3>2
  <2>3. Walks!Recorded(r)'
    BY <1>5, <1>6, <1>8, <1>12, <1>14, <2>2 DEF Walks!Recorded, Walks!Remarked
  <2>4. Walks!TypeOK'
    BY <1>2, <1>6, <2>2, TypesAgain, RequestTyped DEF Walks!TypeOK
  <2>5. QED
    BY <1>2, <1>6, <1>10, <1>11, <2>2, <2>3, <2>4 DEF StepOf, Walking
<1>15. QED
  BY <1>13, <1>14

LEMMA GiveUpWalks ==
    ASSUME RowParameters, Walks!TypeOK, NEW r \in Requests, Walking(r), Walks!GiveUp(r)
    PROVE  StepOf(r)
<1>1. /\ Walks!At(r, "judge") /\ Walks!Submit(r)
      /\ Walks!Walked(r) /\ Walks!Judged(r) /\ Walks!Recorded(r)
      /\ walk[r].error = "final" \/ walk[r].pos = Len(walk[r].cands) \/ walk[r].done
      /\ walk' = [walk EXCEPT ![r].pc = "failed"]
      /\ UNCHANGED <<rows, usable, affinity, changes, log>>
  BY DEF Walks!GiveUp, Walks!stored, Walking
<1> DEFINE next == [walk[r] EXCEPT !.pc = "failed"]
<1>2. /\ next \in Stage /\ next.pc = "failed" /\ next.cands = walk[r].cands
      /\ next.pos = walk[r].pos /\ next.pending = walk[r].pending /\ next.error = walk[r].error
      /\ next.verdict = walk[r].verdict /\ next.done = walk[r].done
  BY RequestTyped DEF Stage
<1>3. walk' = [walk EXCEPT ![r] = next]
  BY <1>1
<1> HIDE DEF next
<1>4. /\ walk' \in [Requests -> Stage] /\ walk'[r] = next
      /\ \A q \in Requests \ {r} : walk'[q] = walk[q]
  BY <1>2, <1>3, StageTaken
<1>5. /\ walk[r].pos \in DOMAIN walk[r].cands
      /\ Walks!Last(log[r]).how \in Walks!Hows \ {"answered", "opened"}
      /\ walk[r].pending = IF Walks!Last(log[r]).how = "failed" THEN Walks!Candidate(r).id ELSE Walks!NoRow
      /\ walk[r].verdict \notin {"refused", "captured"}
  BY <1>1 DEF Walks!Judged, Walks!Walked, Walks!At
<1>6. walk[r].pending \in Walks!Ids \cup {Walks!NoRow} /\ walk[r].cands \in Seq(Rows)
  BY RequestTyped
<1>7. Walks!Walked(r)'
  BY <1>1, <1>2, <1>4, <1>5 DEF Walks!Walked, Walks!InTurn, Walks!At
<1>8. Walks!Judged(r)'
  BY <1>1, <1>2, <1>4, <1>5 DEF Walks!Judged, Walks!Candidate, Walks!Last, Walks!Hows, Walks!NoRow
<1>9. ~Walks!Called(r) /\ (Walks!Called(r)' <=> walk[r].pending # Walks!NoRow)
  BY <1>1, <1>2, <1>4 DEF Walks!Called, Walks!At, Walks!NoRow
<1>10. CASE walk[r].pending = Walks!NoRow
  <2>1. audits' = audits
    BY <1>1, <1>10, RequestTyped DEF Walks!Submit
  <2>2. Walks!Recorded(r)'
    BY <1>1, <1>2, <1>4, <1>9, <1>10, <2>1, RecordsKept
  <2>3. Walks!TypeOK'
    BY <1>1, <1>4, <2>1, TypesAgain, RequestTyped DEF Walks!TypeOK
  <2>4. QED
    BY <1>1, <1>4, <1>7, <1>8, <2>1, <2>2, <2>3 DEF StepOf, Walking
<1>11. CASE walk[r].pending # Walks!NoRow
  <2>1. walk[r].pending \in Walks!Ids /\ walk[r].pending = Walks!Candidate(r).id
    BY <1>5, <1>6, <1>11
  <2>2. audits' = [audits EXCEPT ![r] = Append(@, [row |-> Walks!Candidate(r).id, usage |-> FALSE])]
    BY <1>1, <1>11, <2>1 DEF Walks!Submit
  <2>3. /\ audits' \in [Requests -> Seq(Walks!Record)]
        /\ \A q \in Requests \ {r} : audits'[q] = audits[q]
        /\ Walks!Recorded(r)'
    BY <1>1, <1>2, <1>4, <1>9, <1>11, <2>1, <2>2, CallRecorded
  <2>4. Walks!TypeOK'
    BY <1>1, <1>4, <2>3, TypesAgain, RequestTyped DEF Walks!TypeOK
  <2>5. QED
    BY <1>1, <1>4, <1>7, <1>8, <2>3, <2>4 DEF StepOf, Walking
<1>12. QED
  BY <1>10, <1>11

\* Only a request whose context lives is switched: none of its attempts was late.
LEMMA SwitchWalks ==
    ASSUME RowParameters, Walks!TypeOK, NEW r \in Requests, Walking(r), Walks!Switch(r)
    PROVE  StepOf(r)
<1>1. Walks!At(r, "judge") /\ Walks!Walked(r) /\ Walks!Judged(r) /\ Walks!Recorded(r)
      /\ walk[r].pos < Len(walk[r].cands) /\ ~walk[r].done
      /\ UNCHANGED <<rows, usable, affinity, changes, log, audits>>
  BY DEF Walks!Switch, Walks!stored, Walking
<1> DEFINE next == [walk[r] EXCEPT !.pc = "try", !.pos = @ + 1]
<1>2. walk[r].pos \in Nat /\ walk[r].pos + 1 \in Nat /\ walk[r].cands \in Seq(Rows)
      /\ walk[r].pos + 1 \in DOMAIN walk[r].cands
  BY <1>1, RequestTyped
<1>3. /\ next \in Stage /\ next.pc = "try" /\ next.cands = walk[r].cands
      /\ next.pos = walk[r].pos + 1 /\ next.verdict = walk[r].verdict
  BY <1>2, RequestTyped DEF Stage
<1>4. walk' = [walk EXCEPT ![r] = next]
  BY RequestTyped DEF Walks!Switch
<1> HIDE DEF next
<1>5. walk'[r] = next
  BY <1>3, <1>4, StageTaken
<1>6. Len(log[r]) = walk[r].pos /\ next.pos - 1 = walk[r].pos
  BY <1>1, <1>2, <1>3 DEF Walks!Walked, Walks!At
<1>7. Walks!Walked(r)'
  BY <1>1, <1>2, <1>3, <1>5, <1>6 DEF Walks!Walked, Walks!InTurn, Walks!At
<1>8. Walks!Judged(r)'
  BY <1>1, <1>3, <1>5 DEF Walks!Judged, Walks!At
<1>9. Walks!Recorded(r)'
  BY <1>1, <1>3, <1>5, RecordsKept DEF Walks!Called, Walks!At
<1>10. QED
  BY <1>1, <1>3, <1>4, <1>7, <1>8, <1>9, StageStep

LEMMA StreamEndsWalks ==
    ASSUME RowParameters, Walks!TypeOK, NEW r \in Requests, Walking(r), Walks!StreamEnds(r)
    PROVE  StepOf(r)
<1>1. PICK usage \in BOOLEAN, end \in {"answered", "broken"} :
          /\ audits' = [audits EXCEPT ![r] = Append(@, [row |-> Walks!Candidate(r).id, usage |-> usage])]
          /\ walk' = [walk EXCEPT ![r].pc = end]
  BY DEF Walks!StreamEnds
<1>2. Walks!At(r, "streaming") /\ Walks!Walked(r) /\ Walks!Judged(r) /\ Walks!Recorded(r)
      /\ UNCHANGED <<rows, usable, affinity, changes, log>>
  BY DEF Walks!StreamEnds, Walks!stored, Walking
<1> DEFINE next == [walk[r] EXCEPT !.pc = end]
<1>3. /\ next \in Stage /\ next.pc = end /\ next.cands = walk[r].cands
      /\ next.pos = walk[r].pos /\ next.verdict = walk[r].verdict /\ next.done = walk[r].done
  BY RequestTyped DEF Stage
<1>4. walk' = [walk EXCEPT ![r] = next]
  BY <1>1
<1> HIDE DEF next
<1>5. /\ walk' \in [Requests -> Stage] /\ walk'[r] = next
      /\ \A q \in Requests \ {r} : walk'[q] = walk[q]
  BY <1>3, <1>4, StageTaken
<1>6. /\ walk[r].pos \in DOMAIN walk[r].cands
      /\ Walks!Last(log[r]).how \in {"answered", "opened"}
      /\ walk[r].verdict \notin {"refused", "captured"}
  BY <1>2 DEF Walks!Judged, Walks!Walked, Walks!At
<1>7. Walks!Candidate(r).id \in Walks!Ids
  <2>1. Walks!Candidate(r) \in Rows
    BY <1>6, RequestTyped DEF Walks!Candidate
  <2>2. QED
    BY <2>1 DEF Walks!Ids
<1>8. /\ audits' \in [Requests -> Seq(Walks!Record)]
      /\ \A q \in Requests \ {r} : audits'[q] = audits[q]
      /\ Walks!Recorded(r)'
  <2>1. ~Walks!Called(r) /\ Walks!Called(r)'
    BY <1>2, <1>3, <1>5 DEF Walks!Called, Walks!At
  <2>2. QED
    BY <1>1, <1>2, <1>3, <1>5, <1>7, <2>1, CallRecorded
<1>9. Walks!TypeOK'
  BY <1>2, <1>5, <1>8, TypesAgain, RequestTyped DEF Walks!TypeOK
<1>10. Walks!Walked(r)'
  BY <1>2, <1>3, <1>5, <1>6 DEF Walks!Walked, Walks!InTurn, Walks!At
<1>11. Walks!Judged(r)'
  BY <1>2, <1>3, <1>5, <1>6 DEF Walks!Judged, Walks!Last
<1>12. QED
  BY <1>2, <1>5, <1>8, <1>9, <1>10, <1>11 DEF StepOf, Walking

LEMMA StreamDroppedWalks ==
    ASSUME RowParameters, Walks!TypeOK, NEW r \in Requests, Walking(r), Walks!StreamDropped(r)
    PROVE  StepOf(r)
<1>1. Walks!At(r, "streaming") /\ Walks!Walked(r) /\ Walks!Judged(r) /\ Walks!Recorded(r)
      /\ UNCHANGED <<rows, usable, affinity, changes, log, audits>>
  BY DEF Walks!StreamDropped, Walks!stored, Walking
<1> DEFINE next == [walk[r] EXCEPT !.pc = "dropped"]
<1>2. /\ next \in Stage /\ next.pc = "dropped" /\ next.cands = walk[r].cands
      /\ next.pos = walk[r].pos /\ next.verdict = walk[r].verdict /\ next.done = walk[r].done
  BY RequestTyped DEF Stage
<1>3. walk' = [walk EXCEPT ![r] = next]
  BY DEF Walks!StreamDropped
<1> HIDE DEF next
<1>4. walk'[r] = next
  BY <1>2, <1>3, StageTaken
<1>5. Walks!Walked(r)'
  BY <1>1, <1>2, <1>4 DEF Walks!Walked, Walks!InTurn, Walks!At
<1>6. Walks!Judged(r)'
  BY <1>1, <1>2, <1>4 DEF Walks!Judged, Walks!At
<1>7. Walks!Recorded(r)'
  BY <1>1, <1>2, <1>4, RecordsKept DEF Walks!Called, Walks!At
<1>8. QED
  BY <1>1, <1>2, <1>3, <1>5, <1>6, <1>7, StageStep

LEMMA ContextEndsWalks ==
    ASSUME RowParameters, Walks!TypeOK, NEW r \in Requests, Walking(r), Walks!ContextEnds(r)
    PROVE  StepOf(r)
<1>1. ~Walks!Ended(r) /\ Walks!Walked(r) /\ Walks!Judged(r) /\ Walks!Recorded(r)
      /\ UNCHANGED <<rows, usable, affinity, changes, log, audits>>
  BY DEF Walks!ContextEnds, Walks!stored, Walking
<1> DEFINE next == [walk[r] EXCEPT !.done = TRUE]
<1>2. /\ next \in Stage /\ next.pc = walk[r].pc /\ next.cands = walk[r].cands
      /\ next.pos = walk[r].pos /\ next.verdict = walk[r].verdict /\ next.done
      /\ next.pending = walk[r].pending
  BY RequestTyped DEF Stage
<1>3. walk' = [walk EXCEPT ![r] = next]
  BY DEF Walks!ContextEnds
<1> HIDE DEF next
<1>4. walk'[r] = next
  BY <1>2, <1>3, StageTaken
<1>5. Walks!Walked(r)'
  BY <1>1, <1>2, <1>4 DEF Walks!Walked, Walks!InTurn
<1>6. Walks!Judged(r)'
  BY <1>1, <1>2, <1>4 DEF Walks!Judged, Walks!Candidate, Walks!Last, Walks!Hows, Walks!NoRow
<1>7. ~Walks!Called(r) /\ ~Walks!Called(r)'
  BY <1>1, <1>2, <1>4 DEF Walks!Called, Walks!Ended
<1>8. Walks!Recorded(r)'
  BY <1>1, <1>2, <1>4, <1>7, RecordsKept
<1>9. QED
  BY <1>1, <1>2, <1>3, <1>5, <1>6, <1>8, StageStep

LEMMA NextRequestWalks ==
    ASSUME RowParameters, Walks!TypeOK, NEW r \in Requests, Walking(r), Walks!NextRequest(r)
    PROVE  StepOf(r)
<1>1. walk' = [walk EXCEPT ![r] = Walks!Idle] /\ log' = [log EXCEPT ![r] = <<>>]
      /\ audits' = [audits EXCEPT ![r] = <<>>]
      /\ UNCHANGED <<rows, usable, affinity, changes>>
  BY DEF Walks!NextRequest, Walks!stored
<1>2. /\ walk' \in [Requests -> Stage] /\ walk'[r] = Walks!Idle
      /\ \A q \in Requests \ {r} : walk'[q] = walk[q]
  BY <1>1, IdleStage, StageTaken
<1> DEFINE Logs == Seq(Walks!Entry)
           Records == Seq(Walks!Record)
<1>3. <<>> \in Logs /\ <<>> \in Records
  OBVIOUS
<1>4. log \in [Requests -> Logs] /\ audits \in [Requests -> Records]
  BY DEF Walks!TypeOK
<1> HIDE DEF Logs, Records
<1>5. /\ log' \in [Requests -> Logs] /\ log'[r] = <<>>
      /\ audits' \in [Requests -> Records] /\ audits'[r] = <<>>
      /\ \A q \in Requests \ {r} : log'[q] = log[q] /\ audits'[q] = audits[q]
  BY <1>1, <1>3, <1>4
<1>6. Walks!TypeOK'
  BY <1>1, <1>2, <1>5, TypesAgain DEF Walks!TypeOK, Logs, Records
<1>7. Walks!Walked(r)'
  BY <1>2, <1>5, IdleStage DEF Walks!Walked, Walks!InTurn
<1>8. Walks!Judged(r)'
  BY <1>2, IdleStage DEF Walks!Judged
<1>9. Walks!Recorded(r)'
  BY <1>2, <1>5, IdleStage DEF Walks!Recorded, Walks!Remarked, Walks!Called
<1>10. QED
  BY <1>2, <1>5, <1>6, <1>7, <1>8, <1>9 DEF StepOf, Walking

\* A change of the rows does not touch the requests under way.
LEMMA RowChangesWalk ==
    ASSUME RowParameters, Walks!TypeOK, Walks!RowChanges
    PROVE  Walks!TypeOK' /\ UNCHANGED <<walk, log, audits>>
<1>1. UNCHANGED <<walk, log, audits>> /\ changes' = changes + 1
  BY DEF Walks!RowChanges
<1>2. rows' \subseteq Rows /\ usable' \subseteq rows' /\ affinity' \in Walks!Ids \cup {Walks!NoRow}
  BY DEF Walks!RowChanges, Walks!TypeOK
<1>3. changes' \in Nat
  BY <1>1 DEF Walks!TypeOK
<1>4. walk' \in [Requests -> Stage] /\ log' \in [Requests -> Seq(Walks!Entry)]
      /\ audits' \in [Requests -> Seq(Walks!Record)]
  BY <1>1 DEF Walks!TypeOK, Stage
<1>5. QED
  BY <1>1, <1>2, <1>3, <1>4, TypesAgain

WalkInv == Walks!TypeOK /\ \A r \in Requests : Walking(r)

LEMMA WalkStep == RowParameters /\ WalkInv /\ [Walks!Next]_Walks!vars => WalkInv'
<1> SUFFICES ASSUME RowParameters, WalkInv, [Walks!Next]_Walks!vars PROVE WalkInv'
  OBVIOUS
<1>1. Walks!TypeOK /\ \A r \in Requests : Walking(r)
  BY DEF WalkInv
<1>2. ASSUME NEW r \in Requests, StepOf(r) PROVE WalkInv'
  <2>1. ASSUME NEW q \in Requests PROVE Walking(q)'
    <3>1. CASE q = r
      BY <1>2, <3>1 DEF StepOf
    <3>2. CASE q # r
      BY <1>1, <1>2, <3>2, OthersWalk DEF StepOf
    <3>3. QED
      BY <3>1, <3>2
  <2>2. QED
    BY <1>2, <2>1 DEF StepOf, WalkInv
<1>3. ASSUME Walks!TypeOK', UNCHANGED <<walk, log, audits>> PROVE WalkInv'
  BY <1>1, <1>3, OthersWalk DEF WalkInv
<1>4. ASSUME NEW r \in Requests,
             NEW how \in Walks!Hows \ {"answered", "opened"},
             NEW error \in {"final", "switchable"},
             NEW fails, fails <=> how = "failed", Walks!Attempted(r, how, error, fails)
      PROVE  StepOf(r)
  BY <1>1, <1>4, AttemptedWalks
<1>5. \A how \in {"unconvertible", "tokenless", "lost", "failed"} :
         how \in Walks!Hows \ {"answered", "opened"}
  BY DEF Walks!Hows
<1>6. ASSUME NEW r \in Requests, Walks!Resolve(r) PROVE WalkInv'
  BY <1>1, <1>2, <1>6, ResolveWalks
<1>7. ASSUME NEW r \in Requests, Walks!ResolveFails(r) PROVE WalkInv'
  BY <1>1, <1>2, <1>7, ResolveFailsWalks
<1>8. ASSUME NEW r \in Requests, Walks!Words(r) PROVE WalkInv'
  BY <1>1, <1>2, <1>8, WordsWalks
<1>9. ASSUME NEW r \in Requests, Walks!ConversionFails(r) PROVE WalkInv'
  <2>1. Walks!Attempted(r, "unconvertible", "final", FALSE)
    BY <1>9 DEF Walks!ConversionFails
  <2>2. QED
    BY <1>2, <1>4, <1>5, <2>1
<1>10. ASSUME NEW r \in Requests, Walks!TokenFails(r) PROVE WalkInv'
  <2>1. PICK error \in {"switchable", "final"} : Walks!Attempted(r, "tokenless", error, FALSE)
    BY <1>10 DEF Walks!TokenFails
  <2>2. QED
    BY <1>2, <1>4, <1>5, <2>1
<1>11. ASSUME NEW r \in Requests, Walks!ForwardFails(r) PROVE WalkInv'
  <2>1. PICK error \in {"switchable", "final"} : Walks!Attempted(r, "failed", error, TRUE)
    BY <1>11 DEF Walks!ForwardFails
  <2>2. QED
    BY <1>2, <1>4, <1>5, <2>1
<1>12. ASSUME NEW r \in Requests, Walks!AnswerUnconvertible(r) PROVE WalkInv'
  <2>1. Walks!Attempted(r, "lost", "final", FALSE)
    BY <1>12 DEF Walks!AnswerUnconvertible
  <2>2. QED
    BY <1>2, <1>4, <1>5, <2>1
<1>13. ASSUME NEW r \in Requests, Walks!Answers(r) PROVE WalkInv'
  BY <1>1, <1>2, <1>13, AnswersWalks
<1>14. ASSUME NEW r \in Requests, Walks!OpensStream(r) PROVE WalkInv'
  BY <1>1, <1>2, <1>14, OpensStreamWalks
<1>15. ASSUME NEW r \in Requests, Walks!GiveUp(r) PROVE WalkInv'
  BY <1>1, <1>2, <1>15, GiveUpWalks
<1>16. ASSUME NEW r \in Requests, Walks!Switch(r) PROVE WalkInv'
  BY <1>1, <1>2, <1>16, SwitchWalks
<1>17. ASSUME NEW r \in Requests, Walks!StreamEnds(r) PROVE WalkInv'
  BY <1>1, <1>2, <1>17, StreamEndsWalks
<1>18. ASSUME NEW r \in Requests, Walks!StreamDropped(r) PROVE WalkInv'
  BY <1>1, <1>2, <1>18, StreamDroppedWalks
<1>19. ASSUME NEW r \in Requests, Walks!ContextEnds(r) PROVE WalkInv'
  BY <1>1, <1>2, <1>19, ContextEndsWalks
<1>20. ASSUME NEW r \in Requests, Walks!NextRequest(r) PROVE WalkInv'
  BY <1>1, <1>2, <1>20, NextRequestWalks
<1>21. CASE Walks!RowChanges
  BY <1>1, <1>3, <1>21, RowChangesWalk
<1>22. CASE UNCHANGED Walks!vars
  <2>1. UNCHANGED <<rows, usable, affinity, walk, log, audits, changes>>
    BY <1>22 DEF Walks!vars
  <2>2. Walks!TypeOK'
    BY <1>1, <2>1 DEF Walks!TypeOK, Walks!Ids, Walks!NoRow, Walks!Hows, Walks!Entry, Walks!Record
  <2>3. QED
    BY <1>3, <2>1, <2>2
<1>23. QED
  BY <1>6, <1>7, <1>8, <1>9, <1>10, <1>11, <1>12, <1>13, <1>14, <1>15, <1>16, <1>17, <1>18, <1>19,
     <1>20, <1>21, <1>22 DEF Walks!Next

LEMMA WalkInit == RowParameters /\ Walks!Init => WalkInv
<1> SUFFICES ASSUME RowParameters, Walks!Init PROVE WalkInv
  OBVIOUS
<1>1. walk = [r \in Requests |-> Walks!Idle] /\ walk \in [Requests -> Stage]
  BY IdleStage DEF Walks!Init
<1>2. log \in [Requests -> Seq(Walks!Entry)] /\ audits \in [Requests -> Seq(Walks!Record)]
      /\ \A r \in Requests : log[r] = <<>> /\ audits[r] = <<>>
  <2> DEFINE Logs == Seq(Walks!Entry)
             Records == Seq(Walks!Record)
  <2>1. <<>> \in Logs /\ <<>> \in Records
    OBVIOUS
  <2> HIDE DEF Logs, Records
  <2>2. log \in [Requests -> Logs] /\ audits \in [Requests -> Records]
        /\ \A r \in Requests : log[r] = <<>> /\ audits[r] = <<>>
    BY <2>1 DEF Walks!Init
  <2>3. QED
    BY <2>2 DEF Logs, Records
<1>3. Walks!TypeOK
  BY <1>1, <1>2 DEF Walks!Init, Walks!TypeOK, Stage
<1>4. ASSUME NEW r \in Requests PROVE Walking(r)
  <2>1. walk[r] = Walks!Idle /\ log[r] = <<>> /\ audits[r] = <<>>
    BY <1>1, <1>2
  <2>2. Walks!Walked(r)
    BY <2>1, IdleStage DEF Walks!Walked, Walks!InTurn
  <2>3. Walks!Judged(r) /\ Walks!Recorded(r)
    BY <2>1, IdleStage DEF Walks!Judged, Walks!Recorded, Walks!Remarked, Walks!Called
  <2>4. QED
    BY <2>2, <2>3 DEF Walking
<1>5. QED
  BY <1>3, <1>4 DEF WalkInv

LEMMA LastOfLog ==
    ASSUME RowParameters, Walks!TypeOK, NEW r \in Requests
    PROVE  /\ DOMAIN log[r] = 1 .. Len(log[r]) /\ DOMAIN walk[r].cands = 1 .. Len(walk[r].cands)
           /\ walk[r].pos \in DOMAIN walk[r].cands /\ Len(log[r]) = walk[r].pos =>
                 log[r] # <<>> /\ Len(log[r]) \in DOMAIN log[r] /\ Walks!Last(log[r]) = log[r][walk[r].pos]
<1>1. log[r] \in Seq(Walks!Entry) /\ walk[r].cands \in Seq(Rows)
  BY RequestTyped
<1>2. DOMAIN log[r] = 1 .. Len(log[r]) /\ DOMAIN walk[r].cands = 1 .. Len(walk[r].cands)
  BY <1>1
<1>3. ASSUME walk[r].pos \in DOMAIN walk[r].cands, Len(log[r]) = walk[r].pos
      PROVE  log[r] # <<>> /\ Len(log[r]) \in DOMAIN log[r] /\ Walks!Last(log[r]) = log[r][walk[r].pos]
  BY <1>1, <1>2, <1>3 DEF Walks!Last
<1>4. QED
  BY <1>2, <1>3

\* A call that reached an upstream leaves one record, last, of the endpoint that
\* ended it, and none before its end; ahead of it is at most the record of the
\* words, and a request the words end is not called: however often it is switched,
\* whatever happens to the rows, and whenever its context ends (the use cases of
\* openai.go and anthropic.go, runWithFallback and failureAuditDeferral).
THEOREM OneRecordEach ==
    ASSUME RowParameters PROVE Walks!Spec => []OneRecord
<1>1. WalkInv => Walks!OneRecord
  <2> SUFFICES ASSUME WalkInv, NEW r \in Requests
               PROVE  LET silent == \/ log[r] = <<>>
                                    \/ Walks!Last(log[r]).how \in {"unconvertible", "tokenless", "lost"}
                                    \/ Walks!At(r, "dropped")
                          called == Walks!Ended(r) /\ ~silent
                      IN  /\ Len(audits[r]) = (IF Walks!Remarked(r) THEN 1 ELSE 0) + (IF called THEN 1 ELSE 0)
                          /\ Walks!Remarked(r) => Head(audits[r]).row = Head(walk[r].cands).id
                          /\ called => Walks!Last(audits[r]).row = Walks!Last(log[r]).row.id
                          /\ walk[r].verdict \in {"refused", "captured"} => log[r] = <<>>
    BY DEF Walks!OneRecord
  <2> DEFINE silent == \/ log[r] = <<>>
                       \/ Walks!Last(log[r]).how \in {"unconvertible", "tokenless", "lost"}
                       \/ Walks!At(r, "dropped")
             called == Walks!Ended(r) /\ ~silent
  <2>1. Walks!TypeOK /\ Walks!Walked(r) /\ Walks!Judged(r) /\ Walks!Recorded(r)
    BY DEF WalkInv, Walking
  <2>2. /\ log[r] \in Seq(Walks!Entry) /\ walk[r].cands \in Seq(Rows) /\ walk[r].pos \in Nat
        /\ walk[r].pending \in Walks!Ids \cup {Walks!NoRow} /\ Walks!NoRow \notin Walks!Ids
        /\ audits[r] \in Seq(Walks!Record) /\ walk[r] \in Stage
    BY <2>1, RequestTyped
  <2>3. walk[r].pc \in {"idle", "unresolved", "words", "refused", "captured", "try", "judge",
                        "streaming", "failed", "answered", "broken", "dropped"}
    BY <2>2 DEF Stage
  <2>4. walk[r].pc \in {"idle", "unresolved", "words", "refused", "captured"} => log[r] = <<>>
    BY <2>1, EmptyLog DEF Walks!Walked
  <2>5. ASSUME walk[r].pc \in {"failed", "answered", "broken", "dropped"}
        PROVE  /\ log[r] # <<>> /\ Walks!Last(log[r]).row = Walks!Candidate(r)
               /\ Walks!Candidate(r).id \in Walks!Ids
    <3>1. walk[r].pos \in DOMAIN walk[r].cands /\ Len(log[r]) = walk[r].pos
          /\ \A i \in DOMAIN log[r] : log[r][i].row = walk[r].cands[i]
      BY <2>1, <2>5 DEF Walks!Walked
    <3>2. log[r] # <<>> /\ walk[r].pos \in DOMAIN log[r] /\ Walks!Last(log[r]) = log[r][walk[r].pos]
      BY <2>1, <3>1, LastOfLog
    <3>3. Walks!Candidate(r) \in Rows
      BY <2>2, <3>1 DEF Walks!Candidate
    <3>4. QED
      BY <3>1, <3>2, <3>3 DEF Walks!Candidate, Walks!Ids
  <2>6. called <=> Walks!Called(r)
    <3>1. CASE walk[r].pc \notin {"failed", "answered", "broken"}
      BY <2>3, <2>4, <3>1 DEF Walks!Called, Walks!Ended, Walks!At
    <3>2. CASE walk[r].pc \in {"answered", "broken"}
      <4>1. log[r] # <<>> /\ Walks!Last(log[r]).how \in {"answered", "opened"}
        BY <2>1, <2>5, <3>2 DEF Walks!Judged
      <4>2. QED
        BY <3>2, <4>1 DEF Walks!Called, Walks!Ended, Walks!At
    <3>3. CASE walk[r].pc = "failed"
      <4>1. /\ log[r] # <<>> /\ Walks!Last(log[r]).how \in Walks!Hows \ {"answered", "opened"}
            /\ walk[r].pending = IF Walks!Last(log[r]).how = "failed" THEN Walks!Candidate(r).id ELSE Walks!NoRow
            /\ Walks!Candidate(r).id # Walks!NoRow
        BY <2>1, <2>2, <2>5, <3>3 DEF Walks!Judged
      <4>2. silent <=> Walks!Last(log[r]).how # "failed"
        BY <3>3, <4>1 DEF Walks!Hows, Walks!At
      <4>3. QED
        BY <3>3, <4>1, <4>2 DEF Walks!Called, Walks!Ended
    <3>4. QED
      BY <3>1, <3>2, <3>3
  <2> HIDE DEF called
  <2>7. Len(audits[r]) = (IF Walks!Remarked(r) THEN 1 ELSE 0) + (IF called THEN 1 ELSE 0)
    BY <2>1, <2>6 DEF Walks!Recorded
  <2>8. Walks!Remarked(r) => Head(audits[r]).row = Head(walk[r].cands).id
    BY <2>1 DEF Walks!Recorded
  <2>9. called => Walks!Last(audits[r]).row = Walks!Last(log[r]).row.id
    <3>1. called => walk[r].pc \in {"failed", "answered", "broken"}
      BY <2>6 DEF Walks!Called
    <3>2. called => audits[r][Len(audits[r])].row = Walks!Candidate(r).id
      BY <2>1, <2>6 DEF Walks!Recorded
    <3>3. QED
      BY <2>5, <3>1, <3>2 DEF Walks!Last
  <2>10. walk[r].verdict \in {"refused", "captured"} => log[r] = <<>>
    BY <2>1, <2>4 DEF Walks!Judged
  <2>11. QED
    BY <2>7, <2>8, <2>9, <2>10 DEF called
<1>2. QED
  BY <1>1, WalkInit, WalkStep, PTL DEF Walks!Spec, OneRecord

\* The walk goes down the candidates: nobody twice, by priority but for the
\* endpoint of the conversation, nobody after an attempt that outlived the
\* request's context, and all of them before a request whose context lives gives
\* up (resolver.go, runWithFallback).
THEOREM WalkInTurn ==
    ASSUME RowParameters PROVE Walks!Spec => []TriedInTurn
<1>1. WalkInv => Walks!TriedInTurn
  <2> SUFFICES ASSUME WalkInv, NEW r \in Requests
               PROVE  /\ \A i, j \in DOMAIN log[r] : i < j =>
                            /\ log[r][i].row # log[r][j].row
                            /\ i > 1 => log[r][i].row.priority <= log[r][j].row.priority
                            /\ ~log[r][i].late
                      /\ walk[r].pc = "failed" /\ walk[r].error = "switchable" /\ ~walk[r].done =>
                            {log[r][i].row : i \in DOMAIN log[r]} = Walks!Range(walk[r].cands)
    BY DEF Walks!TriedInTurn
  <2>1. Walks!TypeOK /\ Walks!Walked(r)
    BY DEF WalkInv, Walking
  <2>2. log[r] \in Seq(Walks!Entry) /\ walk[r].cands \in Seq(Rows) /\ walk[r].pos \in Nat
    BY <2>1, RequestTyped
  <2>3. DOMAIN log[r] = 1 .. Len(log[r]) /\ DOMAIN walk[r].cands = 1 .. Len(walk[r].cands)
    BY <2>1, LastOfLog
  <2>4. Len(log[r]) \in Nat /\ Len(log[r]) <= Len(walk[r].cands) /\ Len(walk[r].cands) \in Nat
    <3>1. walk[r].pc \notin {"idle", "unresolved"} => walk[r].pos \in 1 .. Len(walk[r].cands)
      BY <2>1, <2>3 DEF Walks!Walked
    <3>2. Len(log[r]) = CASE walk[r].pc \in {"idle", "unresolved", "words", "refused", "captured"} -> 0
                          [] walk[r].pc = "try" -> walk[r].pos - 1
                          [] OTHER -> walk[r].pos
      BY <2>1 DEF Walks!Walked
    <3>3. Len(walk[r].cands) \in Nat
      BY <2>2
    <3>4. QED
      BY <2>2, <3>1, <3>2, <3>3
  <2>5. \A i \in DOMAIN log[r] : i \in DOMAIN walk[r].cands /\ log[r][i].row = walk[r].cands[i]
    BY <2>1, <2>3, <2>4 DEF Walks!Walked
  <2>6. ASSUME NEW i \in DOMAIN log[r], NEW j \in DOMAIN log[r], i < j
        PROVE  /\ log[r][i].row # log[r][j].row
               /\ i > 1 => log[r][i].row.priority <= log[r][j].row.priority
    BY <2>1, <2>5, <2>6 DEF Walks!Walked, Walks!InTurn
  <2>7. ASSUME NEW i \in DOMAIN log[r], NEW j \in DOMAIN log[r], i < j
        PROVE  ~log[r][i].late
    <3>1. i # Len(log[r])
      BY <2>3, <2>4, <2>7
    <3>2. QED
      BY <2>1, <3>1 DEF Walks!Walked
  <2>8. ASSUME walk[r].pc = "failed", walk[r].error = "switchable", ~walk[r].done
        PROVE  {log[r][i].row : i \in DOMAIN log[r]} = Walks!Range(walk[r].cands)
    <3>1. Len(log[r]) = Len(walk[r].cands)
      BY <2>1, <2>8 DEF Walks!Walked
    <3>2. DOMAIN log[r] = DOMAIN walk[r].cands
      BY <2>3, <3>1
    <3>3. QED
      BY <2>5, <3>2 DEF Walks!Range
  <2>9. QED
    BY <2>6, <2>7, <2>8
<1>2. QED
  BY <1>1, WalkInit, WalkStep, PTL DEF Walks!Spec, TriedInTurn
=============================================================================
