------------------------------ MODULE Bulkhead ------------------------------
(***************************************************************************)
(* What the bulkhead promises a caller: of the calls to one endpoint no    *)
(* more than MaxConcurrent are on the wire at a time, any of them may be   *)
(* next, and each eventually gives its place back.  Module Guard is shown  *)
(* to implement this with breaker, retries and streams in between.         *)
(***************************************************************************)
EXTENDS Naturals, FiniteSets

CONSTANTS Calls, MaxConcurrent

VARIABLE holders  \* the calls that hold a slot

Init == holders = {}

Acquire(c) ==
    /\ c \notin holders
    /\ Cardinality(holders) < MaxConcurrent
    /\ holders' = holders \cup {c}

Release(c) ==
    /\ c \in holders
    /\ holders' = holders \ {c}

Next == \E c \in Calls : Acquire(c) \/ Release(c)

Spec == Init /\ [][Next]_holders

FairSpec == Spec /\ \A c \in Calls : WF_holders(Release(c))
=============================================================================
