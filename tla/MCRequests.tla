----------------------------- MODULE MCRequests -----------------------------
(* What a request meets on its way to an upstream: its client's buckets, its *)
(* candidates (RequestPath) and the guard of an endpoint (Guard).  They      *)
(* share no state: a behaviour moves the one its focus names.  The upstream  *)
(* never heals here: a healed one can do less, and MCLive is about it.       *)
EXTENDS Guard, RequestPath, TLC

VARIABLE focus

Row(id, pool, priority, oauth) ==
    [id |-> id, pool |-> pool, priority |-> priority, oauth |-> oauth]
FourRows == {Row(1, 0, 1, FALSE), Row(2, 0, 1, TRUE), Row(3, 0, 2, FALSE), Row(4, 1, 1, FALSE)}

rateVars == <<now, requests, tokens, call, mark, charged>>
walkVars == <<rows, usable, affinity, walk, log, audits, changes>>

MCInit ==
    /\ Init /\ Rates!Init /\ Walks!Init
    /\ focus \in {"guard", "rates", "walks"}
    \* what is not looked at begins in one of its initial states only
    /\ focus # "walks" => rows = {}

MCNext ==
    \/ focus = "guard" /\ Next /\ ~healed' /\ UNCHANGED <<focus, rateVars, walkVars>>
    \/ focus = "rates" /\ Rates!Next /\ UNCHANGED <<focus, vars, walkVars>>
    \/ focus = "walks" /\ Walks!Next /\ UNCHANGED <<focus, vars, rateVars>>

MCSpec == MCInit /\ [][MCNext]_<<focus, vars, rateVars, walkVars>>

CallSymmetry == Permutations(Calls)
=============================================================================
