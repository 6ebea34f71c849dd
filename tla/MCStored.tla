------------------------------ MODULE MCStored ------------------------------
(* What is kept of a conversation: its session, messages and tools           *)
(* (SessionStore), the streamed answer in it (Relay), an image in its        *)
(* messages (Blob) and the links by which it is shared (Share).  A behaviour *)
(* moves the one its focus names.                                            *)
EXTENDS MCSessionStore, Stored

VARIABLE focus

imageVars == <<row, object, message, imageWriter, inflight, job, draining, retry, imagePurge,
               fits, home, lost, faults>>
shareVars == <<links, used, listed, members, deadline, request, failed, expired, raced>>
answerVars == <<upstream, client, ids, said, choices, begun, calls, shown, stored, end>>

MCInit ==
    /\ Init /\ Images!Init /\ Shares!Init /\ Answers!Init
    /\ focus \in {"sessions", "images", "shares", "answers"}
    \* what is not looked at begins in one of its initial states only
    /\ focus # "images" => ~fits /\ home = [w \in ImageWriters |-> CHOOSE p \in Pods : TRUE]
    /\ focus # "answers" => upstream = "chat" /\ client = "chat" /\ ids

MCNext ==
    \/ focus = "sessions" /\ Next /\ UNCHANGED <<focus, imageVars, shareVars, answerVars>>
    \/ focus = "images" /\ Images!Next /\ UNCHANGED <<focus, vars, shareVars, answerVars>>
    \/ focus = "shares" /\ Shares!Next /\ UNCHANGED <<focus, vars, imageVars, answerVars>>
    \/ focus = "answers" /\ Answers!Next /\ UNCHANGED <<focus, vars, imageVars, shareVars>>

MCSpec == MCInit /\ [][MCNext]_<<focus, vars, imageVars, shareVars, answerVars>>
=============================================================================
