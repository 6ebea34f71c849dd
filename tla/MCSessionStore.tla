--------------------------- MODULE MCSessionStore ---------------------------
(* Bounds for SessionStore: one key sends a question, its continuation that  *)
(* ends in a tool call and a fork of it; another key asks the same question. *)
EXTENDS SessionStore, TLC

CONSTANTS k1, k2
Round(key, convo, tools) == [key |-> key, convo |-> convo, tools |-> tools]
Rounds == {Round(k1, <<"q">>, {"t"}), Round(k1, <<"q", "call">>, {}),
           Round(k2, <<"q">>, {})}
Symmetry == Permutations(Writers)
=============================================================================
