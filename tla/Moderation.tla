----------------------------- MODULE Moderation -----------------------------
(***************************************************************************)
(* What the trigger words do to a request before it is forwarded           *)
(* (usecase/openai.go, anthropic.go, trigger_capture.go over               *)
(* application/trigger/service.go).  Each question a request asks of the   *)
(* matcher takes its read lock anew, so a rebuild may fall between any     *)
(* two: what was matched under one set of words is judged under another.   *)
(*                                                                         *)
(* The content is the set of words it holds, and the last question of the  *)
(* user another; a conversation may have no such question, and a Decision  *)
(* has none and is never captured.  The record the words leave is remark,  *)
(* and with that of capture goes the history before the last question.     *)
(* What they say and the protocol of the reply are left out; a playground  *)
(* request, which starts with skip set, does not differ.                   *)
(***************************************************************************)
EXTENDS Integers

CONSTANTS Requests, Words,
          MaxRebuilds  \* bound: rebuilds of the matcher

VARIABLES
    loaded,    \* the matcher and actionByID: the action of a word, or "none"
    req,       \* the requests
    steady,    \* history: the words no rebuild has touched since the check
    rebuilds

vars == <<loaded, req, steady, rebuilds>>

Effects == {"deny", "omit", "capture"}

Kinds == {"asked", "unasked", "decision"}
Fresh == [pc |-> "check", kind |-> "asked", text |-> {}, question |-> {}, matched |-> {},
          captures |-> {}, remark |-> "none", skip |-> FALSE]

Init ==
    /\ loaded \in [Words -> Effects \cup {"none"}]
    /\ req = [r \in Requests |-> Fresh]
    /\ steady = [r \in Requests |-> {}]
    /\ rebuilds = 0

\* TriggerService.Check, CaptureIDs, OmitIDs and DenyIDs; a word that is no
\* longer loaded counts as deny.
Check(text) == {w \in text : loaded[w] # "none"}
CaptureIDs(ids) == {w \in ids : loaded[w] = "capture"}
OmitIDs(ids) == {w \in ids : loaded[w] = "omit"}

\* Mutation of DenyIDs: one word that is let through lets all through.
DenyAllOrNone(ids) ==
    LET denied == {w \in ids : loaded[w] \in {"deny", "none"}}
    IN  IF denied = ids THEN ids ELSE {}

DenyIDs(ids) == {w \in ids : loaded[w] \in {"deny", "none"}}

At(r, pc) == req[r].pc = pc
Become(r, with) == req' = [req EXCEPT ![r] = with] /\ UNCHANGED <<loaded, steady, rebuilds>>
Goto(r, pc) == Become(r, [req[r] EXCEPT !.pc = pc])

------------------------------------------------------------------------------
(* One request *)

\* checkContent; the hits of the matched words are counted (module HitSync).
CheckContent(r) ==
    \E kind \in Kinds, text \in SUBSET Words : \E question \in SUBSET text :
        LET matched == Check(text)
        IN  /\ At(r, "check") /\ (kind # "asked" => question = {})
            /\ req' = [req EXCEPT ![r] = [Fresh EXCEPT
                           !.pc = IF matched = {} THEN "forwarded" ELSE "deny",
                           !.kind = kind, !.text = text, !.question = question, !.matched = matched]]
            /\ steady' = [steady EXCEPT ![r] = Words]
            /\ UNCHANGED <<loaded, rebuilds>>

Deny(r) ==
    /\ At(r, "deny")
    /\ IF DenyIDs(req[r].matched) # {}
       THEN Become(r, [req[r] EXCEPT !.pc = "refused", !.remark = "deny"])
       ELSE Goto(r, IF req[r].kind = "decision" THEN "omit" ELSE "capture")

\* captureHitOnLastQuestion, the words first and then where they stand.
Captures(r) ==
    LET captures == CaptureIDs(req[r].matched)
    IN  /\ At(r, "capture")
        /\ Become(r, [req[r] EXCEPT !.pc = IF captures = {} THEN "aside" ELSE "question",
                                    !.captures = captures])

LastQuestion(r) ==
    LET hit == Check(req[r].question) \cap req[r].captures # {}
    IN  /\ At(r, "question")
        /\ Become(r, [req[r] EXCEPT !.pc = IF hit THEN "captured" ELSE "aside",
                                    !.remark = IF hit THEN "capture" ELSE "none"])

\* omitAndCaptureHit: both kinds matched and there is a last question, so the
\* history is kept on the side and recorded, and the request goes on.
AsideOmits(r) ==
    /\ At(r, "aside")
    /\ Goto(r, IF OmitIDs(req[r].matched) = {} THEN "omit" ELSE "asideCaptures")

AsideCaptures(r) ==
    /\ At(r, "asideCaptures")
    /\ Become(r, [req[r] EXCEPT !.pc = "omit",
                    !.remark = IF req[r].kind = "asked" /\ CaptureIDs(req[r].matched) # {}
                               THEN "capture" ELSE "none"])

\* CtxKeySkipStore: the conversation of this request is not stored.
Omit(r) ==
    /\ At(r, "omit")
    /\ Become(r, [req[r] EXCEPT !.pc = "forwarded",
                                !.skip = OmitIDs(req[r].matched) # {}])

Ended(r) == req[r].pc \in {"refused", "captured", "forwarded"}

\* The caller sends its next request.
NextRequest(r) ==
    /\ Ended(r)
    /\ req' = [req EXCEPT ![r] = Fresh]
    /\ steady' = [steady EXCEPT ![r] = {}]
    /\ UNCHANGED <<loaded, rebuilds>>

------------------------------------------------------------------------------

\* TriggerService.Rebuild holds the write lock: words and actions change at once.
Rebuild ==
    /\ rebuilds < MaxRebuilds
    /\ rebuilds' = rebuilds + 1
    /\ loaded' \in [Words -> Effects \cup {"none"}]
    /\ steady' = [r \in Requests |->
                      IF Ended(r) THEN steady[r]
                      ELSE {w \in steady[r] : loaded'[w] = loaded[w]}]
    /\ UNCHANGED req

Next ==
    \/ \E r \in Requests :
          \/ CheckContent(r) \/ Deny(r) \/ Captures(r) \/ LastQuestion(r)
          \/ AsideOmits(r) \/ AsideCaptures(r) \/ Omit(r) \/ NextRequest(r)
    \/ Rebuild

Spec == Init /\ [][Next]_vars

------------------------------------------------------------------------------
(* Properties *)

\* While r is not ended, loaded is what its steady words were matched under;
\* afterwards only a rebuild can part them, so the verdict is judged at its end.
JustEnded(r) == Ended(r)' /\ ~Ended(r)

Held(r, action) == {w \in req'[r].matched \cap steady'[r] : loaded[w] = action}

VerdictRight(r) ==
    LET verdict == req'[r].pc
    IN  /\ Held(r, "deny") # {} => verdict = "refused"
        /\ Held(r, "capture") \cap req'[r].question # {} => verdict # "forwarded"
        /\ verdict = "forwarded" /\ Held(r, "omit") # {} =>
              /\ req'[r].skip
              /\ Held(r, "capture") # {} /\ req'[r].kind = "asked" => req'[r].remark = "capture"
        /\ verdict = "refused" => req'[r].matched # Held(r, "omit") \cup Held(r, "capture")

\* Whatever the rebuilds in between, a word that stays loaded takes effect: deny
\* refuses; capture in the last question is never sent upstream; omit is not
\* stored, and beside a capture elsewhere still keeps the history before the last
\* question.  And nobody is refused for words that all stay harmless.
WordsTakeEffect == [][\A r \in Requests : JustEnded(r) => VerdictRight(r)]_vars

Progress == [pc : {"check", "deny", "capture", "question", "aside", "asideCaptures", "omit",
                   "refused", "captured", "forwarded"},
             kind : Kinds, text : SUBSET Words, question : SUBSET Words,
             matched : SUBSET Words, captures : SUBSET Words,
             remark : {"none", "deny", "capture"}, skip : BOOLEAN]

\* The type of every variable.
TypeOK ==
    /\ loaded \in [Words -> Effects \cup {"none"}]
    /\ req \in [Requests -> Progress]
    /\ steady \in [Requests -> SUBSET Words]
    /\ rebuilds \in Nat

Matched(r) == req[r].matched \cap steady[r]

\* What WordsTakeEffect needs: a request on its way has passed only the questions
\* that its steady words, by the action they still have, let it pass.
Known(r) ==
    /\ req[r].pc \in {"capture", "question", "aside", "asideCaptures", "omit"} =>
          \A w \in Matched(r) : loaded[w] # "deny"
    /\ At(r, "question") =>
          \A w \in Matched(r) : loaded[w] = "capture" => w \in req[r].captures
    /\ req[r].pc \in {"aside", "asideCaptures", "omit"} =>
          \A w \in Matched(r) : loaded[w] = "capture" => w \notin req[r].question
    /\ req[r].kind # "asked" => req[r].question = {}
    /\ At(r, "omit") /\ req[r].kind = "asked" =>
          \A v, w \in Matched(r) :
             loaded[v] = "omit" /\ loaded[w] = "capture" => req[r].remark = "capture"

WordsKnown == \A r \in Requests : Known(r)
=============================================================================
