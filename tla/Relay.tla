------------------------------- MODULE Relay -------------------------------
(***************************************************************************)
(* A streamed answer on its way from the upstream to the client and into   *)
(* the store, in the protocols of either (converter/openai_sse.go,         *)
(* response_stream.go, util/openai.go, util/anthropic.go, the streams of   *)
(* usecase/openai_chat.go, openai_response.go, anthropic_message.go).      *)
(*                                                                         *)
(* An Anthropic upstream says one content block after another, numbered    *)
(* from 0; a chat upstream says text, reasoning and tool calls, the calls  *)
(* numbered from 0, all under choice 0.  Every piece is named by its place *)
(* in what was said.  Names, usage and finish reasons are left out.        *)
(***************************************************************************)
EXTENDS Integers, Sequences, FiniteSets, SequencesExt

CONSTANT MaxSaid  \* bound: the events of an answer

VARIABLES
    upstream, client,  \* "anthropic", "chat" or "response", the client's only
    ids,       \* the upstream gives its tool calls ids
    said,      \* the answer: a sequence of [kind, at]
    choices,   \* ChatCompletionStreamAggregator, or the blocks of an Anthropic relay
    messages,  \* StreamItemState: the output indexes with a message item,
    calls,     \* and the tool calls with an item; or SSEContentBlockTracker's two
    shown,     \* the events about items, or blocks, the client got: [event, item]
    stored,    \* the answer in the store task, or none: a sequence of at most one
    end

vars == <<upstream, client, ids, said, choices, messages, calls, shown, stored, end>>

Silence == [text |-> <<>>, thinking |-> <<>>, tools |-> <<>>]

Init ==
    /\ upstream \in {"anthropic", "chat"} /\ client \in {"anthropic", "chat", "response"}
    /\ ids \in {TRUE, upstream = "anthropic"}
    /\ said = <<>> /\ choices = <<>> /\ messages = {} /\ calls = {}
    /\ shown = <<>> /\ stored = <<>> /\ end = "no"

------------------------------------------------------------------------------
(* ChatCompletionStreamAggregator *)

\* Mutation of MergeCall: the index of a call is ignored.
MergeCallBlindly(tools, chunk) ==
    LET more == IF tools # <<>> THEN tools ELSE <<[at |-> chunk.tool, args |-> <<>>]>>
    IN  [i \in DOMAIN more |-> [more[i] EXCEPT !.args = @ \o chunk.args]]

\* choiceState.mergeToolCallDelta
MergeCall(tools, chunk) ==
    LET known == \E i \in DOMAIN tools : tools[i].at = chunk.tool
        more == IF known THEN tools ELSE Append(tools, [at |-> chunk.tool, args |-> <<>>])
    IN  [i \in DOMAIN more |->
            IF more[i].at = chunk.tool THEN [more[i] EXCEPT !.args = @ \o chunk.args] ELSE more[i]]

\* choiceState.mergeDelta
MergeDelta(choice, chunk) ==
    CASE chunk.kind = "text"     -> [choice EXCEPT !.text = @ \o chunk.args]
      [] chunk.kind = "thinking" -> [choice EXCEPT !.thinking = @ \o chunk.args]
      [] chunk.kind = "tool"     -> [choice EXCEPT !.tools = MergeCall(@, chunk)]
      [] OTHER                   -> choice

\* ChatCompletionStreamAggregator.Add
Add(chunk) ==
    LET known == \E i \in DOMAIN choices : choices[i].index = chunk.choice
        more == IF known THEN choices
                ELSE Append(choices, [index |-> chunk.choice, answer |-> Silence])
    IN  [i \in DOMAIN more |->
            IF more[i].index = chunk.choice
            THEN [more[i] EXCEPT !.answer = MergeDelta(@, chunk)] ELSE more[i]]

------------------------------------------------------------------------------
(* WriteResponseDeltaFromChatChunk *)

\* An item is the message of the answer, a tool call, or one nobody has seen.
Message == <<"message", 0>>
Call(tool) == <<"call", tool>>
Event(event, item) == <<[event |-> event, item |-> item]>>

\* initMessageOutputItem and the delta, all under one item id.
ShowText(chunk) ==
    /\ messages' = messages \cup {chunk.choice}
    /\ shown' = shown \o (IF chunk.choice \in messages THEN <<>> ELSE Event("added", Message))
                      \o Event("delta", Message)
    /\ UNCHANGED calls

\* Mutation of ShowCall: the item is named by the id in the chunk, which the
\* chunks after the first do not have.
ShowCallById(chunk) ==
    /\ calls' = IF chunk.named THEN calls \cup {chunk.tool} ELSE calls
    /\ shown' = shown \o (IF chunk.named THEN Event("added", Call(chunk.tool)) ELSE <<>>)
                      \o (IF chunk.args = <<>> THEN <<>> ELSE Event("delta", <<"new", chunk.tool>>))
    /\ UNCHANGED messages

\* writeToolCallDeltas: a call nobody has named yet is passed over.
ShowCall(chunk) ==
    LET known == chunk.tool \in calls
    IN  /\ calls' = IF chunk.named THEN calls \cup {chunk.tool} ELSE calls
        /\ shown' = shown \o (IF chunk.named /\ ~known THEN Event("added", Call(chunk.tool)) ELSE <<>>)
                          \o (IF (chunk.named \/ known) /\ chunk.args # <<>>
                              THEN Event("delta", Call(chunk.tool)) ELSE <<>>)
        /\ UNCHANGED messages

Show(chunk) ==
    \/ chunk.kind \in {"text", "thinking"} /\ ShowText(chunk)
    \/ chunk.kind = "tool" /\ ShowCall(chunk)
    \/ chunk.kind = "role" /\ UNCHANGED <<messages, calls, shown>>

------------------------------------------------------------------------------
(* ToAnthropicSSEResponse: a client knows a block by its number only *)

Block(number) == <<"block", number>>

\* handleTextDelta, handleThinkingDelta: told apart by the key in
\* startedTextBlocks, with one number for both.
BeginText(chunk) ==
    LET key == IF chunk.kind = "text" THEN chunk.choice ELSE -(chunk.choice + 1)
    IN  /\ messages' = messages \cup {key}
        /\ shown' = shown \o (IF key \in messages THEN <<>> ELSE Event("added", Block(chunk.choice)))
                          \o Event("delta", Block(chunk.choice))
        /\ UNCHANGED calls

\* handleToolCallDelta: a call begins with the chunk that has its id.
BeginCall(chunk) ==
    LET begins == chunk.named /\ ids /\ chunk.tool \notin calls
    IN  /\ calls' = IF begins THEN calls \cup {chunk.tool} ELSE calls
        /\ shown' = shown \o (IF begins THEN Event("added", Block(chunk.tool)) ELSE <<>>)
                          \o (IF chunk.args = <<>> THEN <<>> ELSE Event("delta", Block(chunk.tool)))
        /\ UNCHANGED messages

Begin(chunk) ==
    \/ chunk.kind \in {"text", "thinking"} /\ BeginText(chunk)
    \/ chunk.kind = "tool" /\ BeginCall(chunk)

------------------------------------------------------------------------------
(* What the upstream says, and what becomes of it *)

Relayed(chunk) ==
    /\ choices' = Add(chunk)
    /\ \/ client = "response" /\ Show(chunk)
       \/ client = "anthropic" /\ upstream = "chat" /\ Begin(chunk)
       \/ client \in {upstream, "chat"} /\ UNCHANGED <<messages, calls, shown>>
    /\ UNCHANGED <<upstream, client, ids, stored, end>>

Says(kind, at) ==
    /\ end = "no" /\ Len(said) < MaxSaid
    /\ said' = Append(said, [kind |-> kind, at |-> at])

Piece == Len(said) + 1
Blocks == Cardinality({i \in DOMAIN said : said[i].kind \in {"block", "call"}})
Chunk(choice, kind, tool, named, args) ==
    [choice |-> choice, kind |-> kind, tool |-> tool, named |-> named, args |-> args]

\* A text or thinking block begins: convertContentBlockStartToChunks gives a
\* chunk of choice 0 with the role.
BlockStarts ==
    /\ upstream = "anthropic" /\ Says("block", Blocks)
    /\ Relayed(Chunk(0, "role", 0, FALSE, <<>>))

\* A tool call begins: a tool_use block, numbered among the blocks, or the
\* first chunk of a call, numbered among the calls.
CallStarts ==
    /\ Says("call", Blocks)
    /\ Relayed(Chunk(0, "tool", Blocks, TRUE, <<>>))

\* What the last block is about; a block that is no call may hold either.
Fits(kind, s) == IF kind = "tool" THEN s.kind \in {"call", "tool"} ELSE s.kind \in {"block", kind}

\* convertContentBlockDeltaToChunks puts a delta under the choice that has the
\* number of its block, where the block began under choice 0.  An Anthropic
\* client gets the event as it is, and the blocks are put together by number
\* (AnthropicSSEStreamAggregator), as if all were one choice.
AnthropicDelta(kind) ==
    /\ upstream = "anthropic" /\ said # <<>> /\ Fits(kind, Last(said))
    /\ Says(kind, Last(said).at)
    /\ Relayed(Chunk(IF client = "anthropic" THEN 0 ELSE Last(said).at,
                     kind, Last(said).at, FALSE, <<Piece>>))

\* A chat upstream may take up any call again.
ChatDelta(kind) ==
    /\ upstream = "chat"
    /\ \E tool \in IF kind = "tool" THEN 0 .. Blocks - 1 ELSE {0} :
          /\ Says(kind, tool)
          /\ Relayed(Chunk(0, kind, tool, FALSE, <<Piece>>))

\* Choices[0].Message, or that of no choice at all.
Completion == IF choices = <<>> THEN Silence ELSE choices[1].answer

\* FinalizeResponseFromChatCompletion: ensureItemID gives a reasoning item the id
\* of the message, and a call that came without an id a new one.
Done ==
    (IF Completion.thinking = <<>> THEN <<>> ELSE Event("done", Message))
    \o [i \in DOMAIN Completion.tools |->
           [event |-> "done", item |-> IF ids THEN Call(Completion.tools[i].at) ELSE <<"new", i>>]]
    \o (IF Completion.text = <<>> THEN <<>> ELSE Event("done", Message))

\* The upstream ends the stream: the answer goes to the store.  A Response
\* without output items is not stored at all (convertResponseOutput).
StreamEnds ==
    /\ end = "no" /\ said # <<>>
    /\ end' = "whole"
    /\ shown' = IF client = "response" THEN shown \o Done ELSE shown
    /\ stored' = IF client = "response" /\ Completion = Silence THEN <<>> ELSE <<Completion>>
    /\ UNCHANGED <<upstream, client, ids, said, choices, messages, calls>>

\* The upstream breaks off, or the client is gone: nothing is stored.
StreamBreaks ==
    /\ end = "no"
    /\ end' = "broken"
    /\ UNCHANGED <<upstream, client, ids, said, choices, messages, calls, shown, stored>>

Next ==
    \/ BlockStarts \/ CallStarts
    \/ \E kind \in {"text", "thinking", "tool"} : AnthropicDelta(kind) \/ ChatDelta(kind)
    \/ StreamEnds \/ StreamBreaks

Spec == Init /\ [][Next]_vars

------------------------------------------------------------------------------
(* Properties *)

\* The sequence lists the set, in ascending order.
Lists(s, S) == ToSet(s) = S /\ \A i, j \in DOMAIN s : i < j => s[i] < s[j]

\* The answer is made of what was said at the places P: the pieces in order, the calls
\* in order, and each argument with its call.
IsOf(answer, P) ==
    LET ofKind(kind) == {i \in P : said[i].kind = kind}
    IN  /\ Lists(answer.text, ofKind("text")) /\ Lists(answer.thinking, ofKind("thinking"))
        /\ Lists([k \in DOMAIN answer.tools |-> answer.tools[k].at], {said[i].at : i \in ofKind("call")})
        /\ \A k \in DOMAIN answer.tools :
              Lists(answer.tools[k].args, {i \in ofKind("tool") : said[i].at = answer.tools[k].at})

Kept(P) == IF stored = <<>> THEN IsOf(Silence, P) ELSE IsOf(stored[1], P)

\* What the choice that is stored is told of: in a translation from Anthropic the first
\* block, and of the later ones only that they are calls.
Told(i) == upstream = "anthropic" /\ client # "anthropic" => said[i].at = 0 \/ said[i].kind = "call"

\* A stream that ends is stored with all it said, in order and each argument with
\* its call, but for one thing: in a translation from Anthropic what the later
\* blocks say is lost (see AnswerKept).
OnlyLaterBlocksLost == end = "whole" => Kept({i \in DOMAIN said : Told(i)})

\* Every call lands in the session with its history (README.md:75).
AnswerKept == end = "whole" => Kept(DOMAIN said)

Seen(event) == {i \in DOMAIN shown : shown[i].event = event}
Items(event) == {shown[i].item : i \in Seen(event)}

\* Every item is added once, and before what is said in it.
AddedOnceFirst ==
    /\ \A i, j \in Seen("added") : shown[i].item = shown[j].item => i = j
    /\ \A i \in Seen("delta") : \E j \in Seen("added") : j < i /\ shown[j].item = shown[i].item

\* No two of text, thinking and calls, which would share the number 0.
OneSort == \A i, j \in DOMAIN said : said[i].kind # said[j].kind => {"call", "tool"} = {said[i].kind, said[j].kind}

\* A Response client sees every item added once, before its deltas, and closed
\* in the end; not so when several blocks are translated, or calls have no id.
\* An Anthropic client of a chat upstream sees every block begin once, before its
\* deltas; not so when an answer mixes text, thinking and calls.
ItemsPaired ==
    /\ client = "response" /\ (upstream = "anthropic" => \A i \in DOMAIN said : said[i].at = 0)
        => AddedOnceFirst /\ (end = "whole" /\ ids => Items("done") = Items("added"))
    /\ client = "anthropic" /\ upstream = "chat" /\ ids /\ OneSort => AddedOnceFirst
=============================================================================
