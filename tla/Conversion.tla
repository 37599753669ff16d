------------------------------ MODULE Conversion ------------------------------
(***************************************************************************)
(* The pure part of the format conversions: what a conversation the client *)
(* sends (Claude messages, or items of the Responses API) becomes on its   *)
(* way upstream (Chat Completions messages, or Responses items again), and *)
(* what an upstream answer becomes on its way back.  converter/claude.go,  *)
(* openai.go, normalizer.go, responses.go; client/responses_converter.go.  *)
(*                                                                         *)
(* A text, an image and the text of a tool result are tokens; the content  *)
(* of a message is the sequence of its tokens.  Models, tools, sampling    *)
(* parameters and token counts are left out.                               *)
(***************************************************************************)
EXTENDS Integers, Sequences, SequencesExt

(* A block of a Claude message.  The id is that of the call a tool_use     *)
(* makes or a result answers.                                              *)
Block(type, id, val) == [type |-> type, id |-> id, val |-> val]
Message(role, content) == [role |-> role, content |-> content]

CallTypes == {"tool_use", "server_tool_use"}

isToolResultBlock(b) == b.type \in {"tool_result", "web_search_tool_result"}

(* A message for the upstream: the tokens of its content, the calls of an  *)
(* assistant message, the call a tool message answers.                     *)
Upward(role, content) == [role |-> role, content |-> content, calls |-> <<>>, id |-> <<>>]
ToolMessage(id, content) == [Upward("tool", content) EXCEPT !.id = id]

Filler == <<"filler", 0, 0>>     \* ".", "[thinking]"

-----------------------------------------------------------------------------
(* Identifiers of tool calls                                               *)

(* An id is <<prefix, conversation, number>>.  A stream's ids are put into *)
(* Claude's form; characters Claude does not allow are not modelled.       *)
NormalizeToolCallID(id) == <<"toolu_", id[2], id[3]>>

-----------------------------------------------------------------------------
(* Claude request -> internal -> Chat Completions                          *)

(* stripAdvisorBlocks: calls of the advisor and their results are removed  *)
(* from the history of a request that does not offer that tool.            *)
IsAdvisorCall(b) == b.type \in CallTypes /\ b.val = "advisor"

AdvisorIDs(history) ==
    {b.id : b \in {x \in UNION {ToSet(history[m].content) : m \in DOMAIN history} :
                       IsAdvisorCall(x)}}

stripAdvisorBlocks(history) ==
    LET ids == AdvisorIDs(history)
        Kept(b) == ~IsAdvisorCall(b) /\ ~(b.type = "tool_result" /\ b.id \in ids)
    IN  [m \in DOMAIN history |->
            [history[m] EXCEPT !.content = SelectSeq(@, Kept)]]

(* convertInternalMessageToOpenAI, one block at a time.  Text before the   *)
(* first call or image is kept apart from what follows it.                 *)

Merge(acc, b) ==
    CASE b.type \in {"text", "compaction"} /\ ~acc.tools /\ ~acc.multi ->
             [acc EXCEPT !.simple = Append(@, b.val)]
      [] b.type \in {"text", "compaction"} /\ (acc.tools \/ acc.multi) ->
             [acc EXCEPT !.parts = Append(@, b.val)]
      [] b.type = "image" ->
             [acc EXCEPT !.parts = (IF acc.multi THEN @ ELSE @ \o acc.simple) \o <<b.val>>,
                         !.simple = IF acc.multi THEN @ ELSE <<>>,
                         !.multi = TRUE]
      [] b.type \in CallTypes ->
             [acc EXCEPT !.tools = TRUE, !.calls = Append(@, b.id)]
      [] OTHER -> acc

Merged(blocks) ==
    FoldLeft(Merge, [simple |-> <<>>, parts |-> <<>>, multi |-> FALSE,
                     tools |-> FALSE, calls |-> <<>>], blocks)

convertInternalMessageToOpenAI(role, blocks) ==
    LET acc == Merged(blocks)
        content == IF acc.multi /\ ~acc.tools THEN acc.parts
                   ELSE IF acc.simple # <<>> THEN acc.simple
                   ELSE IF acc.tools THEN acc.parts
                   ELSE IF role = "assistant" THEN <<Filler>> ELSE <<>>
    IN  [Upward(role, content) EXCEPT !.calls = acc.calls]

(* One message: the results of a user message come before its text; after  *)
(* a message that makes calls come their results.  A provider without      *)
(* function calling gets the results as text of the user.                  *)
ResultMessage(provider, b) ==
    IF provider = "ollama" THEN Upward("user", <<b.val>>) ELSE ToolMessage(b.id, <<b.val>>)

ResultMessages(provider, msg) ==
    LET results == SelectSeq(msg.content, isToolResultBlock)
    IN  [i \in DOMAIN results |-> ResultMessage(provider, results[i])]

OwnMessage(msg) ==
    LET others == SelectSeq(msg.content, LAMBDA b : ~isToolResultBlock(b))
    IN  IF others = <<>> THEN <<>> ELSE <<convertInternalMessageToOpenAI(msg.role, others)>>

(* Mutant: the results always come first.                                  *)
ResultsFirst(provider, msg) == ResultMessages(provider, msg) \o OwnMessage(msg)

BuildMessage(provider, msg) ==
    IF \E i \in DOMAIN msg.content : msg.content[i].type \in CallTypes
    THEN OwnMessage(msg) \o ResultMessages(provider, msg)
    ELSE ResultMessages(provider, msg) \o OwnMessage(msg)

(* validateAndFixMessageSequence, first pass.                              *)
Filled(msg) ==
    IF msg.role = "assistant" /\ msg.content = <<>> /\ msg.calls = <<>>
    THEN [msg EXCEPT !.content = <<Filler>>] ELSE msg

FirstPass(msgs) ==
    LET kept == SelectSeq(msgs, LAMBDA m : m.role # "tool" \/ m.id # <<>>)
    IN  [i \in DOMAIN kept |-> Filled(kept[i])]

(* Second pass: a tool message stays only behind an assistant message with *)
(* calls or another tool message; a call that is not answered by the tool  *)
(* messages right behind it gets an empty answer.                          *)
Answered(msgs, i) ==
    {msgs[j].id : j \in {k \in i + 1..Len(msgs) :
                            \A n \in i + 1..k : msgs[n].role = "tool"}}

MayFollow(prev) == prev.role = "tool" \/ (prev.role = "assistant" /\ prev.calls # <<>>)

Unanswered(msgs, i) == SelectSeq(msgs[i].calls, LAMBDA id : id \notin Answered(msgs, i))

SecondPass(msgs) ==
    LET Add(result, i) ==
            IF msgs[i].role = "tool" /\ (result = <<>> \/ ~MayFollow(result[Len(result)]))
            THEN result
            ELSE LET missing == Unanswered(msgs, i) IN
                 Append(result, msgs[i]) \o [k \in DOMAIN missing |-> ToolMessage(missing[k], <<>>)]
    IN  FoldLeft(Add, <<>>, [i \in DOMAIN msgs |-> i])

(* Third pass: of several answers to one call within a block of tool       *)
(* messages the last one stays, in the place of the first.                 *)
Twin(result, msg) ==
    {p \in DOMAIN result : result[p].id = msg.id
                           /\ \A q \in p..Len(result) : result[q].role = "tool"}

ThirdPass(msgs) ==
    LET Add(result, msg) ==
            IF msg.role = "tool" /\ Twin(result, msg) # {}
            THEN [result EXCEPT ![CHOOSE p \in Twin(result, msg) : TRUE] = msg]
            ELSE Append(result, msg)
    IN  FoldLeft(Add, <<>>, msgs)

(* Mutant: tool answers are not paired with the calls.                     *)
FirstAndThirdPass(msgs) == ThirdPass(FirstPass(msgs))

validateAndFixMessageSequence(msgs) == ThirdPass(SecondPass(FirstPass(msgs)))

BuildRequest(provider, history) ==
    LET stripped == stripAdvisorBlocks(history)
    IN  validateAndFixMessageSequence(
            FlattenSeq([m \in DOMAIN stripped |-> BuildMessage(provider, stripped[m])]))

-----------------------------------------------------------------------------
(* Responses request -> Chat Completions                                   *)

(* The input items of a Codex client, as blocks: message (with a role),    *)
(* function_call, function_call_output.                                    *)
Flushed(acc) ==
    IF acc.pending = <<>> THEN acc
    ELSE [msgs |-> Append(acc.msgs, [Upward("assistant", <<>>) EXCEPT !.calls = acc.pending]),
          pending |-> <<>>]

(* Mutant: pending calls wait for the next message.                        *)
AddItemUnflushed(acc, item) ==
    CASE item.type = "function_call" -> [acc EXCEPT !.pending = Append(@, item.id)]
      [] item.type = "function_call_output" ->
             [acc EXCEPT !.msgs = Append(@, ToolMessage(item.id, <<item.val>>))]
      [] OTHER -> [Flushed(acc) EXCEPT !.msgs = Append(@, Upward(item.type, <<item.val>>))]

AddItem(acc, item) ==
    CASE item.type = "function_call" -> [acc EXCEPT !.pending = Append(@, item.id)]
      [] item.type = "function_call_output" ->
             [Flushed(acc) EXCEPT !.msgs = Append(@, ToolMessage(item.id, <<item.val>>))]
      [] OTHER -> [Flushed(acc) EXCEPT !.msgs = Append(@, Upward(item.type, <<item.val>>))]

responsesInputToMessages(items) ==
    Flushed(FoldLeft(AddItem, [msgs |-> <<>>, pending |-> <<>>], items)).msgs

-----------------------------------------------------------------------------
(* Chat Completions -> Responses input, for an upstream of that kind.      *)
(* Only text survives; a message without any is dropped.                   *)

IsImage(token) == token[1] = "image"

Item(type, id, content) == [type |-> type, id |-> id, content |-> content]

ItemsOf(msg) ==
    LET text == SelectSeq(msg.content, LAMBDA t : ~IsImage(t))
        said == IF text = <<>> THEN <<>> ELSE <<Item(msg.role, <<>>, text)>>
    IN  IF msg.role = "tool" THEN <<Item("function_call_output", msg.id, msg.content)>>
        ELSE said \o [k \in DOMAIN msg.calls |-> Item("function_call", msg.calls[k], <<>>)]

convertMessagesToResponsesInput(msgs) == FlattenSeq([m \in DOMAIN msgs |-> ItemsOf(msgs[m])])

-----------------------------------------------------------------------------
(* The upstream's answer -> Claude                                         *)

(* An answer: the parts "text", "thinking" and calls in the order they     *)
(* came.  Without a stream, ParseResponse puts thinking first, then the    *)
(* text, then the calls, whose ids it keeps; a stream keeps the order and  *)
(* normalizes the ids.  An answer without any part is not modelled here.   *)
Of(parts, types) == SelectSeq(parts, LAMBDA b : b.type \in types)

ParseResponse(parts) ==
    Of(parts, {"thinking"}) \o Of(parts, {"text"}) \o Of(parts, {"tool_use"})

StreamedContent(parts) ==
    [i \in DOMAIN parts |->
        IF parts[i].type = "tool_use" THEN [parts[i] EXCEPT !.id = NormalizeToolCallID(@)]
        ELSE parts[i]]

(* The output of a Responses answer: the text, then the calls.             *)
ResponsesOutput(parts) == Of(parts, {"text"}) \o Of(parts, {"tool_use"})
===============================================================================
