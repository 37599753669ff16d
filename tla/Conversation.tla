----------------------------- MODULE Conversation -----------------------------
(***************************************************************************)
(* Conversations over several turns.  A client sends its whole history     *)
(* with every turn; the proxy keeps nothing of it but the cache of thought *)
(* signatures and, while it converts, the configuration of the one global  *)
(* converter (converter/factory.go, request_converter.go,                  *)
(* thought_signature_cache.go).  Both are shared by all conversations.     *)
(* Client and upstream are the environment: the client echoes what it was  *)
(* answered and runs the calls it was given, or is interrupted.            *)
(***************************************************************************)
EXTENDS Conversion, FiniteSets

CONSTANTS
    Convs,      \* the conversations: numbers
    Setups,     \* what the conversations may be: functions from Convs to
                \* [front, provider, endpoint]
    Openers,    \* conv -> histories a Claude client may begin with
    Replies,    \* kinds of answer: sequences of "text", "thinking", "call"
    MaxTurns,
    CacheSize   \* thoughtSignatureCacheMaxEntries

ASSUME ConversationAssumption ==
    /\ Convs \subseteq Nat
    /\ Setups \subseteq [Convs -> [front : {"stream", "nonstream", "codex"},
                                 provider : {"gemini", "ollama", "other"},
                                 endpoint : {"chat", "responses"}]]
    /\ MaxTurns \in Nat /\ CacheSize \in Nat \ {0}

VARIABLES
    kind,     \* one of the Setups
    history,  \* conv -> what the client will send next
    pc,       \* conv -> "client", "convert" or "upstream"
    turn,     \* conv -> turns begun
    request,  \* conv -> the last request built: messages, signatures, config
    cfg,      \* the configuration of the global converter
    cache,    \* thought signatures: the ids it holds, oldest first
    signed    \* (history) the ids that came with a signature, in their order

vars == <<kind, history, pc, turn, request, cfg, cache, signed>>

NoConv == 0
NoRequest == [msgs |-> <<>>, items |-> <<>>, builtFor |-> NoConv, sigs |-> <<>>]

ClaudeFront(c) == kind[c].front # "codex"

Text(c, n) == <<"text", c, n>>
Output(id) == <<"output", id[2], id[3]>>

Init ==
    /\ kind \in Setups
    /\ history = [c \in Convs |-> <<>>]
    /\ pc = [c \in Convs |-> "client"]
    /\ turn = [c \in Convs |-> 0]
    /\ request = [c \in Convs |-> NoRequest]
    /\ cfg = NoConv
    /\ cache = <<>> /\ signed = <<>>

-----------------------------------------------------------------------------
(* The client                                                              *)

(* The calls of the last message it was given, in their order.             *)
LastMessage(c) == history[c][Len(history[c])]

Outstanding(c) ==
    IF history[c] = <<>> THEN <<>>
    ELSE IF ClaudeFront(c)
    THEN IF LastMessage(c).role = "user" THEN <<>>
         ELSE SelectSeq(LastMessage(c).content, LAMBDA b : b.type = "tool_use")
    ELSE SelectSeq(history[c], LAMBDA b :
             b.type = "function_call"
             /\ \A i \in DOMAIN history[c] :
                    history[c][i].type = "function_call_output" => history[c][i].id # b.id)

Result(b) == Block("tool_result", b.id, Output(b.id))
Prompt(c) == Block("text", <<>>, Text(c, turn[c] + 1))

Results(calls) == [i \in DOMAIN calls |-> Result(calls[i])]

(* What the user message after an answer may be.  The calls have been run, *)
(* one of them may be reported twice, or the user has broken in before or  *)
(* while they ran.                                                         *)
UserContents(c) ==
    LET calls == Outstanding(c)
        all == Results(calls)
        prompt == <<Prompt(c)>>
    IN  IF calls = <<>> THEN {prompt}
        ELSE {all, Reverse(all) \o prompt, prompt \o all,
              Append(all, Head(all)), <<Head(all)>> \o prompt, prompt}

(* A new prompt, results, or both; once at most it begins with a history   *)
(* from elsewhere.                                                         *)
ClaudeSpeaks(c) ==
    /\ pc[c] = "client" /\ ClaudeFront(c) /\ turn[c] < MaxTurns
    /\ \/ /\ history[c] = <<>>
          /\ \E opener \in Openers[c] : history' = [history EXCEPT ![c] = opener]
       \/ /\ history[c] # <<>>
          /\ \E content \in UserContents(c) :
                history' = [history EXCEPT ![c] = Append(@, Message("user", content))]
    /\ turn' = [turn EXCEPT ![c] = @ + 1]
    /\ pc' = [pc EXCEPT ![c] = "convert"]
    /\ UNCHANGED <<kind, request, cfg, cache, signed>>

(* The outputs of all calls, then perhaps a prompt.                        *)
CodexSpeaks(c) ==
    /\ pc[c] = "client" /\ ~ClaudeFront(c) /\ turn[c] < MaxTurns
    /\ LET calls == Outstanding(c)
           outputs == [i \in DOMAIN calls |->
                          Block("function_call_output", calls[i].id, Output(calls[i].id))]
           prompt == <<Block("user", <<>>, Text(c, turn[c] + 1))>>
       IN  \E items \in {outputs, outputs \o prompt} :
              items # <<>> /\ history' = [history EXCEPT ![c] = @ \o items]
    /\ turn' = [turn EXCEPT ![c] = @ + 1]
    /\ pc' = [pc EXCEPT ![c] = "convert"]
    /\ UNCHANGED <<kind, request, cfg, cache, signed>>

-----------------------------------------------------------------------------
(* The proxy                                                               *)

(* ConvertClaudeToOpenAIWithConfigAndMapping: the handler puts its config  *)
(* into the one converter there is ...                                     *)
SetOpenAIConfig(c) ==
    /\ pc[c] = "convert" /\ ClaudeFront(c)
    /\ cfg' = c
    /\ pc' = [pc EXCEPT ![c] = "build"]
    /\ UNCHANGED <<kind, history, turn, request, cache, signed>>

(* resolveThoughtSignatureExtraContent *)
Placeholder == <<"skip_thought_signature_validator">>

AnySignature(provider, id) ==
    IF provider # "gemini" THEN <<>> ELSE IF cache = <<>> THEN Placeholder ELSE cache[Len(cache)]

Signature(provider, id) ==
    IF provider # "gemini" THEN <<>> ELSE IF Contains(cache, id) THEN id ELSE Placeholder

CallsOf(msgs) == FlattenSeq([m \in DOMAIN msgs |-> msgs[m].calls])

ForEndpoint(c, msgs) ==
    IF kind[c].endpoint = "responses" THEN convertMessagesToResponsesInput(msgs) ELSE <<>>

(* ... and the converter builds the request with whatever config it has.   *)
Build(c) ==
    /\ pc[c] = "build"
    /\ LET provider == kind[cfg].provider
           msgs == BuildRequest(provider, history[c])
           calls == CallsOf(msgs)
       IN  request' = [request EXCEPT ![c] =
              [msgs |-> msgs, items |-> ForEndpoint(c, msgs), builtFor |-> cfg,
               sigs |-> [i \in DOMAIN calls |-> Signature(provider, calls[i])]]]
    /\ pc' = [pc EXCEPT ![c] = "upstream"]
    /\ UNCHANGED <<kind, history, turn, cfg, cache, signed>>

(* ConvertResponsesToOpenAIRequest: no converter, no config.               *)
BuildForCodex(c) ==
    /\ pc[c] = "convert" /\ ~ClaudeFront(c)
    /\ LET msgs == responsesInputToMessages(history[c]) IN
       request' = [request EXCEPT ![c] = [msgs |-> msgs, items |-> ForEndpoint(c, msgs),
                                          builtFor |-> c, sigs |-> <<>>]]
    /\ pc' = [pc EXCEPT ![c] = "upstream"]
    /\ UNCHANGED <<kind, history, turn, cfg, cache, signed>>

-----------------------------------------------------------------------------
(* The upstream's answer, and what the client keeps of it                  *)

CallNumber(reply, i) == Cardinality({j \in 1..i : reply[j] = "call"})

Parts(c, reply) ==
    [i \in DOMAIN reply |->
        IF reply[i] = "call"
        THEN Block("tool_use", <<"call_", c, 10 * turn[c] + CallNumber(reply, i)>>, "tool")
        ELSE Block(reply[i], <<>>, Text(c, 100 * turn[c] + i))]

Calls(blocks) == SelectSeq(blocks, LAMBDA b : b.type = "tool_use")
IdsOf(blocks) == [i \in DOMAIN Calls(blocks) |-> Calls(blocks)[i].id]

(* thoughtSignatureCache.remember, for one id after the other: the oldest  *)
(* goes when there is no room.                                             *)
Remember(held, id) ==
    IF Contains(held, id) THEN held
    ELSE Append(IF Len(held) >= CacheSize THEN Tail(held) ELSE held, id)

(* A stream's signatures are kept under the normalized id, as that is what *)
(* the client gets to see.                                                 *)
Received(c, parts) ==
    IF kind[c].front = "stream" THEN StreamedContent(parts)
    ELSE IF kind[c].front = "nonstream" THEN ParseResponse(parts)
    ELSE ResponsesOutput(parts)

AsItems(blocks) ==
    [i \in DOMAIN blocks |->
        IF blocks[i].type = "text" THEN Block("assistant", <<>>, blocks[i].val)
        ELSE Block("function_call", blocks[i].id, blocks[i].val)]

Reply(c) ==
    /\ pc[c] = "upstream"
    /\ \E reply \in Replies :
          LET received == Received(c, Parts(c, reply))
              ids == IF ClaudeFront(c) /\ kind[c].provider = "gemini" THEN IdsOf(received) ELSE <<>>
          IN  /\ history' = [history EXCEPT ![c] =
                    IF ClaudeFront(c) THEN Append(@, Message("assistant", received))
                                      ELSE @ \o AsItems(received)]
              /\ cache' = FoldLeft(Remember, cache, ids)
              /\ signed' = signed \o ids
    /\ pc' = [pc EXCEPT ![c] = "client"]
    /\ UNCHANGED <<kind, turn, request, cfg>>

Next == \E c \in Convs : \/ ClaudeSpeaks(c) \/ CodexSpeaks(c) \/ SetOpenAIConfig(c)
                         \/ Build(c) \/ BuildForCodex(c) \/ Reply(c)

Spec == Init /\ [][Next]_vars

-----------------------------------------------------------------------------
\* Every variable holds a value of its kind; the cache keeps its bound and
\* holds no id twice.
TypeOK ==
    /\ pc \in [Convs -> {"client", "convert", "build", "upstream"}]
    /\ turn \in [Convs -> 0..MaxTurns]
    /\ cfg \in Convs \cup {NoConv}
    /\ \A c \in Convs : request[c].builtFor \in Convs \cup {NoConv}
    /\ Len(cache) <= CacheSize
    /\ \A i, j \in DOMAIN cache : i # j => cache[i] # cache[j]

(* The tool messages right behind position p.                              *)
Behind(msgs, p) ==
    LET last == CHOOSE n \in p..Len(msgs) :
                   /\ \A k \in p + 1..n : msgs[k].role = "tool"
                   /\ n < Len(msgs) => msgs[n + 1].role # "tool"
    IN  SubSeq(msgs, p + 1, last)

(* Where a result belongs by Claude's rules: to a call of the message just *)
(* before, or of a server tool in the message itself.                      *)
Blocks(c, m) == IF m = 0 THEN {} ELSE ToSet(history[c][m].content)

Callers(c, m, id) ==
    {call \in Blocks(c, m) \cup Blocks(c, m - 1) : call.type \in CallTypes /\ call.id = id}

ResultsIn(c, m) == {b \in Blocks(c, m) : isToolResultBlock(b)}

(* The results given where they belong, and the ids of those that are not: *)
(* their calls are gone from the history, or were answered before.         *)
Given(c) ==
    UNION {{b \in ResultsIn(c, m) : \E call \in Callers(c, m, b.id) : ~IsAdvisorCall(call)} :
               m \in DOMAIN history[c]}

Strays(c) ==
    IF ClaudeFront(c)
    THEN UNION {{b.id : b \in {x \in ResultsIn(c, m) : Callers(c, m, x.id) = {}}} :
                    m \in DOMAIN history[c]}
    ELSE {}

\* What strict upstreams demand of the messages, whatever the client has sent:
\* each call is answered exactly once, right behind the message that makes it,
\* and no tool message stands anywhere else.  The one thing that is let
\* through is a stray result of the client's that follows another result.
ToolProtocol ==
    /\ TypeOK
    /\ \A c \in Convs :
           LET msgs == request[c].msgs IN
           /\ \A p \in DOMAIN msgs : msgs[p].calls # <<>> =>
                 LET answers == Behind(msgs, p) IN
                 /\ \A i \in DOMAIN msgs[p].calls :
                       Cardinality({k \in DOMAIN answers :
                                       answers[k].id = msgs[p].calls[i]}) = 1
                 /\ \A k \in DOMAIN answers :
                       \/ Contains(msgs[p].calls, answers[k].id)
                       \/ k > 1 /\ answers[k].id \in Strays(c)
           /\ \A p \in DOMAIN msgs : msgs[p].role = "tool" =>
                 p > 1 /\ MayFollow(msgs[p - 1])

Tokens(msgs) == UNION {ToSet(msgs[m].content) : m \in DOMAIN msgs}

\* The result of every call that was run reaches the upstream, as the answer
\* to that call unless the provider knows no calls; none is replaced by the
\* empty answer that is made up for calls without a result.
ResultsDelivered ==
    \A c \in Convs : ClaudeFront(c) /\ pc[c] = "upstream" =>
        \A b \in Given(c) :
            LET msgs == request[c].msgs IN
            IF kind[request[c].builtFor].provider = "ollama" THEN b.val \in Tokens(msgs)
            ELSE \E p \in DOMAIN msgs :
                    /\ Contains(msgs[p].calls, b.id)
                    /\ Contains(Behind(msgs, p), ToolMessage(b.id, <<b.val>>))

UserTokens(c) ==
    IF ClaudeFront(c)
    THEN {b.val : b \in {x \in UNION {ToSet(history[c][m].content) : m \in
                 {n \in DOMAIN history[c] : history[c][n].role = "user"}} :
                             x.type \in {"text", "image"}}}
    ELSE {history[c][i].val : i \in {n \in DOMAIN history[c] : history[c][n].type = "user"}}

\* Whatever the user has written or shown reaches a chat upstream, next to
\* calls, results and images, and however often it has broken in.
PromptsDelivered ==
    \A c \in Convs : pc[c] = "upstream" /\ kind[c].endpoint = "chat" =>
        UserTokens(c) \subseteq Tokens(request[c].msgs)

\* Nothing a client has to say is lost on the way to a chat upstream.
EverythingDelivered == ResultsDelivered /\ PromptsDelivered

\* No call is sent with the signature of another one, in its conversation or
\* any other; the placeholder stands in only for a signature that the cache
\* has given up for CacheSize newer ones, or that never came.
Recent == {signed[i] : i \in {j \in DOMAIN signed : Len(signed) - j < CacheSize}}

SignaturesRestored ==
    [][\A c \in Convs : Build(c) =>
          LET calls == CallsOf(request'[c].msgs) IN
          \A i \in DOMAIN calls :
              kind[cfg].provider = "gemini" =>
                  request'[c].sigs[i] = IF calls[i] \in Recent THEN calls[i] ELSE Placeholder]_vars

\* The same rules for an upstream of the Responses kind: every call has one
\* output, behind it and before the next message, stray results apart.
ItemProtocol ==
    \A c \in Convs :
        LET items == request[c].items IN
        \A p \in {n \in DOMAIN items : /\ items[n].type \in {"function_call", "function_call_output"}
                                       /\ items[n].id \notin Strays(c)} :
            LET other == IF items[p].type = "function_call"
                         THEN {q \in p + 1..Len(items) : items[q].type = "function_call_output"}
                         ELSE {q \in 1..p - 1 : items[q].type = "function_call"}
                mates == {q \in other : items[q].id = items[p].id}
            IN  \E q \in mates :
                   /\ mates = {q}
                   /\ \A r \in (p + 1..q - 1) \cup (q + 1..p - 1) :
                         items[r].type \in {"function_call", "function_call_output"}

\* What request_converter.go says of the conversion: it uses the specific
\* config that the caller passed.
BuiltWithOwnConfig ==
    \A c \in Convs : request[c].builtFor \in {NoConv, c}
===============================================================================
