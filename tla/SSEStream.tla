------------------------------- MODULE SSEStream -------------------------------
(***************************************************************************)
(* One streaming request: the conversion of an upstream OpenAI stream into *)
(* Claude's server-sent events (converter/response_converter.go,           *)
(* streaming_state.go, heartbeat.go, sse_utils.go, panic_guard.go) and the *)
(* part of handler.go that opens the upstream stream.                      *)
(*                                                                         *)
(* Three goroutines write to one client.  The scanner reads upstream lines *)
(* and emits blocks; main waits for it, for the client and for two timers, *)
(* and emits the terminal events; the heartbeat emits pings.  A goroutine  *)
(* is the list of what it has yet to do (todo), one event written to the   *)
(* client per step: the writer's mutex makes one write atomic and nothing  *)
(* more, and block, tools and the flags are read and written unlocked.     *)
(*                                                                         *)
(* A chunk is what the state machine distinguishes in it; a tool-call      *)
(* argument fragment is the token "args", and "noArgs" the empty object,   *)
(* {}, that the converter makes up.  The token counts are left out.        *)
(***************************************************************************)
EXTENDS Integers, Sequences, FiniteSets

CONSTANTS
    Calls,              \* tool call indexes of the upstream
    Chunks,             \* the chunks the upstream may send
    MaxChunkErrors,     \* 50 in the code: malformed chunks tolerated
    MaxStallRetries,    \* bound of the pre-stream stall retries
    MaxChunks           \* bound: lines of the stream

BlockTypes == {"text", "thinking", "tool_use"}
Contents == {"nil", "empty", "blank", "text", "markers"}
Finishes == {"none", "stop", "length", "tool_calls"}    \* "none" is the empty string
CallDeltas == [index : Calls, id : BOOLEAN, name : BOOLEAN, args : BOOLEAN]

ASSUME StreamAssumption ==
    /\ Calls \subseteq Nat
    /\ Chunks \subseteq [content : Contents, thinking : BOOLEAN,
                         calls : Seq(CallDeltas), finish : Finishes]
    /\ MaxChunkErrors \in Nat /\ MaxStallRetries \in Nat
    /\ MaxChunks \in Nat

VARIABLES
    main,       \* where main is: a place, or the event its select received
    outcome,    \* how the stream ended for main
    stalls,     \* stallRetry
    ready,      \* events that arrived before main was waiting for them
    scanner,    \* "off", "running", "returning" or "exited"
    input,      \* the chunk in hand, the block it asks for, the lines read;
                \* and (history) the fragments each call has been given
    todo,       \* what the scanner and main have yet to do
    block,      \* current* and sentContentBlock* of StreamingState
    tools,      \* toolCalls of StreamingState
    collected,  \* collectedContent, as the kinds of text in it
    stopReason, deltaSent,      \* finalStopReason, emittedMessageDelta
    heartbeat,  \* "on", "stopping" (hb.stop closed) or "off" (hb.done closed)
    orphanPing, \* a ping has been written after message_stop
    client, cancelled,          \* the connection, and ctx.Done()
    closed,     \* closed of sseWriter
    wire        \* what the client has received after message_start, without
                \* the pings; forgotten when it goes

upstream == <<scanner, input, collected>>
fate     == <<main, outcome, stalls, ready>>
state    == <<block, tools, stopReason, deltaSent>>
pinging  == <<heartbeat, orphanPing>>
link     == <<client, cancelled>>
out      == <<closed, wire>>
vars == <<main, outcome, stalls, ready, scanner, input, todo, block, tools,
          collected, stopReason, deltaSent, heartbeat, orphanPing, client,
          cancelled, closed, wire>>
-------------------------------------------------------------------------------
(* Values                                                                  *)

NoId   == <<"none", 0>>
Own(i) == <<"own", i>>      \* the id the upstream gave to call i
Gen(n) == <<"gen", n>>      \* an id generated for block n

NoTool == [known |-> FALSE, id |-> NoId, named |-> FALSE,
           buffer |-> <<>>, emitted |-> 0]

NoChunk == [content |-> "nil", thinking |-> FALSE, calls |-> <<>>, finish |-> "none"]

HasText(k) == k.content \in {"blank", "text", "markers"}
HasContent(k) == k.content # "nil" \/ k.thinking \/ k.calls # <<>>

\* A block event carries its content_block_index, its data, and (for the
\* properties) the tool call its block was opened for.
Event(e, b, d) == [event |-> e, index |-> b.index, owner |-> b.owner, data |-> d]

\* sseWriter.write: nothing after the first failure.  A write to a client
\* that has gone may still be swallowed by the socket.
Connection == closed' \in IF client = "gone" THEN {TRUE, closed} ELSE {closed}
Write(e) ==
    /\ wire' = IF ~closed /\ client = "there" THEN Append(wire, e) ELSE wire
    /\ Connection

Silent == UNCHANGED out

\* A step of goroutine g does the first item of its list; more follows it.
Doing(g, item) == todo[g] # <<>> /\ Head(todo[g]) = item
Then(g, more) == todo' = [todo EXCEPT ![g] = more \o Tail(@)]
Done(g) == Then(g, <<>>)
Schedule(g, items) == todo' = [todo EXCEPT ![g] = items]

Goes(place) == main' = place /\ UNCHANGED <<outcome, stalls, ready>>
EndsWith(event) == main' = event /\ outcome' = event /\ UNCHANGED <<stalls, ready>>

\* A value for main: taken by its select when main is parked there, left in
\* the channel when main has not come to it yet.
Deliver(e) ==
    CASE main = "waiting" -> EndsWith(e)
      [] main \in {"connecting", "checking", "starting"} ->
             ready' = ready \cup {e} /\ UNCHANGED <<main, outcome, stalls>>
      [] OTHER -> UNCHANGED fate
-------------------------------------------------------------------------------
Init ==
    /\ main = "connecting" /\ outcome = "none" /\ stalls = 0 /\ ready = {}
    /\ scanner = "off" /\ collected = {}
    /\ input = [chunk |-> NoChunk, next |-> <<>>, lines |-> 0,
                errors |-> 0, given |-> [i \in Calls |-> 0]]
    /\ todo = [g \in {"scanner", "main"} |-> <<>>]
    /\ block = [type |-> "text", index |-> 0, id |-> NoId, owner |-> 0,
                started |-> FALSE, finished |-> FALSE]
    /\ tools = [i \in Calls |-> NoTool]
    /\ stopReason = "none" /\ deltaSent = FALSE
    /\ heartbeat = "on" /\ orphanPing = FALSE
    /\ client = "there" /\ cancelled = FALSE
    /\ closed = FALSE /\ wire = <<>>
-------------------------------------------------------------------------------
(* What a chunk asks for                                                   *)

Fragments(calls, i) == {n \in DOMAIN calls : calls[n].index = i /\ calls[n].args}
InOrder(fragments) == [n \in 1 .. Cardinality(fragments) |-> "args"]

\* Mutant: fragments that come before the name are dropped.
AccumulatedOnceNamed(calls) ==
    [i \in Calls |->
        LET given(P(_)) == \E n \in DOMAIN calls : calls[n].index = i /\ P(calls[n])
            named == tools[i].named \/ given(LAMBDA tc : tc.name)
        IN  [known   |-> tools[i].known \/ given(LAMBDA tc : TRUE),
             id      |-> IF given(LAMBDA tc : tc.id) THEN Own(i) ELSE tools[i].id,
             named   |-> named,
             buffer  |-> IF named THEN tools[i].buffer
                             \o InOrder(Fragments(calls, i))
                         ELSE <<>>,
             emitted |-> tools[i].emitted]]

\* accumulateToolCallDelta, over the tool-call deltas of a chunk in order.
Accumulated(calls) ==
    [i \in Calls |->
        LET given(P(_)) == \E n \in DOMAIN calls : calls[n].index = i /\ P(calls[n])
        IN  [known   |-> tools[i].known \/ given(LAMBDA tc : TRUE),
             id      |-> IF given(LAMBDA tc : tc.id) THEN Own(i) ELSE tools[i].id,
             named   |-> tools[i].named \/ given(LAMBDA tc : tc.name),
             buffer  |-> tools[i].buffer
                           \o InOrder(Fragments(calls, i)),
             emitted |-> tools[i].emitted]]

Asked(type, id, owner) == [type |-> type, id |-> id, owner |-> owner]
AskedByCall(tc) ==
    Asked("tool_use", IF tc.id THEN Own(tc.index) ELSE NoId, tc.index)
Unchanged == Asked(block.type, block.id, block.owner)

DetectBlockType(k) ==
    CASE k.calls # <<>> /\ k.calls[1].name  -> AskedByCall(k.calls[1])
      [] k.calls # <<>> /\ ~k.calls[1].name -> Unchanged
      [] k.calls = <<>> /\ k.thinking       -> Asked("thinking", NoId, block.owner)
      [] k.calls = <<>> /\ ~k.thinking /\ HasText(k)
                                            -> Asked("text", NoId, block.owner)
      [] OTHER                              -> Unchanged

\* The block to start, as a sequence of at most one.
ShouldStartNewBlock(k) ==
    LET named == {n \in DOMAIN k.calls : k.calls[n].name}
        first == CHOOSE n \in named : \A m \in named : n <= m
        detected == DetectBlockType(k)
    IN  IF k.calls # <<>> /\ k.calls[1].name /\ block.type = "text"
        THEN <<AskedByCall(k.calls[1])>>
        ELSE IF k.finish # "none" THEN <<>>
        ELSE IF detected.type # block.type THEN <<detected>>
        ELSE IF block.type = "tool_use" /\ named # {}
        THEN <<AskedByCall(k.calls[first])>>
        ELSE <<>>

NextBlock(k) ==
    IF ~HasContent(k) THEN <<>>
    ELSE IF block.started THEN ShouldStartNewBlock(k) ELSE <<DetectBlockType(k)>>

Plan(k) ==
    LET opening == IF NextBlock(k) = <<>> THEN <<>>
                   ELSE IF block.started THEN <<"emptyArgs", "stopBlock", "openNext">>
                   ELSE <<"openFirst", "markStarted">>
    IN  (IF HasContent(k) THEN opening \o <<"deliver">> ELSE <<>>)
          \o (IF k.finish # "none" THEN <<"finish">> ELSE <<>>)

TranslateFinishReason(reason) ==
    CASE reason = "length"     -> "max_tokens"
      [] reason = "tool_calls" -> "tool_use"
      [] OTHER                 -> "end_turn"

-------------------------------------------------------------------------------
(* The scanner goroutine                                                   *)

Read(k, items) ==
    /\ input' = [input EXCEPT !.chunk = k, !.next = NextBlock(k),
                              !.lines = @ + 1,
                              !.given = [i \in Calls |->
                                  @[i] + Cardinality(Fragments(k.calls, i))]]
    /\ Schedule("scanner", items)

Reading ==
    /\ scanner = "running" /\ todo["scanner"] = <<>>
    /\ input.chunk.finish = "none"

\* A line with a chunk.  Every fragment of a tool call is folded into tools
\* before the block it belongs to is decided.
ReadChunk(k) ==
    /\ Reading /\ ~cancelled /\ ~closed /\ input.lines < MaxChunks
    /\ tools' = Accumulated(k.calls)
    /\ Read(k, Plan(k))
    /\ Silent
    /\ UNCHANGED <<fate, scanner, block, collected, stopReason, deltaSent,
                   pinging, link>>

\* A line that is not JSON: the stream is given up after MaxChunkErrors.
ReadMalformed ==
    /\ Reading /\ ~cancelled /\ ~closed /\ input.lines < MaxChunks
    /\ input' = [input EXCEPT !.lines = @ + 1, !.errors = @ + 1]
    /\ scanner' = IF input.errors < MaxChunkErrors THEN "running" ELSE "returning"
    /\ Silent
    /\ UNCHANGED <<fate, todo, collected, state, pinging, link>>

\* A line read after the client has gone, an error chunk, or the end of the
\* stream: with a reason for main, or (EOF, [DONE]) without.
ReadLast(reason) ==
    /\ Reading
    /\ CASE reason = "disconnected" -> cancelled \/ closed
         [] OTHER -> TRUE
    /\ IF reason = "none" THEN UNCHANGED fate ELSE Deliver(reason)
    /\ scanner' = "returning"
    /\ Silent
    /\ UNCHANGED <<input, todo, collected, state, pinging, link>>

\* guardStreamPanic: the error goes to errChan and done stays open.
Panic ==
    /\ Reading /\ ~cancelled /\ ~closed
    /\ Deliver("error")
    /\ scanner' = "exited"
    /\ Silent
    /\ UNCHANGED <<input, todo, collected, state, pinging, link>>

\* The chunk that carries the finish_reason has been dealt with.
ScannerFinish ==
    /\ scanner = "running" /\ todo["scanner"] = <<>> /\ input.chunk.finish # "none"
    /\ scanner' = "returning"
    /\ Silent
    /\ UNCHANGED <<fate, input, todo, collected, state, pinging, link>>

CloseDone ==
    /\ scanner = "returning" /\ scanner' = "exited"
    /\ Deliver("done")
    /\ Silent
    /\ UNCHANGED <<input, todo, collected, state, pinging, link>>

(* Emission.  emptyArgs, stopBlock and markFinished are shared with main.  *)

OpenBlock(index, started) ==
    LET next == input.next[1]
        id == IF next.type = "tool_use" /\ next.id = NoId THEN Gen(index) ELSE next.id
    IN  /\ block' = [block EXCEPT !.type = next.type, !.index = index, !.id = id,
                                  !.owner = next.owner, !.started = started]
        /\ tools' =     \* backfillToolCallID
             IF next.type = "tool_use" /\ tools[next.owner].id = NoId
             THEN [tools EXCEPT ![next.owner].id = id] ELSE tools
        /\ Write(Event("block_start", block', <<next.type>>))

Open ==
    /\ \/ Doing("scanner", "openFirst") /\ OpenBlock(block.index, FALSE)
       \/ Doing("scanner", "openNext") /\ OpenBlock(block.index + 1, TRUE)
    /\ Done("scanner")
    /\ UNCHANGED <<fate, upstream, stopReason, deltaSent, pinging, link>>

MarkStarted ==
    /\ Doing("scanner", "markStarted") /\ Done("scanner")
    /\ block' = [block EXCEPT !.started = TRUE]
    /\ Silent
    /\ UNCHANGED <<fate, upstream, tools, stopReason, deltaSent, pinging, link>>

DeliverText ==
    /\ block.type = "text" /\ UNCHANGED tools
    /\ IF HasText(input.chunk)
       THEN /\ collected' = collected \cup {input.chunk.content}
            /\ Write(Event("delta", block, <<"text">>))
       ELSE Silent /\ UNCHANGED collected

DeliverThinking ==
    /\ block.type = "thinking" /\ UNCHANGED <<tools, collected>>
    /\ IF input.chunk.thinking THEN Write(Event("delta", block, <<"thinking">>))
       ELSE Silent

FlushToolCallArgs ==
    LET info == tools[block.owner]
        pending == SubSeq(info.buffer, info.emitted + 1, Len(info.buffer))
    IN  /\ block.type = "tool_use" /\ UNCHANGED collected
        /\ tools' = [tools EXCEPT ![block.owner].emitted = Len(info.buffer)]
        /\ IF pending = <<>> THEN Silent ELSE Write(Event("delta", block, pending))

DeliverContent ==
    /\ Doing("scanner", "deliver") /\ Done("scanner")
    /\ DeliverText \/ DeliverThinking \/ FlushToolCallArgs
    /\ UNCHANGED <<fate, scanner, input, block, stopReason, deltaSent, pinging, link>>

CloseUnlessFinished == ~block.finished      \* mutant: started or not
CloseIfOpen == block.started /\ ~block.finished

FinishReason ==
    /\ Doing("scanner", "finish")
    /\ stopReason' = TranslateFinishReason(input.chunk.finish)
    /\ Then("scanner",
            IF CloseIfOpen
            THEN <<"emptyArgs", "markFinished", "stopBlock", "messageDelta", "markDelta">>
            ELSE <<"messageDelta", "markDelta">>)
    /\ Silent
    /\ UNCHANGED <<fate, upstream, block, tools, deltaSent, pinging, link>>

MessageDelta ==
    /\ Doing("scanner", "messageDelta") /\ Done("scanner")
    /\ Write(Event("message_delta", block, <<stopReason>>))
    /\ UNCHANGED <<fate, upstream, state, pinging, link>>

MarkDelta ==
    /\ Doing("scanner", "markDelta") /\ Done("scanner")
    /\ deltaSent' = TRUE
    /\ Silent
    /\ UNCHANGED <<fate, upstream, block, tools, stopReason, pinging, link>>

EmitEmptyToolArgs(g) ==
    LET own == {i \in Calls : tools[i].known /\ tools[i].id = block.id}
        given == \E i \in own : tools[i].buffer # <<>>
    IN  /\ Doing(g, "emptyArgs") /\ Done(g)
        /\ IF block.type # "tool_use" \/ given THEN Silent /\ UNCHANGED tools
           ELSE /\ Write(Event("delta", block, <<"noArgs">>))
                /\ tools' = [i \in Calls |->
                     IF i \in own THEN [tools[i] EXCEPT !.buffer = <<"noArgs">>]
                     ELSE tools[i]]
        /\ UNCHANGED <<fate, upstream, block, stopReason, deltaSent, pinging, link>>

StopBlock(g) ==
    /\ Doing(g, "stopBlock") /\ Done(g)
    /\ Write(Event("block_stop", block, <<>>))
    /\ UNCHANGED <<fate, upstream, state, pinging, link>>

MarkFinished(g) ==
    /\ Doing(g, "markFinished") /\ Done(g)
    /\ block' = [block EXCEPT !.finished = TRUE]
    /\ Silent
    /\ UNCHANGED <<fate, upstream, tools, stopReason, deltaSent, pinging, link>>

Shared(g) == EmitEmptyToolArgs(g) \/ StopBlock(g) \/ MarkFinished(g)

ScannerStep ==
    \/ \E k \in Chunks : ReadChunk(k)
    \/ ReadMalformed \/ Panic \/ ScannerFinish \/ CloseDone
    \/ \E reason \in {"none", "error", "disconnected"} : ReadLast(reason)
    \/ Open \/ MarkStarted \/ DeliverContent \/ FinishReason
    \/ MessageDelta \/ MarkDelta
    \/ Shared("scanner")

-------------------------------------------------------------------------------
(* The request goroutine: handler.go up to the first data, then            *)
(* ConsumeSSEStream                                                        *)

\* Mutant: Stop does not close the channel the heartbeat listens to.
WaitWithoutStopping == <<"awaitHeartbeat">>

HeartbeatStop == <<"stopHeartbeat", "awaitHeartbeat">>

\* Mutant: the error event alone, as the code had it once.
AbortWithErrorOnly == HeartbeatStop \o <<"error">>

\* AbortSSEStream and finishAbortedStream.
Abort == HeartbeatStop \o <<"closeBlock", "error", "finalDelta", "messageStop">>

\* After the select.  The deferred heartbeat.Stop ends every path.
Ending(event) ==
    CASE event = "done" -> HeartbeatStop \o
             <<"judge", "closeBlock", "defaultReason", "lastDelta", "messageStop">>
      [] event \in {"cancelled", "disconnected"} -> <<"error">> \o HeartbeatStop
      [] event \in {"error", "timedOut", "failed"} -> Abort
      [] event = "dropped" -> HeartbeatStop

\* The retry engine opens the upstream stream, or gives up.
Connect ==
    /\ main = "connecting"
    /\ Goes("checking") \/ EndsWith("failed")
    /\ Silent
    /\ UNCHANGED <<scanner, input, todo, collected, state, pinging, link>>

\* WaitForFirstData: data, a stall, a read error, or ctx.Done().
FirstData ==
    /\ main = "checking" /\ main' = "starting"
    /\ stalls' = 0 /\ UNCHANGED <<outcome, ready>>      \* the loop is left
    /\ scanner' = "running"
    /\ Silent
    /\ UNCHANGED <<input, todo, collected, state, pinging, link>>

Stalled ==
    /\ main = "checking"
    /\ IF stalls < MaxStallRetries
       THEN main' = "connecting" /\ stalls' = stalls + 1 /\ UNCHANGED <<outcome, ready>>
       ELSE EndsWith("failed")
    /\ Silent
    /\ UNCHANGED <<scanner, input, todo, collected, state, pinging, link>>

CheckFails ==
    /\ main = "checking"
    /\ IF cancelled THEN EndsWith("dropped") ELSE EndsWith("failed")
    /\ Silent
    /\ UNCHANGED <<scanner, input, todo, collected, state, pinging, link>>

\* The select of ConsumeSSEStream: any case that is ready, or wait.
Select ==
    /\ main = "starting"
    /\ \/ ready = {} /\ Goes("waiting")
       \/ \E e \in ready : EndsWith(e)
    /\ Silent
    /\ UNCHANGED <<scanner, input, todo, collected, state, pinging, link>>

\* idleTimer.C or streamMaxDuration.
TimeOut ==
    /\ main = "waiting" /\ EndsWith("timedOut")
    /\ Silent
    /\ UNCHANGED <<scanner, input, todo, collected, state, pinging, link>>

Events == {"done", "error", "disconnected", "cancelled", "timedOut", "failed",
           "dropped"}

BeginEnding ==
    /\ main \in Events /\ Goes("ending")
    /\ Schedule("main", Ending(main))
    /\ Silent
    /\ UNCHANGED <<scanner, input, collected, state, pinging, link>>

StopHeartbeat ==
    /\ Doing("main", "stopHeartbeat") /\ Done("main")
    /\ heartbeat' = IF heartbeat = "on" THEN "stopping" ELSE heartbeat
    /\ Silent
    /\ UNCHANGED <<fate, upstream, state, orphanPing, link>>

AwaitHeartbeat ==
    /\ Doing("main", "awaitHeartbeat") /\ heartbeat = "off" /\ Done("main")
    /\ Silent
    /\ UNCHANGED <<fate, upstream, state, pinging, link>>

HasToolCalls == \E i \in Calls : tools[i].known

\* Degenerate or empty output is reported before the terminal events.
Judge ==
    /\ Doing("main", "judge") /\ Done("main")
    /\ IF "markers" \in collected \/ (~HasToolCalls /\ collected \subseteq {"blank"})
       THEN Write(Event("error", block, <<>>)) ELSE Silent
    /\ UNCHANGED <<fate, upstream, state, pinging, link>>

CloseBlock ==
    /\ Doing("main", "closeBlock")
    /\ Then("main", IF CloseIfOpen THEN <<"emptyArgs", "stopBlock", "markFinished">>
                    ELSE <<>>)
    /\ Silent
    /\ UNCHANGED <<fate, upstream, state, pinging, link>>

SendError ==
    /\ Doing("main", "error") /\ Done("main")
    /\ Write(Event("error", block, <<>>))
    /\ UNCHANGED <<fate, upstream, state, pinging, link>>

DefaultReason ==
    /\ Doing("main", "defaultReason") /\ Done("main")
    /\ stopReason' = IF stopReason # "none" THEN stopReason
                     ELSE IF HasToolCalls THEN "tool_use" ELSE "end_turn"
    /\ Silent
    /\ UNCHANGED <<fate, upstream, block, tools, deltaSent, pinging, link>>

LastDelta ==
    /\ Doing("main", "lastDelta") /\ Done("main")
    /\ IF deltaSent THEN Silent ELSE Write(Event("message_delta", block, <<stopReason>>))
    /\ UNCHANGED <<fate, upstream, state, pinging, link>>

\* The message_delta of finishAbortedStream: sent again if it already was.
FinalDelta ==
    /\ Doing("main", "finalDelta") /\ Done("main")
    /\ Write(Event("message_delta", block,
                   <<IF stopReason = "none" THEN "end_turn" ELSE stopReason>>))
    /\ deltaSent' = TRUE
    /\ UNCHANGED <<fate, upstream, block, tools, stopReason, pinging, link>>

MessageStop ==
    /\ Doing("main", "messageStop") /\ Done("main")
    /\ Write(Event("message_stop", block, <<>>))
    /\ UNCHANGED <<fate, upstream, state, pinging, link>>

ReturnFromHandler ==
    /\ main = "ending" /\ todo["main"] = <<>> /\ Goes("returned")
    /\ Silent
    /\ UNCHANGED <<scanner, input, todo, collected, state, pinging, link>>

MainStep ==
    \/ Connect \/ FirstData \/ Stalled \/ CheckFails \/ Select \/ TimeOut
    \/ BeginEnding \/ StopHeartbeat \/ AwaitHeartbeat
    \/ Judge \/ CloseBlock \/ SendError
    \/ DefaultReason \/ LastDelta \/ FinalDelta \/ MessageStop
    \/ Shared("main")
    \/ ReturnFromHandler
-------------------------------------------------------------------------------
(* The heartbeat goroutine and the client                                  *)

Stopped == \E p \in DOMAIN wire : wire[p].event = "message_stop"

\* Its select may still take a tick after hb.stop was closed.
Ping ==
    /\ heartbeat \in {"on", "stopping"}
    /\ Connection
    /\ heartbeat' = IF closed' THEN "off" ELSE heartbeat
    /\ orphanPing' = (orphanPing \/ (Stopped /\ ~closed))
    /\ UNCHANGED <<fate, upstream, todo, state, link, wire>>

HeartbeatExits ==
    /\ heartbeat = "stopping" \/ (heartbeat = "on" /\ cancelled)
    /\ heartbeat' = "off"
    /\ Silent
    /\ UNCHANGED <<fate, upstream, todo, state, orphanPing, link>>

ClientGoes ==
    /\ client = "there" /\ client' = "gone"
    /\ wire' = <<>>
    /\ UNCHANGED <<fate, upstream, todo, state, pinging, cancelled, closed>>

\* net/http notices, and cancels the request's context.
ContextDone ==
    /\ client = "gone" /\ ~cancelled /\ cancelled' = TRUE
    /\ Deliver("cancelled")
    /\ Silent
    /\ UNCHANGED <<upstream, todo, state, pinging, client>>

Next ==
    \/ MainStep \/ ScannerStep
    \/ Ping \/ HeartbeatExits \/ ClientGoes \/ ContextDone

Spec == Init /\ [][Next]_vars

\* Goroutines are scheduled and writes return; the timers of the select and
\* of the retry engine fire; a body that has been closed ends the scanner.
Fairness ==
    /\ WF_vars(MainStep)
    /\ WF_vars(HeartbeatExits)
    /\ WF_vars(ScannerStep /\ (~Reading \/ main = "returned"))

FairSpec == Spec /\ Fairness
-------------------------------------------------------------------------------
(* Properties                                                              *)

Items == {"openFirst", "openNext", "markStarted", "deliver", "finish",
          "messageDelta", "markDelta", "emptyArgs", "stopBlock", "markFinished",
          "stopHeartbeat", "awaitHeartbeat", "judge", "closeBlock", "error",
          "defaultReason", "lastDelta", "finalDelta", "messageStop"}

Ids == {NoId} \cup {Own(i) : i \in Calls} \cup {Gen(n) : n \in 0..MaxChunks}

TypeOK ==
    /\ main \in Events \cup {"connecting", "checking", "starting", "waiting",
                             "ending", "returned"}
    /\ outcome \in Events \cup {"none"}
    /\ stalls \in 0..MaxStallRetries
    /\ ready \subseteq {"done", "error", "disconnected", "cancelled"}
    /\ scanner \in {"off", "running", "returning", "exited"}
    /\ input.chunk \in Chunks \cup {NoChunk} /\ input.lines \in 0..MaxChunks
    /\ input.errors \in 0..MaxChunkErrors + 1 /\ Len(input.next) \in 0..1
    /\ \A g \in {"scanner", "main"} : todo[g] \in Seq(Items)
    /\ block.type \in BlockTypes /\ block.index \in 0..MaxChunks
    /\ block.id \in Ids /\ block.owner \in Calls \cup {0}
    /\ \A i \in Calls : /\ tools[i].id \in Ids
                        /\ tools[i].buffer \in Seq({"args", "noArgs"})
                        /\ tools[i].emitted \in 0..Len(tools[i].buffer)
    /\ collected \subseteq {"blank", "text", "markers"}
    /\ stopReason \in {"none", "end_turn", "max_tokens", "tool_use"}
    /\ heartbeat \in {"on", "stopping", "off"}
    /\ {orphanPing, deltaSent, cancelled, closed} \subseteq BOOLEAN
    /\ client \in {"there", "gone"}

Positions(e) == {p \in DOMAIN wire : wire[p].event = e}

\* The SSE protocol of the Messages API, for the event just received (each
\* step adds one at most): blocks are numbered from 0 and never overlap, a
\* delta or a stop belongs to the open block, nothing but an error follows
\* message_delta, and nothing at all follows message_stop.
Protocol ==
    wire = <<>> \/
    LET last == wire[Len(wire)]
        earlier(e) == Positions(e) \ {Len(wire)}
        blocks == Cardinality(earlier("block_start"))
        noneOpen == blocks = Cardinality(earlier("block_stop"))
    IN  /\ earlier("message_stop") = {}
        /\ CASE last.event = "block_start" -> noneOpen /\ last.index = blocks
             [] last.event \in {"delta", "block_stop"} ->
                    ~noneOpen /\ last.index = blocks - 1
             [] last.event \in {"message_delta", "message_stop"} -> noneOpen
             [] last.event = "error" -> TRUE
        /\ earlier("message_delta") # {} => last.event \in {"error", "message_stop"}
        /\ last.event = "message_stop" => earlier("message_delta") # {}

\* When its timers fire, main does not wait for the scanner, which may be in
\* the middle of a chunk.
ScannerLeftBehind == outcome = "timedOut"

\* Unless main leaves the scanner behind, whatever the upstream sends and
\* wherever it breaks off (error chunk, read error, panic, malformed chunks,
\* stalls before the first data), the client never sees an ill-formed
\* stream, although two goroutines emit it.
WellFormed == ScannerLeftBehind \/ Protocol

\* ... and the stream of a client that stays is always brought to its end:
\* a truncated stream aborts the session instead of retrying.
StreamsComplete ==
    main = "returned" /\ client = "there"
        => Cardinality(Positions("message_delta")) >= 1
           /\ Cardinality(Positions("message_stop")) = 1

\* heartbeat.Stop is synchronous: not even a stream given up by a timer gets
\* a ping after its message_stop.
NoPingAfterStop == ~orphanPing

\* Whoever of the three goroutines writes, what the client reads is well
\* formed (and every variable has its type).
WireWellFormed == TypeOK /\ WellFormed /\ NoPingAfterStop

\* The argument fragments of call i that the client has received, each as the
\* delta it came in and its place there.
ArgsOf(d) == {n \in DOMAIN d : d[n] = "args"}
Delivered(i) ==
    UNION {{p} \X ArgsOf(wire[p].data) : p \in {q \in Positions("delta") : wire[q].owner = i}}

\* Every argument fragment of the call whose block is open has reached the
\* client when the next line is read, those included that came before the
\* call's name did (the comment of accumulateToolCallDelta tells of the bug).
ArgumentsKeepUp ==
    scanner = "running" /\ todo["scanner"] = <<>> /\ client = "there"
    /\ block.started /\ block.type = "tool_use"
    => Cardinality(Delivered(block.owner)) = input.given[block.owner]

\* Whatever the upstream and the client do, the handler returns ...
HandlerReturns == <>(main = "returned")

\* ... and the scanner does not outlive it: its send on errChan cannot block.
NoGoroutineLeak == main = "returned" ~> scanner \in {"off", "exited"}

\* Both goroutines of a stream come to their ends.
StreamEnds == HandlerReturns /\ NoGoroutineLeak

\* response_converter.go:882-884: a stream that is terminated with an error
\* still ends content_block_stop, error, message_delta, message_stop.
QuietAfterStop ==
    \A p \in Positions("message_stop") : p = Len(wire)

\* streaming_state.go:202: "For parallel tool calls: a new tool_use with a
\* name means a new block".
EveryCallHasItsBlock ==
    main = "returned" /\ outcome = "done" /\ client = "there"
        => \A i \in Calls : tools[i].named =>
               \E p \in Positions("block_start") :
                   wire[p].data = <<"tool_use">> /\ wire[p].owner = i

\* response_converter.go:841: "{}" only for a block "if it never received any
\* argument deltas".
EmptyArgsOnlyWhenNone ==
    \A p, q \in Positions("delta") :
        wire[p].index = wire[q].index /\ wire[p].data = <<"noArgs">>
            => ~ \E n \in DOMAIN wire[q].data : wire[q].data[n] = "args"
===============================================================================
