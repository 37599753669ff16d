--------------------------- MODULE ResponsesBridge ---------------------------
(***************************************************************************)
(* The answer of an upstream on its way to whoever reads the stream: the   *)
(* lines on the network and, if the upstream speaks the Responses format,  *)
(* the goroutine that rewrites them as Chat Completions lines into a pipe  *)
(* (client/responses_converter.go, the end of CreateChatCompletionStream). *)
(* The upstream is the environment: it keeps to its own format, and it may *)
(* fail, hang up or fall silent at any point.                              *)
(*                                                                         *)
(* A text is one token; the n-th piece of call c's arguments is <<c, n>>.  *)
(***************************************************************************)
EXTENDS Integers, Sequences

CONSTANTS
    Setups,      \* the kinds of exchange: [format, caller, parallel]
    MaxCalls,    \* tool calls of one answer
    Pieces,      \* fragments the arguments of one call come in
    MaxTexts,    \* text deltas of one answer
    MaxNoise,    \* lines of the upstream that are not JSON
    MaxInFlight  \* lines on the network at a time

(* In format "responses", `parallel` says that argument events name their  *)
(* call and that calls may overlap; in "chat", that fragments of several   *)
(* calls may alternate.  The caller reads a stream or assembles it.        *)
ASSUME BridgeAssumption ==
    /\ Setups \subseteq [format : {"chat", "responses"},
                         caller : {"stream", "assemble"}, parallel : BOOLEAN]
    /\ {MaxCalls, Pieces, MaxTexts, MaxNoise} \subseteq Nat /\ MaxInFlight \in Nat \ {0}

VARIABLES
    setup,
    up,      \* what the upstream has said so far, and how it ended
    net,     \* the lines on the network, how they end, whether the reader
             \* has closed its side
    bridge,  \* the goroutine's locals
    pipe     \* the io.Pipe, as net

bridgeVars == <<setup, up, net, bridge, pipe>>

CallIds == 1..MaxCalls
Fragment(c, n) == <<c, n>>

(* Lines.  Kinds of a chat stream: text, head (a delta with id and name),  *)
(* args, finish, done, error, noise; of a Responses stream: text, added,   *)
(* delta, argsDone, completed, failed, noise.                              *)
Line(kind, call, frags) == [kind |-> kind, call |-> call, frags |-> frags, reason |-> "none"]
Plain(kind) == Line(kind, 0, <<>>)
Reasoned(kind, reason) == [Plain(kind) EXCEPT !.reason = reason]

Channel(queue, end, closed) == [queue |-> queue, end |-> end, closed |-> closed]
Fresh == Channel(<<>>, "open", FALSE)
Silence == [texts |-> 0, opened |-> 0, given |-> [c \in CallIds |-> 0],
            complete |-> {}, noise |-> 0, end |-> "no"]
IdleBridge == [pc |-> "off", calls |-> <<>>, last |-> 0, todo |-> <<>>, ending |-> "no"]

-----------------------------------------------------------------------------
(* The upstream                                                            *)

Says(line) ==
    /\ Len(net.queue) < MaxInFlight /\ net.end = "open" /\ ~net.closed
    /\ net' = [net EXCEPT !.queue = Append(@, line)]

Speaking == up.end = "no" /\ UNCHANGED <<setup, bridge, pipe>>

SayText ==
    /\ Speaking /\ up.texts < MaxTexts
    /\ Says(Plain("text"))
    /\ up' = [up EXCEPT !.texts = @ + 1]

SayNoise ==
    /\ Speaking /\ up.noise < MaxNoise
    /\ Says(Plain("noise"))
    /\ up' = [up EXCEPT !.noise = @ + 1]

(* A Responses upstream that names no call in its argument events sends    *)
(* one call after the other.                                               *)
SayCall ==
    /\ Speaking /\ up.opened < MaxCalls
    /\ setup.format = "responses" /\ ~setup.parallel => up.complete = 1..up.opened
    /\ Says(Line(IF setup.format = "chat" THEN "head" ELSE "added", up.opened + 1, <<>>))
    /\ up' = [up EXCEPT !.opened = @ + 1]

SayPiece ==
    /\ Speaking
    /\ \E c \in (1..up.opened) \ up.complete :
          /\ up.given[c] < Pieces
          /\ setup.parallel \/ c = up.opened
          /\ LET piece == <<Fragment(c, up.given[c] + 1)>> IN
             IF setup.format = "chat" THEN Says(Line("args", c, piece))
             ELSE Says(Line("delta", IF setup.parallel THEN c ELSE 0, piece))
          /\ up' = [up EXCEPT !.given[c] = @ + 1]

SayCallDone ==
    /\ Speaking /\ setup.format = "responses"
    /\ \E c \in (1..up.opened) \ up.complete :
          /\ Says(Line("argsDone", IF setup.parallel THEN c ELSE 0, <<>>))
          /\ up' = [up EXCEPT !.complete = @ \cup {c}]

(* The answer is complete.  A chat upstream may leave the finish reason    *)
(* out and send [DONE] alone.                                              *)
SayFinished ==
    /\ Speaking
    /\ \/ /\ setup.format = "chat"
          /\ \/ Says(Reasoned("finish", IF up.opened > 0 THEN "tool_calls" ELSE "stop"))
             \/ Says(Reasoned("finish", "length"))
             \/ Says(Plain("done"))
       \/ /\ setup.format = "responses" /\ up.complete = 1..up.opened
          /\ \/ Says(Reasoned("completed", "completed"))
             \/ Says(Reasoned("completed", "incomplete"))
    /\ up' = [up EXCEPT !.end = "finished"]

SayFailed ==
    /\ Speaking
    /\ Says(Plain(IF setup.format = "chat" THEN "error" ELSE "failed"))
    /\ up' = [up EXCEPT !.end = "failed"]

(* The connection ends, in order or with an error: after the last line or  *)
(* in the middle of the answer.                                            *)
HangUp ==
    /\ net.end = "open" /\ ~net.closed
    /\ \E end \in {"eof", "error"} : net' = [net EXCEPT !.end = end]
    /\ up' = [up EXCEPT !.end = IF @ = "no" THEN "cut" ELSE @]
    /\ UNCHANGED <<setup, bridge, pipe>>

Upstream == \/ SayText \/ SayNoise \/ SayCall \/ SayPiece \/ SayCallDone
            \/ SayFinished \/ SayFailed \/ HangUp

-----------------------------------------------------------------------------
(* convertResponsesStreamingToChat                                         *)

mapStatusToFinishReason(status) == IF status = "incomplete" THEN "length" ELSE "stop"

Known(call) == {i \in DOMAIN bridge.calls : bridge.calls[i].id = call}

(* The call an argument event is about: the one it names, else the last.   *)
Target(call) == IF Known(call) # {} THEN CHOOSE i \in Known(call) : TRUE ELSE bridge.last

(* What becomes of one line: calls are collected and handed on whole, at   *)
(* the end of their arguments.                                             *)
OnAdded(line) ==
    IF Known(line.call) # {}
    THEN [bridge EXCEPT !.last = Target(line.call)]
    ELSE [bridge EXCEPT !.calls = Append(@, [id |-> line.call, args |-> <<>>]),
                        !.last = Len(bridge.calls) + 1]

OnDelta(line) ==
    [bridge EXCEPT !.calls[Target(line.call)].args = @ \o line.frags,
                   !.last = Target(line.call)]

OnArgsDone(line) ==
    LET tc == bridge.calls[Target(line.call)]
    IN  [bridge EXCEPT !.todo = <<Line("head", tc.id, tc.args)>>]

FinishReason(reason) == IF bridge.calls # <<>> THEN "tool_calls" ELSE reason

Ends(reason) ==
    [bridge EXCEPT !.todo = <<Reasoned("finish", reason), Plain("done")>>, !.ending = "eof"]

OnLine(line) ==
    CASE line.kind = "text"      -> [bridge EXCEPT !.todo = <<line>>]
      [] line.kind = "added"     -> OnAdded(line)
      [] line.kind = "delta"     -> OnDelta(line)
      [] line.kind = "argsDone"  -> OnArgsDone(line)
      [] line.kind = "completed" -> Ends(FinishReason(mapStatusToFinishReason(line.reason)))
      [] line.kind = "failed"    -> Ends("error")
      [] OTHER                   -> bridge

Bridging == bridge.pc = "running" /\ UNCHANGED <<setup, up>>

BridgeReads ==
    /\ Bridging /\ bridge.todo = <<>> /\ bridge.ending = "no" /\ net.queue # <<>>
    /\ bridge' = OnLine(Head(net.queue))
    /\ net' = [net EXCEPT !.queue = Tail(@)]
    /\ UNCHANGED pipe

(* Without a final event the bridge makes one up; only a read error reaches *)
(* the pipe as an error.                                                   *)
BridgeReadsEnd ==
    /\ Bridging /\ bridge.todo = <<>> /\ bridge.ending = "no"
    /\ net.queue = <<>> /\ net.end # "open"
    /\ bridge' = IF net.end = "eof" THEN Ends(FinishReason("stop"))
                                    ELSE [bridge EXCEPT !.ending = "error"]
    /\ UNCHANGED <<net, pipe>>

(* A write to the pipe waits for the reader to have taken the last one.    *)
BridgeWrites ==
    /\ Bridging /\ bridge.todo # <<>> /\ ~pipe.closed /\ pipe.queue = <<>>
    /\ pipe' = [pipe EXCEPT !.queue = <<Head(bridge.todo)>>]
    /\ bridge' = [bridge EXCEPT !.todo = Tail(@)]
    /\ UNCHANGED net

(* The reader has closed the pipe: the write fails and the bridge gives up. *)
BridgeWriteFails ==
    /\ Bridging /\ bridge.todo # <<>> /\ pipe.closed
    /\ bridge' = [bridge EXCEPT !.todo = <<>>, !.ending = "error"]
    /\ UNCHANGED <<net, pipe>>

BridgeExits ==
    /\ Bridging /\ bridge.todo = <<>> /\ bridge.ending # "no"
    /\ bridge' = [bridge EXCEPT !.pc = "exited"]
    /\ net' = [net EXCEPT !.closed = TRUE, !.queue = <<>>]
    /\ pipe' = [pipe EXCEPT !.end = bridge.ending]

Bridge == \/ BridgeReads \/ BridgeReadsEnd \/ BridgeWrites \/ BridgeWriteFails
          \/ BridgeExits

-----------------------------------------------------------------------------
(* What the reader of the answer sees                                      *)

Source == IF setup.format = "chat" THEN net ELSE pipe

(* Reading one line, and closing the reader: the body of a chat stream,    *)
(* the read side of the pipe of a bridged one.  Lines that are already in  *)
(* the reader's buffer survive that.                                       *)
Take ==
    IF setup.format = "chat"
    THEN net' = [net EXCEPT !.queue = Tail(@)] /\ UNCHANGED <<up, bridge, pipe>>
    ELSE pipe' = [pipe EXCEPT !.queue = Tail(@)] /\ UNCHANGED <<up, bridge, net>>

CloseReader ==
    IF setup.format = "chat"
    THEN /\ net' \in {[net EXCEPT !.closed = TRUE],
                     [net EXCEPT !.closed = TRUE, !.queue = <<>>]}
         /\ UNCHANGED <<up, bridge, pipe>>
    ELSE /\ pipe' \in {[pipe EXCEPT !.closed = TRUE],
                      [pipe EXCEPT !.closed = TRUE, !.queue = <<>>]}
         /\ UNCHANGED <<up, bridge, net>>

(* CreateChatCompletionStream has the headers of a new stream.             *)
Dial == up' = Silence /\ net' = Fresh /\ pipe' = Fresh /\ bridge' = IdleBridge

(* It waits for the first bytes on the Responses endpoint.  They are those *)
(* of response.created, which becomes no line here and starts the bridge;  *)
(* if there are none the stream passes for a chat stream, and its reader   *)
(* finds that it has ended.                                                *)
Peek ==
    /\ \/ bridge' = [bridge EXCEPT !.pc = "running"] /\ UNCHANGED pipe
       \/ /\ net.queue = <<>> /\ net.end # "open"
          /\ pipe' = [pipe EXCEPT !.end = net.end] /\ UNCHANGED bridge
    /\ UNCHANGED <<setup, up, net>>

BridgeInit ==
    /\ setup \in Setups
    /\ up = Silence /\ net = Fresh /\ pipe = Fresh /\ bridge = IdleBridge
=============================================================================
