--------------------------- MODULE ResponsesStream ---------------------------
(***************************************************************************)
(* One request to /v1/responses: handler/responses.go, the conversion of   *)
(* the upstream's stream into Responses events (converter/responses.go)    *)
(* and, for a caller that wants no stream, assembleStreamToResponse of the *)
(* client.  The scanner goroutine reads lines and writes events; main      *)
(* waits for it, for the caller and for two timers, and writes the closing *)
(* events.  The events of one line are one step: no other goroutine writes *)
(* while the scanner is running.                                           *)
(***************************************************************************)
EXTENDS ResponsesBridge, FiniteSets

CONSTANTS
    MaxMalformed,    \* 50 in the code: malformed lines tolerated
    MaxStallRetries  \* 3 in the code

ASSUME ResponsesAssumption == {MaxMalformed, MaxStallRetries} \subseteq Nat

VARIABLES
    main,    \* where the handler is
    stalls,  \* stallRetry
    scan,    \* the scanner's locals
    ready,   \* what main's select can receive: "done", or errors
    caller,  \* the caller's connection, "there" or "gone"
    closed,  \* closed of sseWriter
    wire,    \* the events the caller has received; forgotten when it goes
    result   \* the answer as a whole: output and status of the response

vars == <<bridgeVars, main, stalls, scan, ready, caller, closed, wire, result>>

scanVars == <<scan, ready>>
link == <<caller, closed, wire>>

IdleScan == [pc |-> "off", started |-> FALSE, texts |-> 0, calls |-> <<>>,
             finish |-> "none", sawDone |-> FALSE, malformed |-> 0]
NoResult == [status |-> "none", texts |-> 0, calls |-> <<>>]

Init ==
    /\ BridgeInit
    /\ main = "create" /\ stalls = 0
    /\ scan = IdleScan /\ ready = {}
    /\ caller = "there" /\ closed = FALSE /\ wire = <<>>
    /\ result = NoResult

-----------------------------------------------------------------------------
(* The handler, up to the first data of the stream                         *)

Opened == IF setup.caller = "stream" THEN "first" ELSE "assemble"

(* Through the retry engine, of which only the outcome matters here.       *)
Create ==
    /\ main \in {"create", "recreate"}
    /\ \/ Dial /\ main' = IF setup.format = "responses" THEN "peek" ELSE Opened
       \/ main' = "answered" /\ UNCHANGED <<up, net, bridge, pipe>>
    /\ UNCHANGED <<setup, stalls, scanVars, link, result>>

(* No timer runs yet, and the caller is not watched.                       *)
FormatTold ==
    /\ main = "peek" /\ main' = Opened
    /\ Peek
    /\ UNCHANGED <<stalls, scanVars, link, result>>

(* WaitForFirstData has read something; the converter starts its goroutine. *)
FirstData ==
    /\ main = "first" /\ Source.queue # <<>>
    /\ main' = "select"
    /\ scan' = [scan EXCEPT !.pc = "scanning"]
    /\ UNCHANGED <<bridgeVars, stalls, ready, link, result>>

FirstReadFails ==
    /\ main = "first" /\ Source.queue = <<>> /\ Source.end # "open"
    /\ main' = "answered"
    /\ CloseReader
    /\ UNCHANGED <<setup, stalls, scanVars, link, result>>

LeftBeforeData ==
    /\ main = "first" /\ caller = "gone"
    /\ main' = "returned"
    /\ CloseReader
    /\ UNCHANGED <<setup, stalls, scanVars, link, result>>

(* The upstream has been silent for the stall timeout.                     *)
Stalled ==
    /\ main = "first" /\ Source.queue = <<>>
    /\ CloseReader
    /\ IF stalls < MaxStallRetries
       THEN main' = "recreate" /\ stalls' = stalls + 1
       ELSE main' = "answered" /\ UNCHANGED stalls
    /\ UNCHANGED <<setup, scanVars, link, result>>

-----------------------------------------------------------------------------
(* The scanner                                                             *)

Event(ev) == [ev |-> ev, call |-> 0, frags |-> <<>>]
CallEvent(ev, tc, frags) == [ev |-> ev, call |-> tc.id, frags |-> frags]

(* sseWriter.write: nothing after the first failure.  A write to a caller  *)
(* that has gone may still be swallowed by the socket.                     *)
Emit(events) ==
    /\ wire' = IF ~closed /\ caller = "there" THEN wire \o events ELSE wire
    /\ closed' \in IF caller = "gone" /\ events # <<>> THEN {TRUE, closed} ELSE {closed}
    /\ UNCHANGED caller

start(s) == IF s.started THEN <<>> ELSE <<Event("created"), Event("in_progress")>>

Scanning == scan.pc = "scanning" /\ UNCHANGED <<setup, main, stalls, result>>

(* The goroutine returns; done is closed unless streamFailed is set.       *)
Leave(s, events) == scan' = [s EXCEPT !.pc = "exited"] /\ ready' = ready \cup events

(* Mutant: streamFailed is never set.                                      *)
FailedAndDone(s) ==
    /\ Leave([s EXCEPT !.started = TRUE], {"failed", "done"})
    /\ Emit(Append(start(s), Event("failed")))

Failed(s) ==
    /\ Leave([s EXCEPT !.started = TRUE], {"failed"})
    /\ Emit(Append(start(s), Event("failed")))

Continue(s, events) == scan' = s /\ UNCHANGED ready /\ Emit(events)

ScanText ==
    LET s == [scan EXCEPT !.started = TRUE, !.texts = @ + 1]
        opening == IF scan.texts = 0 THEN <<Event("msg.added"), Event("part.added")>> ELSE <<>>
    IN  Continue(s, start(scan) \o opening \o <<Event("text.delta")>>)

(* A delta with id and name begins a call; any other adds to the last one. *)
ScanCall(line) ==
    LET n == Len(scan.calls)
        s == [scan EXCEPT !.started = TRUE]
    IN  /\ IF line.kind = "head"
           THEN scan' = [s EXCEPT !.calls = Append(@, [id |-> line.call, args |-> line.frags])]
           ELSE IF n > 0
           THEN scan' = [s EXCEPT !.calls[n].args = @ \o line.frags]
           ELSE scan' = s
        /\ UNCHANGED ready
        /\ Emit(start(scan))

ScanNoise ==
    LET s == [scan EXCEPT !.malformed = @ + 1] IN
    IF s.malformed > MaxMalformed THEN Failed(s) ELSE Continue(s, <<>>)

ScanFinish(reason) ==
    Continue([scan EXCEPT !.started = TRUE, !.finish = reason, !.sawDone = TRUE], start(scan))

(* A line has arrived: the caller's connection is looked at first.  With   *)
(* the caller gone both done and errChan become ready.                     *)
ScanLine ==
    /\ Scanning /\ Source.queue # <<>>
    /\ Take
    /\ LET line == Head(Source.queue) IN
       IF caller = "gone" \/ closed
       THEN Leave(scan, {"disconnected", "done"}) /\ UNCHANGED link
       ELSE CASE line.kind = "text"             -> ScanText
              [] line.kind \in {"head", "args"} -> ScanCall(line)
              [] line.kind = "noise"            -> ScanNoise
              [] line.kind = "error"            -> Failed(scan)
              [] line.kind = "finish"           -> ScanFinish(line.reason)
              [] OTHER                          -> Leave([scan EXCEPT !.sawDone = TRUE], {"done"})
                                                   /\ UNCHANGED link

(* The end of the stream: an error, or an end of file that is a truncation *)
(* unless the upstream has said that it is done.                           *)
NoTruncationCheck ==
    /\ Scanning /\ Source.queue = <<>> /\ (Source.end # "open" \/ Source.closed)
    /\ IF Source.end = "eof" /\ ~Source.closed
       THEN Leave(scan, {"done"}) /\ UNCHANGED link
       ELSE Failed(scan)
    /\ UNCHANGED <<up, net, bridge, pipe>>

ScanEnd ==
    /\ Scanning /\ Source.queue = <<>> /\ (Source.end # "open" \/ Source.closed)
    /\ IF Source.end = "eof" /\ ~Source.closed /\ scan.sawDone
       THEN Leave(scan, {"done"}) /\ UNCHANGED link
       ELSE Failed(scan)
    /\ UNCHANGED <<up, net, bridge, pipe>>

(* A panic in the conversion is recovered: an error for main, but no event. *)
ScanPanics ==
    /\ Scanning /\ Source.queue # <<>>
    /\ Leave(scan, {"panic"})
    /\ UNCHANGED <<up, net, bridge, pipe, link>>

Scanner == ScanLine \/ ScanEnd \/ ScanPanics

-----------------------------------------------------------------------------
(* Main                                                                    *)

(* Mutant: the reader is left open.                                        *)
ReturnOnly ==
    /\ main' = "returned"
    /\ UNCHANGED <<bridgeVars, stalls, scanVars>>

(* executeResponsesStream's deferred reader.Close.                         *)
Return ==
    /\ main' = "returned"
    /\ CloseReader
    /\ UNCHANGED <<setup, stalls, scanVars>>

statusFromFinishReason(reason) == IF reason = "length" THEN "incomplete" ELSE "completed"

closeMsg == IF scan.texts = 0 THEN <<>>
            ELSE <<Event("text.done"), Event("part.done"), Event("msg.done")>>

CallEvents(tc) == <<CallEvent("call.added", tc, <<>>), CallEvent("call.delta", tc, tc.args),
                    CallEvent("call.done", tc, tc.args), CallEvent("item.done", tc, tc.args)>>

(* Four events for each call, one call after the other.                    *)
AllCallEvents ==
    [p \in 1..4 * Len(scan.calls) |->
        CallEvents(scan.calls[(p + 3) \div 4])[((p - 1) % 4) + 1]]

Completed ==
    /\ main = "select" /\ "done" \in ready
    /\ Emit(closeMsg \o AllCallEvents \o <<Event("completed")>>)
    /\ result' = [status |-> statusFromFinishReason(scan.finish),
                  texts |-> scan.texts, calls |-> scan.calls]
    /\ Return

(* An error, the caller's context or one of the timers: main returns and   *)
(* writes nothing.                                                         *)
Aborted ==
    /\ main = "select"
    /\ \/ ready \cap {"failed", "disconnected", "panic"} # {}
       \/ caller = "gone"
    /\ Return
    /\ UNCHANGED <<link, result>>

IdleTimeout ==
    /\ main = "select" /\ Source.queue = <<>>
    /\ Return
    /\ UNCHANGED <<link, result>>

TooLong ==
    /\ main = "select"
    /\ Return
    /\ UNCHANGED <<link, result>>

CallerGoes ==
    /\ caller = "there" /\ setup.caller = "stream" /\ main \notin {"answered", "returned"}
    /\ caller' = "gone" /\ wire' = <<>>
    /\ UNCHANGED <<bridgeVars, main, stalls, scanVars, closed, result>>

-----------------------------------------------------------------------------
(* assembleStreamToResponse, for a caller that did not ask for a stream:   *)
(* fragments go to the call of their index, and an end of file is an end.  *)

Assembling == main = "assemble" /\ UNCHANGED <<setup, stalls, ready, link>>

Indexed(line) == {i \in DOMAIN scan.calls : scan.calls[i].id = line.call}

(* Mutant: by position in the stream, as the scanner does it.              *)
LastPosition(line) == Len(scan.calls)

Position(line) == CHOOSE i \in Indexed(line) : TRUE

AssembleLine ==
    /\ Assembling /\ Source.queue # <<>>
    /\ Take
    /\ LET line == Head(Source.queue) IN
       /\ scan' = CASE line.kind = "text" -> [scan EXCEPT !.texts = @ + 1]
                    [] line.kind \in {"head", "args"} /\ Indexed(line) # {} ->
                           [scan EXCEPT !.calls[Position(line)].args = @ \o line.frags]
                    [] line.kind \in {"head", "args"} /\ Indexed(line) = {} ->
                           [scan EXCEPT !.calls =
                               Append(@, [id |-> line.call, args |-> line.frags])]
                    [] line.kind = "finish" -> [scan EXCEPT !.finish = line.reason]
                    [] line.kind = "done" -> [scan EXCEPT !.sawDone = TRUE]
                    [] OTHER -> scan
       /\ main' = IF line.kind = "done" THEN "assembled" ELSE main
    /\ UNCHANGED result

AssembleEnd ==
    /\ Assembling /\ Source.queue = <<>> /\ Source.end # "open"
    /\ main' = IF Source.end = "eof" THEN "assembled" ELSE "answered"
    /\ CloseReader
    /\ UNCHANGED <<scan, result>>

(* ConvertOpenAIResponseToResponses *)
Assembled ==
    /\ main = "assembled"
    /\ LET finish == IF scan.calls # <<>> THEN "tool_calls" ELSE scan.finish IN
       result' = [status |-> statusFromFinishReason(finish),
                  texts |-> scan.texts, calls |-> scan.calls]
    /\ Return
    /\ UNCHANGED link

-----------------------------------------------------------------------------
(* Steps that wait for the upstream without a timer of this module.        *)
Unguarded == Create \/ FormatTold \/ AssembleLine \/ AssembleEnd

Handler == \/ FirstData \/ FirstReadFails \/ LeftBeforeData \/ Stalled
           \/ Completed \/ Aborted \/ IdleTimeout \/ TooLong \/ Assembled

UpstreamStep == Upstream /\ UNCHANGED <<main, stalls, scanVars, link, result>>

BridgeStep == Bridge /\ UNCHANGED <<main, stalls, scanVars, link, result>>

Next == UpstreamStep \/ BridgeStep \/ Scanner \/ Unguarded \/ Handler \/ CallerGoes

Spec == Init /\ [][Next]_vars

(* Every goroutine that can run does; the timers fire in the end.  Nothing *)
(* is assumed of the upstream or of the caller, so nothing of a step that  *)
(* has no timer either.                                                    *)
Fairness == WF_vars(BridgeStep) /\ WF_vars(Scanner) /\ WF_vars(Handler)

FairSpec == Spec /\ Fairness

-----------------------------------------------------------------------------
CallRecords == [id : CallIds, args : Seq(CallIds \X (1..Pieces))]
EventNames == {"created", "in_progress", "msg.added", "part.added", "text.delta",
    "text.done", "part.done", "msg.done", "call.added", "call.delta", "call.done",
    "item.done", "completed", "failed"}

\* Every variable holds a value of its kind, within the bounds.
TypeOK ==
    /\ setup \in Setups
    /\ main \in {"create", "recreate", "peek", "first", "select", "assemble", "assembled",
                 "answered", "returned"}
    /\ stalls \in 0..MaxStallRetries
    /\ \A ch \in {net, pipe} :
          /\ ch.end \in {"open", "eof", "error"} /\ ch.closed \in BOOLEAN
          /\ Len(ch.queue) <= MaxInFlight
    /\ scan.pc \in {"off", "scanning", "exited"}
    /\ scan.calls \in Seq(CallRecords) /\ Len(scan.calls) <= MaxCalls
    /\ scan.malformed \in 0..MaxMalformed + 1
    /\ ready \subseteq {"done", "failed", "disconnected", "panic"}
    /\ caller \in {"there", "gone"} /\ closed \in BOOLEAN
    /\ \A p \in DOMAIN wire : wire[p].ev \in EventNames
    /\ result.status \in {"none", "completed", "incomplete"}

(* What may come after an event; nothing comes after the last two.         *)
Follow(ev) ==
    CASE ev = "created"     -> {"in_progress"}
      [] ev = "in_progress" -> {"msg.added", "call.added", "completed", "failed"}
      [] ev = "msg.added"   -> {"part.added"}
      [] ev = "part.added"  -> {"text.delta"}
      [] ev = "text.delta"  -> {"text.delta", "text.done", "failed"}
      [] ev = "text.done"   -> {"part.done"}
      [] ev = "part.done"   -> {"msg.done"}
      [] ev \in {"msg.done", "item.done"} -> {"call.added", "completed"}
      [] ev = "call.added"  -> {"call.delta"}
      [] ev = "call.delta"  -> {"call.done"}
      [] ev = "call.done"   -> {"item.done"}
      [] OTHER              -> {}

Last(events) == events[Len(events)].ev

\* The caller receives its events in the order of the Responses protocol:
\* each item opened, filled and closed, every call announced once, one final
\* event and nothing after it, whoever wrote it and however the stream ended.
\* (An upstream that sends [DONE] alone is answered by the final event alone.)
WireOrder ==
    /\ TypeOK
    /\ wire # <<>> => wire[1].ev = "created" \/ wire = <<Event("completed")>>
    /\ \A p \in 1..Len(wire) - 1 :
          /\ wire[p + 1].ev \in Follow(wire[p].ev)
          /\ wire[p].ev \in {"call.added", "call.delta", "call.done"} =>
                 wire[p + 1].call = wire[p].call
    /\ \A p, q \in DOMAIN wire :
          wire[p].ev = "call.added" /\ wire[q].ev = "call.added" /\ p # q =>
              wire[p].call # wire[q].call

\* When a chat upstream hangs up or reports an error before its answer is
\* complete, a caller that is still there is told with response.failed.
CutIsReported ==
    setup.format = "chat" /\ up.end \in {"cut", "failed"} /\ scan.pc = "exited"
    /\ caller = "there" /\ "panic" \notin ready
        => wire # <<>> /\ Last(wire) = "failed"

Said(c) == [n \in 1..up.given[c] |-> Fragment(c, n)]

(* A chat upstream whose calls alternate is read for a stream: a fragment   *)
(* without an id goes to the last call, whatever its index says.           *)
Mingled == setup.format = "chat" /\ setup.caller = "stream" /\ setup.parallel

Places(piece) ==
    UNION {{<<i, p>> : p \in {q \in DOMAIN result.calls[i].args :
                                 result.calls[i].args[q] = piece}} : i \in DOMAIN result.calls}

\* The response of a complete answer has every text and every call of the
\* upstream, each call once and with exactly its own fragments in order:
\* streamed or assembled, through the bridge or not, even if calls overlap.
\* Only where the calls of a chat upstream alternate, a streamed response may
\* have a fragment in another call than its own; still it has each once.
CallsIntact ==
    result.status # "none" /\ up.end = "finished" /\ caller = "there" =>
        /\ result.texts = up.texts
        /\ Len(result.calls) = up.opened
        /\ \A c \in 1..up.opened : \E i \in DOMAIN result.calls :
              /\ result.calls[i].id = c
              /\ ~Mingled => result.calls[i].args = Said(c)
              /\ \A n \in 1..up.given[c] : Cardinality(Places(Fragment(c, n))) = 1

\* A caller is answered or abandoned in the end, even if the upstream says
\* nothing, unless it falls silent in a step that no timer guards: while the
\* stream is created or its format told, or while it is assembled.
HandlerReturns ==
    []<>(main \notin {"create", "recreate", "peek", "assemble"})
        => <>(main \in {"answered", "returned"})

\* The scanner goroutine does not outlive its request for ever.
ScannerEnds == [](scan.pc = "scanning" => <>(scan.pc = "exited"))

\* Neither waits for the other, nor for an upstream that is silent, for ever.
EverybodyEnds == HandlerReturns /\ ScannerEnds

\* What converter/responses.go says of a truncated stream: it must end in an
\* explicit failure, never in response.completed.
TruncationIsAFailure ==
    wire # <<>> /\ Last(wire) = "completed" => up.end = "finished"
=============================================================================
