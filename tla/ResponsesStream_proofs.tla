------------------------ MODULE ResponsesStream_proofs ------------------------
(***************************************************************************)
(* Theorems about ResponsesStream, for either format of the upstream, any  *)
(* number of calls, of pieces of their arguments and of text deltas, any   *)
(* number of lines in flight, malformed lines and retries.                 *)
(*                                                                         *)
(* The invariant has five parts.  Types; OnceInv, which follows the head   *)
(* of each call from the upstream through the bridge to the scanner and    *)
(* says that none comes twice; Control, which ties the handler's place to  *)
(* the scanner's; WireInv, which says in what shape the events are while   *)
(* more may follow; and ChatEnds, what the end of a chat stream leaves.    *)
(***************************************************************************)
EXTENDS ResponsesStream, TLAPS, FiniteSetTheorems

-------------------------------------------------------------------------------
(* Types                                                                   *)

Frags == CallIds \X (1..Pieces)
LineKinds == {"text", "head", "args", "finish", "done", "error", "noise",
              "added", "delta", "argsDone", "completed", "failed"}
Lines == [kind : LineKinds,
          call : 0..MaxCalls, frags : Seq(Frags),
          reason : {"none", "tool_calls", "stop", "length", "completed", "incomplete", "error"}]
ChatKinds == {"text", "head", "args", "finish", "done", "error", "noise"}
BridgeKinds == {"text", "added", "delta", "argsDone", "completed", "failed", "noise"}
PipeKinds == {"text", "head", "finish", "done"}
Channels == [queue : Seq(Lines), end : {"open", "eof", "error"}, closed : BOOLEAN]
Ups == [texts : 0..MaxTexts, opened : 0..MaxCalls, given : [CallIds -> 0..Pieces],
        complete : SUBSET CallIds, noise : Nat, end : {"no", "finished", "failed", "cut"}]
Bridges == [pc : {"off", "running", "exited"}, calls : Seq(CallRecords), last : Nat,
            todo : Seq(Lines), ending : {"no", "eof", "error"}]
Scans == [pc : {"off", "scanning", "exited"}, started : BOOLEAN, texts : Nat,
          calls : Seq(CallRecords),
          finish : {"none", "tool_calls", "stop", "length", "completed", "incomplete", "error"},
          sawDone : BOOLEAN, malformed : 0..MaxMalformed + 1]
Events == [ev : EventNames, call : Nat, frags : Seq(Frags)]

Kinds(queue, kinds) == \A p \in DOMAIN queue : queue[p].kind \in kinds
OwnCall(queue) == \A p \in DOMAIN queue :
    queue[p].kind \in {"head", "args", "added"} => queue[p].call \in CallIds

Types ==
    /\ setup \in Setups
    /\ main \in {"create", "recreate", "peek", "first", "select", "assemble", "assembled",
                 "answered", "returned"}
    /\ stalls \in 0..MaxStallRetries
    /\ up \in Ups /\ up.complete \subseteq 1..up.opened
    /\ net \in Channels /\ Len(net.queue) <= MaxInFlight
    /\ Kinds(net.queue, IF setup.format = "chat" THEN ChatKinds ELSE BridgeKinds)
    /\ OwnCall(net.queue)
    /\ pipe \in Channels /\ Len(pipe.queue) <= 1 /\ Kinds(pipe.queue, PipeKinds)
    /\ OwnCall(pipe.queue)
    /\ bridge.pc # "off" => setup.format = "responses"
    /\ bridge \in Bridges /\ bridge.last \in 0..Len(bridge.calls)
    /\ Kinds(bridge.todo, PipeKinds) /\ OwnCall(bridge.todo)
    /\ scan \in Scans
    /\ ready \subseteq {"done", "failed", "disconnected", "panic"}
    /\ caller \in {"there", "gone"} /\ closed \in BOOLEAN
    /\ wire \in Seq(Events)
    /\ result.status \in {"none", "completed", "incomplete"}

-------------------------------------------------------------------------------
(* Each call is announced once                                             *)

Heads(queue) == {p \in DOMAIN queue : queue[p].kind = "head"}
HeadIn(queue, c) == \E p \in Heads(queue) : queue[p].call = c
Once(calls) == \A i, j \in DOMAIN calls : calls[i].id = calls[j].id => i = j
IdIn(calls, c) == \E i \in DOMAIN calls : calls[i].id = c

\* The calls whose head is on its way to the scanner or has reached it.
HandedOn(c) == HeadIn(bridge.todo, c) \/ HeadIn(pipe.queue, c) \/ IdIn(scan.calls, c)

\* What the upstream has said and the bridge has not read, of a chat stream ...
ChatHeads ==
    /\ \A p, q \in Heads(net.queue) : net.queue[p].call = net.queue[q].call => p = q
    /\ \A p \in Heads(net.queue) : /\ net.queue[p].call <= up.opened
                                   /\ ~IdIn(scan.calls, net.queue[p].call)
    /\ \A i \in DOMAIN scan.calls : scan.calls[i].id <= up.opened

\* ... and of a Responses stream.
At(kind) == {p \in DOMAIN net.queue : net.queue[p].kind = kind}
Added(p) == p \in At("added")

BridgedCalls ==
    /\ Once(bridge.calls)
    /\ \A i \in DOMAIN bridge.calls : bridge.calls[i].id <= up.opened
    /\ \A p, q \in At("added") : net.queue[p].call = net.queue[q].call => p = q
    /\ \A p \in At("added") : /\ net.queue[p].call <= up.opened
                              /\ ~IdIn(bridge.calls, net.queue[p].call)
    /\ \A c \in CallIds : HandedOn(c) => IdIn(bridge.calls, c)

\* Argument events that name their call.
NamedCalls ==
    /\ \A p \in At("delta") \cup At("argsDone") :
          \/ IdIn(bridge.calls, net.queue[p].call)
          \/ \E q \in At("added") : q < p /\ net.queue[q].call = net.queue[p].call
    /\ \A p, q \in At("argsDone") : net.queue[p].call = net.queue[q].call => p = q
    /\ \A p \in At("argsDone") :
          /\ net.queue[p].call \in up.complete
          /\ \A c \in CallIds : HandedOn(c) => net.queue[p].call # c
    /\ \A c \in CallIds : HandedOn(c) => c \in up.complete
    /\ ~net.closed => \A c \in 1..up.opened : IdIn(bridge.calls, c) \/ \E q \in At("added") : net.queue[q].call = c

\* Argument events that do not: they are about the last call there is.
LastOpen ==
    bridge.last # 0 /\ \A c \in CallIds : HandedOn(c) => bridge.calls[bridge.last].id # c
UnnamedCalls ==
    /\ \A p \in At("delta") \cup At("argsDone") : net.queue[p].call = 0
    /\ \A p \in At("delta") : bridge.last # 0 \/ \E q \in At("added") : q < p
    /\ \A p \in At("argsDone") : LastOpen \/ \E q \in At("added") : q < p
    /\ \A p, q \in At("argsDone") : p < q => \E k \in At("added") : p < k /\ k < q
    /\ \A c \in 1..up.opened : c < up.opened => c \in up.complete
    /\ ~net.closed /\ up.opened > 0 => bridge.last # 0 \/ \E q \in At("added") : TRUE
    /\ ~net.closed /\ up.opened > 0 /\ up.opened \notin up.complete =>
          \/ \E q \in At("added") : \A p \in At("argsDone") : p < q
          \/ At("argsDone") = {} /\ LastOpen

OnceInv ==
    /\ Once(scan.calls)
    /\ setup.format = "chat" /\ setup.caller = "stream" => ChatHeads
    /\ setup.format = "responses" =>
          /\ BridgedCalls
          /\ setup.parallel => NamedCalls
          /\ ~setup.parallel => UnnamedCalls
          /\ \A p \in Heads(pipe.queue) : /\ ~IdIn(scan.calls, pipe.queue[p].call)
                                          /\ ~HeadIn(bridge.todo, pipe.queue[p].call)
          /\ \A p \in Heads(bridge.todo) : /\ ~IdIn(scan.calls, bridge.todo[p].call)
          /\ \A p, q \in Heads(bridge.todo) : p = q

-------------------------------------------------------------------------------
(* What the caller receives                                                *)

Links(w, p) ==
    /\ w[p + 1].ev \in Follow(w[p].ev)
    /\ w[p].ev \in {"call.added", "call.delta", "call.done"} => w[p + 1].call = w[p].call
Linked(w) == \A p \in 1..Len(w) - 1 : Links(w, p)
Announcements(w) == {p \in DOMAIN w : w[p].ev = "call.added"}
Ordered(w) ==
    /\ w # <<>> => w[1].ev = "created" \/ w = <<Event("completed")>>
    /\ Linked(w)
    /\ \A p, q \in Announcements(w) : p # q => w[p].call # w[q].call

Shape(w, s) ==
    /\ ~s.started => w = <<>> /\ s.texts = 0 /\ s.calls = <<>>
    /\ s.started => w # <<>> /\ w[1].ev = "created"
                    /\ Last(w) = IF s.texts = 0 THEN "in_progress" ELSE "text.delta"
    /\ Announcements(w) = {}

Composing == \/ scan.pc = "scanning"
             \/ scan.pc = "exited" /\ main = "select" /\ "failed" \notin ready

Control ==
    /\ main \in {"create", "recreate", "peek", "first", "assemble", "assembled", "answered"} =>
          scan.pc = "off"
    /\ main = "select" => scan.pc # "off"
    /\ main \in {"assemble", "assembled"} => setup.caller = "assemble"
    /\ main = "first" => setup.caller = "stream"
    /\ scan.pc # "off" => setup.caller = "stream"
    /\ setup.caller = "stream" /\ scan.pc = "off" => scan = IdleScan
    /\ main \in {"create", "recreate", "peek", "first"} => scan = IdleScan
    /\ main = "peek" => setup.format = "responses"
    /\ scan.pc # "exited" => ready = {}
    /\ scan.pc = "scanning" => scan.malformed <= MaxMalformed
    /\ "failed" \in ready => ready = {"failed"}
    /\ caller = "gone" => wire = <<>>
    /\ caller = "there" => ~closed
    /\ scan.pc = "off" => wire = <<>>

WireInv ==
    /\ Ordered(wire)
    /\ caller = "there" /\ Composing => Shape(wire, scan)

\* A chat upstream that has not finished has sent nothing that ends the answer.
ChatEnds ==
    setup.format = "chat" =>
    /\ up.end # "finished" => /\ Kinds(net.queue, ChatKinds \ {"finish", "done"})
                              /\ ~scan.sawDone
    /\ scan.pc = "exited" /\ caller = "there" /\ "panic" \notin ready =>
          \/ ready = {"failed"} /\ wire # <<>> /\ Last(wire) = "failed"
          \/ ready = {"done"} /\ up.end = "finished"

IInv == Types /\ OnceInv /\ Control /\ WireInv /\ ChatEnds
-------------------------------------------------------------------------------
(* Sequences and records                                                   *)

LEMMA AppendAt ==
    ASSUME NEW S, NEW q \in Seq(S), NEW x \in S
    PROVE  /\ Append(q, x) \in Seq(S)
           /\ Len(Append(q, x)) = Len(q) + 1
           /\ DOMAIN Append(q, x) = 1..Len(q) + 1 /\ DOMAIN q = 1..Len(q) /\ Len(q) \in Nat
           /\ \A p \in 1..Len(q) : Append(q, x)[p] = q[p]
           /\ Append(q, x)[Len(q) + 1] = x
OBVIOUS

LEMMA TailAt ==
    ASSUME NEW S, NEW q \in Seq(S), q # <<>>
    PROVE  /\ Tail(q) \in Seq(S) /\ Head(q) \in S /\ Head(q) = q[1]
           /\ Len(q) \in Nat \ {0} /\ Len(Tail(q)) = Len(q) - 1
           /\ DOMAIN Tail(q) = 1..Len(q) - 1 /\ DOMAIN q = 1..Len(q)
           /\ \A p \in 1..Len(q) - 1 : Tail(q)[p] = q[p + 1]
OBVIOUS

LEMMA ConcatAt ==
    ASSUME NEW S, NEW v \in Seq(S), NEW w \in Seq(S)
    PROVE  /\ v \o w \in Seq(S)
           /\ Len(v) \in Nat /\ Len(w) \in Nat /\ Len(v \o w) = Len(v) + Len(w)
           /\ DOMAIN (v \o w) = 1..Len(v) + Len(w)
           /\ \A p \in 1..Len(v) : (v \o w)[p] = v[p]
           /\ \A p \in 1..Len(w) : (v \o w)[Len(v) + p] = w[p]
           /\ \A p \in Len(v) + 1..Len(v) + Len(w) : (v \o w)[p] = w[p - Len(v)]
OBVIOUS

LEMMA ChannelUpdates ==
    ASSUME NEW ch \in Channels
    PROVE  /\ ch.queue \in Seq(Lines) /\ ch.end \in {"open", "eof", "error"}
           /\ ch.closed \in BOOLEAN
           /\ \A q \in Seq(Lines) : [ch EXCEPT !.queue = q] \in Channels
           /\ \A q : /\ [ch EXCEPT !.queue = q].queue = q
                     /\ [ch EXCEPT !.queue = q].end = ch.end
                     /\ [ch EXCEPT !.queue = q].closed = ch.closed
           /\ \A e \in {"open", "eof", "error"} : [ch EXCEPT !.end = e] \in Channels
           /\ \A e : /\ [ch EXCEPT !.end = e].queue = ch.queue
                     /\ [ch EXCEPT !.end = e].end = e
                     /\ [ch EXCEPT !.end = e].closed = ch.closed
           /\ [ch EXCEPT !.closed = TRUE] \in Channels
           /\ [ch EXCEPT !.closed = TRUE].queue = ch.queue
           /\ [ch EXCEPT !.closed = TRUE].end = ch.end /\ [ch EXCEPT !.closed = TRUE].closed
           /\ \A q \in Seq(Lines) : [ch EXCEPT !.closed = TRUE, !.queue = q] \in Channels
           /\ \A q : /\ [ch EXCEPT !.closed = TRUE, !.queue = q].queue = q
                     /\ [ch EXCEPT !.closed = TRUE, !.queue = q].end = ch.end
                     /\ [ch EXCEPT !.closed = TRUE, !.queue = q].closed
BY DEF Channels

LEMMA LinesOK ==
    /\ \A kind \in LineKinds, call \in 0..MaxCalls, frags \in Seq(Frags) :
            /\ Line(kind, call, frags) \in Lines
            /\ Line(kind, call, frags).kind = kind /\ Line(kind, call, frags).call = call
            /\ Line(kind, call, frags).frags = frags
    /\ \A kind \in LineKinds :
            Plain(kind) \in Lines /\ Plain(kind).kind = kind /\ Plain(kind).call = 0
    /\ \A kind \in {"finish", "completed"},
          reason \in {"tool_calls", "stop", "length", "completed", "incomplete", "error"} :
            /\ Reasoned(kind, reason) \in Lines /\ Reasoned(kind, reason).kind = kind
            /\ Reasoned(kind, reason).call = 0
<1>1. <<>> \in Seq(Frags) /\ 0 \in 0..MaxCalls
  BY BridgeAssumption
<1>2. \A kind, call, frags :
         Line(kind, call, frags) = [kind |-> kind, call |-> call, frags |-> frags, reason |-> "none"]
  BY DEF Line
<1>3. \A kind : Plain(kind) = [kind |-> kind, call |-> 0, frags |-> <<>>, reason |-> "none"]
  BY <1>2 DEF Plain
<1>4. \A kind, reason :
         Reasoned(kind, reason) = [kind |-> kind, call |-> 0, frags |-> <<>>, reason |-> reason]
  BY <1>3 DEF Reasoned
<1>5. \A kind \in {"finish", "completed"},
         reason \in {"tool_calls", "stop", "length", "completed", "incomplete", "error"} :
            [kind |-> kind, call |-> 0, frags |-> <<>>, reason |-> reason] \in Lines
  BY <1>1 DEF Lines, LineKinds
<1>6. \A kind \in LineKinds, call \in 0..MaxCalls, frags \in Seq(Frags) :
            [kind |-> kind, call |-> call, frags |-> frags, reason |-> "none"] \in Lines
  BY DEF Lines
<1>. QED BY <1>1, <1>2, <1>3, <1>4, <1>5, <1>6

LEMMA FrontFacts ==
    ASSUME Types
    PROVE  /\ setup.format \in {"chat", "responses"} /\ setup.caller \in {"stream", "assemble"}
           /\ setup.parallel \in BOOLEAN
           /\ Source \in Channels /\ Source = IF setup.format = "chat" THEN net ELSE pipe
           /\ MaxCalls \in Nat /\ Pieces \in Nat /\ MaxInFlight \in Nat \ {0}
           /\ MaxTexts \in Nat /\ MaxMalformed \in Nat /\ MaxStallRetries \in Nat
           /\ Fresh \in Channels /\ Fresh.queue = <<>> /\ ~Fresh.closed /\ Fresh.end = "open"
           /\ Len(<<>>) = 0 /\ DOMAIN <<>> = {} /\ <<>> \in Seq(Lines)
           /\ Heads(<<>>) = {}
<1>1. setup \in [format : {"chat", "responses"}, caller : {"stream", "assemble"}, parallel : BOOLEAN]
  BY BridgeAssumption DEF Types
<1>2. Fresh \in Channels /\ Fresh.queue = <<>> /\ ~Fresh.closed /\ Fresh.end = "open"
  BY DEF Fresh, Channel, Channels
<1>3. /\ MaxCalls \in Nat /\ Pieces \in Nat /\ MaxInFlight \in Nat \ {0}
      /\ MaxTexts \in Nat /\ MaxMalformed \in Nat /\ MaxStallRetries \in Nat
  BY BridgeAssumption, ResponsesAssumption
<1>. QED BY <1>1, <1>2, <1>3 DEF Types, Source, Heads
-------------------------------------------------------------------------------
(* What a step of the upstream does                                        *)

LEMMA UpUpdates ==
    ASSUME up \in Ups
    PROVE  /\ up.texts \in 0..MaxTexts /\ up.opened \in 0..MaxCalls
           /\ up.given \in [CallIds -> 0..Pieces]
           /\ up.complete \subseteq CallIds /\ up.noise \in Nat
           /\ up.end \in {"no", "finished", "failed", "cut"}
           /\ \A n \in 0..MaxTexts : [up EXCEPT !.texts = n] \in Ups
           /\ \A n \in Nat : [up EXCEPT !.noise = n] \in Ups
           /\ \A n \in 0..MaxCalls : [up EXCEPT !.opened = n] \in Ups
           /\ \A g \in [CallIds -> 0..Pieces] : [up EXCEPT !.given = g] \in Ups
           /\ \A s \in SUBSET CallIds : [up EXCEPT !.complete = s] \in Ups
           /\ \A e \in {"no", "finished", "failed", "cut"} : [up EXCEPT !.end = e] \in Ups
BY DEF Ups

\* A step of the upstream other than the end of the connection: one line.
SameCalls == up'.opened = up.opened /\ up'.complete = up.complete /\ up'.given = up.given
NameOf(c) == IF setup.format = "chat" \/ setup.parallel THEN c ELSE 0

LineSaid(line) ==
    /\ line.kind \in IF setup.format = "chat" THEN ChatKinds ELSE BridgeKinds
    /\ line.kind \in {"head", "args", "added"} => line.call \in CallIds
    /\ line.kind \in {"head", "added"} =>
          /\ up.opened < MaxCalls /\ line.call = up.opened + 1 /\ line.frags = <<>>
          /\ up'.opened = up.opened + 1 /\ up'.complete = up.complete /\ up'.given = up.given
          /\ setup.format = "responses" /\ ~setup.parallel => up.complete = 1..up.opened
    /\ line.kind \in {"args", "delta"} => \E c \in (1..up.opened) \ up.complete :
          /\ setup.parallel \/ c = up.opened
          /\ line.call = NameOf(c) /\ line.frags = <<Fragment(c, up.given[c] + 1)>>
          /\ up.given[c] < Pieces /\ up'.given = [up.given EXCEPT ![c] = @ + 1]
          /\ up'.opened = up.opened /\ up'.complete = up.complete
    /\ line.kind = "argsDone" => \E c \in (1..up.opened) \ up.complete :
          /\ line.call = NameOf(c)
          /\ up'.opened = up.opened /\ up'.complete = up.complete \cup {c}
          /\ up'.given = up.given
    /\ line.kind \notin {"head", "added", "args", "delta", "argsDone"} => SameCalls
    /\ up'.texts = IF line.kind = "text" THEN up.texts + 1 ELSE up.texts
    /\ line.kind = "completed" => up.complete = 1..up.opened
    /\ up'.end = IF line.kind \in {"finish", "done", "completed"} THEN "finished"
                 ELSE IF line.kind \in {"error", "failed"} THEN "failed" ELSE "no"

Spoken(line) ==
    /\ Len(net.queue) < MaxInFlight /\ net.end = "open" /\ ~net.closed /\ up.end = "no"
    /\ net' = [net EXCEPT !.queue = Append(@, line)]
    /\ LineSaid(line)

HungUp ==
    /\ net.end = "open" /\ ~net.closed
    /\ \E end \in {"eof", "error"} : net' = [net EXCEPT !.end = end]
    /\ SameCalls /\ up'.texts = up.texts
    /\ up'.end = IF up.end = "no" THEN "cut" ELSE up.end

LEMMA SpeechCases ==
    ASSUME Types, Upstream
    PROVE  /\ setup' = setup /\ bridge' = bridge /\ pipe' = pipe
           /\ up' \in Ups /\ up'.complete \subseteq 1..up'.opened
           /\ HungUp \/ \E line \in Lines : Spoken(line)
<1>. USE DEF Says, Speaking, Spoken
<1>1. /\ up \in Ups /\ up.complete \subseteq 1..up.opened /\ net \in Channels
      /\ setup.format \in {"chat", "responses"} /\ setup.parallel \in BOOLEAN
      /\ MaxCalls \in Nat /\ Pieces \in Nat /\ MaxTexts \in Nat
  BY FrontFacts DEF Types
<1>2. /\ up.texts \in 0..MaxTexts /\ up.opened \in 0..MaxCalls
      /\ up.given \in [CallIds -> 0..Pieces] /\ up.complete \subseteq CallIds /\ up.noise \in Nat
  BY <1>1, UpUpdates
<1>3. CASE SayText
  <2>1. Spoken(Plain("text")) /\ up' \in Ups /\ up'.complete \subseteq 1..up'.opened
        /\ UNCHANGED <<setup, bridge, pipe>>
    <3>1. Plain("text") \in Lines /\ Plain("text").kind = "text"
      BY LinesOK DEF LineKinds
    <3>2. up' = [up EXCEPT !.texts = up.texts + 1] /\ up.texts + 1 \in 0..MaxTexts
      BY <1>1, <1>2, <1>3 DEF SayText
    <3>3. up' \in Ups
      BY <1>1, <3>2, UpUpdates
    <3>4. up'.texts = up.texts + 1 /\ SameCalls /\ up'.end = up.end
      BY <1>1, <3>2 DEF Ups, SameCalls
    <3>5. LineSaid(Plain("text"))
      BY <1>3, <3>1, <3>4 DEF LineSaid, SayText, ChatKinds, BridgeKinds
    <3>. QED BY <1>1, <1>3, <3>3, <3>4, <3>5 DEF SayText, SameCalls
  <2>2. Plain("text") \in Lines
    BY LinesOK DEF LineKinds
  <2>. QED BY <2>1, <2>2
<1>4. CASE SayNoise
  <2>1. Plain("noise") \in Lines /\ Plain("noise").kind = "noise"
    BY LinesOK DEF LineKinds
  <2>2. up' = [up EXCEPT !.noise = up.noise + 1]
    BY <1>4 DEF SayNoise
  <2>3. up' \in Ups
    BY <1>1, <1>2, <2>2, UpUpdates
  <2>4. up'.texts = up.texts /\ SameCalls /\ up'.end = up.end
    BY <1>1, <2>2 DEF Ups, SameCalls
  <2>5. LineSaid(Plain("noise"))
    BY <1>4, <2>1, <2>4 DEF LineSaid, SayNoise, ChatKinds, BridgeKinds
  <2>. QED BY <1>1, <1>4, <2>1, <2>3, <2>4, <2>5 DEF SayNoise, SameCalls
<1>5. CASE SayCall
  <2>. DEFINE kind == IF setup.format = "chat" THEN "head" ELSE "added"
              line == Line(kind, up.opened + 1, <<>>)
  <2>1. kind \in {"head", "added"} /\ up.opened + 1 \in 0..MaxCalls /\ up.opened + 1 \in CallIds
        /\ <<>> \in Seq(Frags) /\ up.opened < MaxCalls
    BY <1>1, <1>2, <1>5 DEF SayCall, CallIds
  <2>2. line \in Lines /\ line.kind = kind /\ line.call = up.opened + 1 /\ line.frags = <<>>
    <3>1. kind \in LineKinds
      BY DEF LineKinds
    <3>. HIDE DEF kind
    <3>. QED BY <2>1, <3>1, LinesOK
  <2>3. up' = [up EXCEPT !.opened = up.opened + 1]
    BY <1>5 DEF SayCall
  <2>4. up' \in Ups
    BY <1>1, <2>1, <2>3, UpUpdates
  <2>5. /\ up'.texts = up.texts /\ up'.opened = up.opened + 1 /\ up'.complete = up.complete
        /\ up'.given = up.given /\ up'.end = up.end
    BY <1>1, <2>3 DEF Ups
  <2>6. net' = [net EXCEPT !.queue = Append(@, line)]
    BY <1>5 DEF SayCall
  <2>7. setup.format = "responses" /\ ~setup.parallel => up.complete = 1..up.opened
    BY <1>5 DEF SayCall
  <2>. HIDE DEF line
  <2>8. LineSaid(line)
    BY <1>1, <1>5, <2>1, <2>2, <2>5, <2>7 DEF LineSaid, SayCall, ChatKinds, BridgeKinds
  <2>9. up'.complete \subseteq 1..up'.opened
    BY <1>1, <1>2, <2>5
  <2>. QED BY <1>1, <1>5, <2>2, <2>4, <2>6, <2>8, <2>9 DEF SayCall
<1>6. CASE SayPiece
  <2>1. PICK c \in (1..up.opened) \ up.complete :
          /\ up.given[c] < Pieces
          /\ setup.parallel \/ c = up.opened
          /\ LET piece == <<Fragment(c, up.given[c] + 1)>> IN
             IF setup.format = "chat" THEN Says(Line("args", c, piece))
             ELSE Says(Line("delta", IF setup.parallel THEN c ELSE 0, piece))
          /\ up' = [up EXCEPT !.given[c] = @ + 1]
    BY <1>6 DEF SayPiece
  <2>. DEFINE piece == <<Fragment(c, up.given[c] + 1)>>
              line == Line(IF setup.format = "chat" THEN "args" ELSE "delta", NameOf(c), piece)
              g == [up.given EXCEPT ![c] = @ + 1]
  <2>2. c \in CallIds /\ c \in 1..MaxCalls /\ up.given[c] \in 0..Pieces
    BY <1>1, <1>2 DEF CallIds
  <2>3. Fragment(c, up.given[c] + 1) \in Frags
    BY <1>1, <2>1, <2>2 DEF Fragment, Frags
  <2>4. piece \in Seq(Frags) /\ NameOf(c) \in 0..MaxCalls
        /\ (setup.format = "chat" => NameOf(c) = c)
    BY <1>1, <2>2, <2>3 DEF NameOf
  <2>5. /\ line \in Lines /\ line.kind = (IF setup.format = "chat" THEN "args" ELSE "delta")
        /\ line.call = NameOf(c) /\ line.frags = piece
    <3>. DEFINE kind == IF setup.format = "chat" THEN "args" ELSE "delta"
    <3>1. kind \in LineKinds
      BY DEF LineKinds
    <3>. HIDE DEF kind, piece
    <3>2. Line(kind, NameOf(c), piece) \in Lines /\ Line(kind, NameOf(c), piece).kind = kind
          /\ Line(kind, NameOf(c), piece).call = NameOf(c)
          /\ Line(kind, NameOf(c), piece).frags = piece
      BY <2>4, <3>1, LinesOK
    <3>. QED BY <3>2 DEF kind
  <2>6. Says(line)
    BY <1>1, <2>1 DEF NameOf
  <2>7. up' = [up EXCEPT !.given = g]
    BY <1>1, <2>1, <2>2 DEF Ups
  <2>8. g \in [CallIds -> 0..Pieces]
    BY <1>1, <1>2, <2>1, <2>2
  <2>. HIDE DEF g, line, piece
  <2>9. up' \in Ups
    BY <1>1, <2>7, <2>8, UpUpdates
  <2>10. /\ up'.texts = up.texts /\ up'.opened = up.opened /\ up'.complete = up.complete
         /\ up'.given = g /\ up'.end = up.end
    BY <1>1, <2>7 DEF Ups
  <2>11. up.end = "no" /\ UNCHANGED <<setup, bridge, pipe>>
    BY <1>6 DEF SayPiece
  <2>12. LineSaid(line)
    <3>1. \E d \in (1..up.opened) \ up.complete :
             /\ setup.parallel \/ d = up.opened
             /\ line.call = NameOf(d) /\ line.frags = <<Fragment(d, up.given[d] + 1)>>
             /\ up.given[d] < Pieces /\ up'.given = [up.given EXCEPT ![d] = @ + 1]
             /\ up'.opened = up.opened /\ up'.complete = up.complete
      <4>. WITNESS c \in (1..up.opened) \ up.complete
      <4>. QED BY <2>1, <2>5, <2>10 DEF g, piece
    <3>2. /\ line.kind \in {"args", "delta"}
          /\ line.kind \in IF setup.format = "chat" THEN ChatKinds ELSE BridgeKinds
          /\ line.kind = "args" => line.call \in CallIds
          /\ up'.texts = up.texts /\ up'.end = "no"
      BY <1>1, <2>2, <2>4, <2>5, <2>10, <2>11 DEF ChatKinds, BridgeKinds
    <3>. QED BY <3>1, <3>2 DEF LineSaid
  <2>. QED BY <1>1, <2>5, <2>6, <2>9, <2>10, <2>11, <2>12
<1>7. CASE SayCallDone
  <2>1. PICK c \in (1..up.opened) \ up.complete :
          /\ Says(Line("argsDone", IF setup.parallel THEN c ELSE 0, <<>>))
          /\ up' = [up EXCEPT !.complete = @ \cup {c}]
    BY <1>7 DEF SayCallDone
  <2>. DEFINE line == Line("argsDone", NameOf(c), <<>>)
              s == up.complete \cup {c}
  <2>2. c \in CallIds /\ c \in 1..MaxCalls /\ NameOf(c) \in 0..MaxCalls /\ <<>> \in Seq(Frags)
        /\ setup.format = "responses" /\ up.end = "no" /\ UNCHANGED <<setup, bridge, pipe>>
    BY <1>1, <1>2, <1>7 DEF CallIds, NameOf, SayCallDone
  <2>3. line \in Lines /\ line.kind = "argsDone" /\ line.call = NameOf(c)
    <3>. DEFINE name == NameOf(c)  kind == "argsDone"
    <3>1. name \in 0..MaxCalls /\ kind \in LineKinds /\ <<>> \in Seq(Frags)
      BY <2>2 DEF LineKinds
    <3>. HIDE DEF name, kind
    <3>2. LET l == Line(kind, name, <<>>)
          IN  l \in Lines /\ l.kind = kind /\ l.call = name
      BY <3>1, LinesOK
    <3>. USE DEF name, kind
    <3>. QED BY <3>2
  <2>4. Says(line)
    BY <2>1, <2>2 DEF NameOf
  <2>5. up' = [up EXCEPT !.complete = s] /\ s \in SUBSET CallIds
    BY <1>2, <2>1, <2>2
  <2>6. up' \in Ups
    BY <1>1, <2>5, UpUpdates
  <2>7. /\ up'.texts = up.texts /\ up'.opened = up.opened /\ up'.complete = s
        /\ up'.given = up.given /\ up'.end = up.end
    BY <1>1, <2>5 DEF Ups
  <2>. HIDE DEF line
  <2>8. LineSaid(line)
    BY <1>1, <2>1, <2>2, <2>3, <2>7 DEF LineSaid, ChatKinds, BridgeKinds
  <2>9. up'.complete \subseteq 1..up'.opened
    BY <1>1, <2>7
  <2>. QED BY <1>1, <2>2, <2>3, <2>4, <2>6, <2>7, <2>8, <2>9
<1>8. CASE SayFinished \/ SayFailed
  <2>1. /\ up.end = "no" /\ UNCHANGED <<setup, bridge, pipe>>
        /\ \E line \in Lines : \E e \in {"finished", "failed"} :
              /\ Says(line) /\ up' = [up EXCEPT !.end = e]
              /\ line.kind \in IF setup.format = "chat"
                               THEN {"finish", "done", "error"} ELSE {"completed", "failed"}
              /\ e = IF line.kind \in {"error", "failed"} THEN "failed" ELSE "finished"
              /\ line.kind = "completed" => up.complete = 1..up.opened
    <3>1. CASE SayFailed
      <4>. DEFINE kind == IF setup.format = "chat" THEN "error" ELSE "failed"
      <4>1. Plain(kind) \in Lines /\ Plain(kind).kind = kind
        BY LinesOK DEF LineKinds
      <4>2. Says(Plain(kind)) /\ up' = [up EXCEPT !.end = "failed"]
            /\ up.end = "no" /\ UNCHANGED <<setup, bridge, pipe>>
        BY <3>1 DEF SayFailed
      <4>. HIDE DEF Says
      <4>. QED BY <1>1, <4>1, <4>2
    <3>2. CASE SayFinished /\ setup.format = "chat"
      <4>. HIDE DEF Says
      <4>1. /\ up.end = "no" /\ UNCHANGED <<setup, bridge, pipe>>
            /\ up' = [up EXCEPT !.end = "finished"]
            /\ \/ Says(Reasoned("finish", IF up.opened > 0 THEN "tool_calls" ELSE "stop"))
               \/ Says(Reasoned("finish", "length")) \/ Says(Plain("done"))
        BY <1>1, <3>2 DEF SayFinished
      <4>2. \E line \in Lines : Says(line) /\ line.kind \in {"finish", "done"}
        BY <4>1, LinesOK DEF LineKinds
      <4>. QED BY <3>2, <4>1, <4>2
    <3>3. CASE SayFinished /\ setup.format = "responses"
      <4>. HIDE DEF Says
      <4>1. /\ up.end = "no" /\ UNCHANGED <<setup, bridge, pipe>>
            /\ up' = [up EXCEPT !.end = "finished"] /\ up.complete = 1..up.opened
            /\ Says(Reasoned("completed", "completed")) \/ Says(Reasoned("completed", "incomplete"))
        BY <1>1, <3>3 DEF SayFinished
      <4>2. \E line \in Lines : Says(line) /\ line.kind = "completed"
        BY <4>1, LinesOK DEF LineKinds
      <4>. QED BY <3>3, <4>1, <4>2
    <3>. QED BY <1>1, <1>8, <3>1, <3>2, <3>3
  <2>2. PICK line \in Lines, e \in {"finished", "failed"} :
              /\ Says(line) /\ up' = [up EXCEPT !.end = e]
              /\ line.kind \in IF setup.format = "chat"
                               THEN {"finish", "done", "error"} ELSE {"completed", "failed"}
              /\ e = IF line.kind \in {"error", "failed"} THEN "failed" ELSE "finished"
              /\ line.kind = "completed" => up.complete = 1..up.opened
    BY <2>1
  <2>3. up' \in Ups
    BY <1>1, <2>2, UpUpdates
  <2>4. up'.texts = up.texts /\ SameCalls /\ up'.end = e
    BY <1>1, <2>2 DEF Ups, SameCalls
  <2>5. LineSaid(line)
    BY <2>1, <2>2, <2>4 DEF LineSaid, ChatKinds, BridgeKinds
  <2>. QED BY <1>1, <2>1, <2>2, <2>3, <2>4, <2>5 DEF SameCalls
<1>9. CASE HangUp
  <2>. DEFINE e == IF up.end = "no" THEN "cut" ELSE up.end
  <2>1. up' = [up EXCEPT !.end = e] /\ e \in {"no", "finished", "failed", "cut"}
    BY <1>1, <1>9, UpUpdates DEF HangUp
  <2>2. up' \in Ups
    BY <1>1, <2>1, UpUpdates
  <2>3. up'.texts = up.texts /\ SameCalls /\ up'.end = e
    BY <1>1, <2>1 DEF Ups, SameCalls
  <2>. QED BY <1>1, <1>9, <2>2, <2>3 DEF HangUp, HungUp, SameCalls
<1>. QED BY <1>3, <1>4, <1>5, <1>6, <1>7, <1>8, <1>9 DEF Upstream
-------------------------------------------------------------------------------
(* What the bridge makes of one line                                       *)

LEMMA KindsAppend ==
    ASSUME NEW kinds, NEW q \in Seq(Lines), NEW line \in Lines
    PROVE  /\ line.kind \in kinds /\ Kinds(q, kinds) => Kinds(Append(q, line), kinds)
           /\ OwnCall(q) /\ (line.kind \in {"head", "args", "added"} => line.call \in CallIds)
              => OwnCall(Append(q, line))
BY AppendAt DEF Kinds, OwnCall

LEMMA KindsTail ==
    ASSUME NEW kinds, NEW q \in Seq(Lines), q # <<>>
    PROVE  /\ Kinds(q, kinds) => Kinds(Tail(q), kinds) /\ Head(q).kind \in kinds
           /\ OwnCall(q) =>
                 /\ OwnCall(Tail(q))
                 /\ Head(q).kind \in {"head", "args", "added"} => Head(q).call \in CallIds
<1>1. /\ Len(q) \in Nat \ {0} /\ DOMAIN Tail(q) = 1..Len(q) - 1 /\ DOMAIN q = 1..Len(q)
      /\ Head(q) = q[1] /\ \A p \in 1..Len(q) - 1 : Tail(q)[p] = q[p + 1]
  BY TailAt
<1>. QED BY <1>1 DEF Kinds, OwnCall

LEMMA KindsOne ==
    ASSUME NEW line \in Lines, line.kind \in PipeKinds, line.kind = "head" => line.call \in CallIds
    PROVE  /\ <<line>> \in Seq(Lines) /\ Kinds(<<line>>, PipeKinds) /\ OwnCall(<<line>>)
BY DEF Kinds, OwnCall, PipeKinds

LEMMA KindsNone ==
    /\ <<>> \in Seq(Lines) /\ Kinds(<<>>, PipeKinds) /\ OwnCall(<<>>)
    /\ \A kinds : Kinds(<<>>, kinds)
BY DEF Kinds, OwnCall

LEMMA ChannelTypes ==
    ASSUME NEW ch \in Channels
    PROVE  /\ ch.queue \in Seq(Lines) /\ Len(ch.queue) \in Nat
           /\ DOMAIN ch.queue = 1..Len(ch.queue)
           /\ ch.end \in {"open", "eof", "error"} /\ ch.closed \in BOOLEAN
BY DEF Channels

LEMMA BridgeTypes ==
    ASSUME NEW b \in Bridges
    PROVE  /\ b.pc \in {"off", "running", "exited"} /\ b.calls \in Seq(CallRecords)
           /\ b.last \in Nat /\ b.todo \in Seq(Lines) /\ b.ending \in {"no", "eof", "error"}
           /\ Len(b.calls) \in Nat /\ DOMAIN b.calls = 1..Len(b.calls)
BY DEF Bridges

\* An argument event finds its call.
LEMMA TargetFound ==
    ASSUME Types, OnceInv, setup.format = "responses", net.queue # <<>>,
           Head(net.queue).kind \in {"delta", "argsDone"}
    PROVE  LET t == Target(Head(net.queue).call) IN
           /\ t \in 1..Len(bridge.calls)
           /\ setup.parallel => bridge.calls[t].id = Head(net.queue).call
           /\ ~setup.parallel => t = bridge.last
<1>1. /\ net.queue \in Seq(Lines) /\ bridge.calls \in Seq(CallRecords)
      /\ bridge.last \in 0..Len(bridge.calls) /\ setup.parallel \in BOOLEAN
  BY ChannelTypes, BridgeTypes, FrontFacts DEF Types
<1>2. Len(net.queue) \in Nat \ {0} /\ Head(net.queue) = net.queue[1]
      /\ DOMAIN net.queue = 1..Len(net.queue) /\ 1 \in DOMAIN net.queue
  BY <1>1, TailAt
<1>3. 1 \in At("delta") \cup At("argsDone")
  BY <1>2 DEF At
<1>4. ~\E q \in At("added") : q < 1
  BY <1>2 DEF At
<1>5. CASE setup.parallel
  <2>1. IdIn(bridge.calls, Head(net.queue).call)
    BY <1>2, <1>3, <1>4, <1>5 DEF OnceInv, NamedCalls
  <2>2. Known(Head(net.queue).call) # {}
    BY <2>1 DEF IdIn, Known
  <2>3. Target(Head(net.queue).call) \in Known(Head(net.queue).call)
    BY <2>2 DEF Target
  <2>. QED BY <1>1, <1>5, <2>3 DEF Known
<1>6. CASE ~setup.parallel
  <2>1. Head(net.queue).call = 0
    BY <1>2, <1>3, <1>6 DEF OnceInv, UnnamedCalls
  <2>2. \A i \in DOMAIN bridge.calls : bridge.calls[i].id # 0
    <3>1. \A i \in DOMAIN bridge.calls : bridge.calls[i] \in CallRecords
      BY <1>1
    <3>. QED BY <3>1 DEF CallRecords, CallIds
  <2>3. Known(0) = {}
    BY <2>2 DEF Known
  <2>4. bridge.last # 0
    BY <1>2, <1>3, <1>4, <1>6 DEF OnceInv, UnnamedCalls, LastOpen
  <2>. QED BY <1>1, <1>6, <2>1, <2>3, <2>4 DEF Target
<1>. QED BY <1>1, <1>5, <1>6

SameBridge == /\ bridge'.calls = bridge.calls /\ bridge'.last = bridge.last
Quietly == bridge'.todo = <<>> /\ bridge'.ending = "no"

LineRead(line) ==
    /\ line.kind = "added" =>
          /\ bridge'.calls = Append(bridge.calls, [id |-> line.call, args |-> <<>>])
          /\ bridge'.last = Len(bridge.calls) + 1 /\ Quietly
    /\ line.kind = "delta" =>
          LET t == Target(line.call) IN
          /\ bridge'.calls = [bridge.calls EXCEPT ![t].args = @ \o line.frags]
          /\ bridge'.last = t /\ Quietly
    /\ line.kind = "argsDone" =>
          LET tc == bridge.calls[Target(line.call)] IN
          SameBridge /\ bridge'.todo = <<Line("head", tc.id, tc.args)>> /\ bridge'.ending = "no"
    /\ line.kind = "text" => SameBridge /\ bridge'.todo = <<line>> /\ bridge'.ending = "no"
    /\ line.kind \in {"completed", "failed"} =>
          /\ SameBridge /\ bridge'.ending = "eof"
          /\ \E reason \in {"tool_calls", "stop", "length", "error"} :
                bridge'.todo = <<Reasoned("finish", reason), Plain("done")>>
    /\ line.kind = "noise" => SameBridge /\ Quietly

LEMMA EndsOK ==
    ASSUME NEW reason \in {"tool_calls", "stop", "length", "error"}
    PROVE  LET todo == <<Reasoned("finish", reason), Plain("done")>> IN
           /\ todo \in Seq(Lines) /\ Kinds(todo, PipeKinds) /\ OwnCall(todo)
           /\ Heads(todo) = {}
<1>. DEFINE l == Reasoned("finish", reason)  d == Plain("done")
<1>1. l \in Lines /\ d \in Lines /\ l.kind = "finish" /\ d.kind = "done"
  BY LinesOK DEF LineKinds
<1>. HIDE DEF l, d
<1>2. /\ <<l, d>> \in Seq(Lines) /\ DOMAIN <<l, d>> = {1, 2}
      /\ <<l, d>>[1].kind = "finish" /\ <<l, d>>[2].kind = "done"
  BY <1>1
<1>3. /\ <<l, d>> \in Seq(Lines) /\ Kinds(<<l, d>>, PipeKinds) /\ OwnCall(<<l, d>>)
      /\ Heads(<<l, d>>) = {}
  BY <1>2 DEF Kinds, OwnCall, Heads, PipeKinds
<1>. QED BY <1>3 DEF l, d

LEMMA BridgeReadCases ==
    ASSUME Types, OnceInv, BridgeReads
    PROVE  /\ UNCHANGED <<setup, up, pipe>> /\ bridge.todo = <<>> /\ bridge.ending = "no"
           /\ net.queue # <<>> /\ net' = [net EXCEPT !.queue = Tail(net.queue)]
           /\ setup.format = "responses" /\ bridge'.pc = "running" /\ bridge.pc = "running"
           /\ bridge' \in Bridges /\ bridge'.last \in 0..Len(bridge'.calls)
           /\ Kinds(bridge'.todo, PipeKinds) /\ OwnCall(bridge'.todo)
           /\ LineRead(Head(net.queue))
<1>. DEFINE line == Head(net.queue)
<1>1. /\ UNCHANGED <<setup, up, pipe>> /\ bridge.todo = <<>> /\ bridge.ending = "no"
      /\ net.queue # <<>> /\ net' = [net EXCEPT !.queue = Tail(net.queue)]
      /\ bridge.pc = "running" /\ bridge' = OnLine(line)
  BY DEF BridgeReads, Bridging
<1>2. /\ setup.format = "responses" /\ bridge \in Bridges /\ bridge.calls \in Seq(CallRecords)
      /\ bridge.last \in 0..Len(bridge.calls) /\ Len(bridge.calls) \in Nat
      /\ net.queue \in Seq(Lines) /\ Kinds(net.queue, BridgeKinds) /\ OwnCall(net.queue)
  BY <1>1, ChannelTypes, BridgeTypes DEF Types
<1>3. line \in Lines /\ line.kind \in BridgeKinds /\ (line.kind = "added" => line.call \in CallIds)
      /\ 1 \in DOMAIN net.queue /\ line = net.queue[1]
  <2>1. line \in Lines /\ 1 \in DOMAIN net.queue /\ line = net.queue[1]
    BY <1>1, <1>2, TailAt
  <2>2. line.kind \in BridgeKinds /\ (line.kind = "added" => line.call \in CallIds)
    BY <1>2, <2>1 DEF Kinds, OwnCall
  <2>. QED BY <2>1, <2>2
<1>4. line.frags \in Seq(Frags) /\ line.call \in 0..MaxCalls
  BY <1>3 DEF Lines
<1>. HIDE DEF line
<1>5. CASE line.kind = "added"
  <2>1. bridge' = OnAdded(line)
    BY <1>1, <1>5 DEF OnLine
  <2>2. ~IdIn(bridge.calls, line.call)
    <3>1. 1 \in At("added")
      BY <1>3, <1>5 DEF At
    <3>. QED BY <1>2, <1>3, <3>1 DEF OnceInv, BridgedCalls
  <2>3. Known(line.call) = {}
    BY <2>2 DEF Known, IdIn
  <2>. DEFINE tc == [id |-> line.call, args |-> <<>>]
              calls == Append(bridge.calls, tc)
  <2>4. tc \in CallRecords /\ calls \in Seq(CallRecords) /\ Len(calls) = Len(bridge.calls) + 1
    <3>1. tc \in CallRecords
      BY <1>3, <1>5 DEF CallRecords
    <3>. QED BY <1>2, <3>1, AppendAt
  <2>5. bridge' = [bridge EXCEPT !.calls = calls, !.last = Len(bridge.calls) + 1]
    BY <2>1, <2>3 DEF OnAdded
  <2>. HIDE DEF calls
  <2>6. /\ bridge' \in Bridges /\ bridge'.calls = calls /\ bridge'.last = Len(bridge.calls) + 1
        /\ bridge'.todo = bridge.todo /\ bridge'.ending = bridge.ending /\ bridge'.pc = bridge.pc
    <3>. DEFINE n == Len(bridge.calls) + 1
    <3>1. n \in Nat /\ bridge' = [bridge EXCEPT !.calls = calls, !.last = n]
      BY <1>2, <2>5
    <3>. HIDE DEF n
    <3>2. /\ bridge' \in Bridges /\ bridge'.calls = calls /\ bridge'.last = n
          /\ bridge'.todo = bridge.todo /\ bridge'.ending = bridge.ending /\ bridge'.pc = bridge.pc
      BY <1>2, <2>4, <3>1 DEF Bridges
    <3>. QED BY <3>2 DEF n
  <2>7. LineRead(line)
    BY <1>1, <1>5, <2>6 DEF LineRead, Quietly, calls
  <2>. QED BY <1>1, <1>2, <2>4, <2>6, <2>7, KindsNone DEF line
<1>6. CASE line.kind = "delta"
  <2>. DEFINE t == Target(line.call)
              calls == [bridge.calls EXCEPT ![t].args = @ \o line.frags]
  <2>1. bridge' = [bridge EXCEPT !.calls[t].args = @ \o line.frags, !.last = t]
    BY <1>1, <1>6 DEF OnLine, OnDelta
  <2>2. t \in 1..Len(bridge.calls)
    BY <1>1, <1>2, <1>6, TargetFound DEF line
  <2>. HIDE DEF t
  <2>3. bridge' = [bridge EXCEPT !.calls = calls, !.last = t]
    BY <1>2, <2>1 DEF Bridges
  <2>4. calls \in Seq(CallRecords) /\ Len(calls) = Len(bridge.calls)
    <3>1. bridge.calls[t] \in CallRecords
      BY <1>2, <2>2
    <3>2. bridge.calls[t].args \o line.frags \in Seq(Frags)
      BY <1>4, <3>1 DEF CallRecords, Frags
    <3>3. [bridge.calls[t] EXCEPT !.args = @ \o line.frags] \in CallRecords
      BY <3>1, <3>2 DEF CallRecords, Frags
    <3>. QED BY <1>2, <2>2, <3>3
  <2>. HIDE DEF calls
  <2>6. /\ bridge' \in Bridges /\ bridge'.calls = calls /\ bridge'.last = t
        /\ bridge'.todo = bridge.todo /\ bridge'.ending = bridge.ending /\ bridge'.pc = bridge.pc
    <3>1. t \in Nat
      BY <1>2, <2>2
    <3>. QED BY <1>2, <2>3, <2>4, <3>1 DEF Bridges
  <2>7. LineRead(line)
    BY <1>1, <1>6, <2>6 DEF LineRead, Quietly, calls, t
  <2>. QED BY <1>1, <1>2, <2>2, <2>4, <2>6, <2>7, KindsNone DEF line
<1>7. CASE line.kind = "argsDone"
  <2>. DEFINE t == Target(line.call)
              tc == bridge.calls[t]
              h == Line("head", tc.id, tc.args)
  <2>1. bridge' = [bridge EXCEPT !.todo = <<h>>]
    BY <1>1, <1>7 DEF OnLine, OnArgsDone
  <2>2. t \in 1..Len(bridge.calls)
    BY <1>1, <1>2, <1>7, TargetFound DEF line
  <2>3. tc \in CallRecords
    BY <1>2, <2>2
  <2>. HIDE DEF tc
  <2>4. tc.id \in CallIds /\ tc.id \in 0..MaxCalls /\ tc.args \in Seq(Frags)
    BY <2>3, BridgeAssumption DEF CallRecords, CallIds, Frags
  <2>5. h \in Lines /\ h.kind = "head" /\ h.call = tc.id
    BY <2>4, LinesOK DEF LineKinds
  <2>. HIDE DEF h
  <2>6. <<h>> \in Seq(Lines) /\ Kinds(<<h>>, PipeKinds) /\ OwnCall(<<h>>)
    BY <2>4, <2>5, KindsOne DEF PipeKinds
  <2>7. /\ bridge' \in Bridges /\ bridge'.calls = bridge.calls /\ bridge'.last = bridge.last
        /\ bridge'.todo = <<h>> /\ bridge'.ending = bridge.ending /\ bridge'.pc = bridge.pc
    BY <1>2, <2>1, <2>6 DEF Bridges
  <2>8. LineRead(line)
    BY <1>1, <1>7, <2>7 DEF LineRead, SameBridge, h, tc
  <2>. QED BY <1>1, <1>2, <2>6, <2>7, <2>8 DEF line
<1>8. CASE line.kind = "text"
  <2>1. bridge' = [bridge EXCEPT !.todo = <<line>>]
    BY <1>1, <1>8 DEF OnLine
  <2>2. <<line>> \in Seq(Lines) /\ Kinds(<<line>>, PipeKinds) /\ OwnCall(<<line>>)
    BY <1>3, <1>8, KindsOne DEF PipeKinds
  <2>3. /\ bridge' \in Bridges /\ bridge'.calls = bridge.calls /\ bridge'.last = bridge.last
        /\ bridge'.todo = <<line>> /\ bridge'.ending = bridge.ending /\ bridge'.pc = bridge.pc
    BY <1>2, <2>1, <2>2 DEF Bridges
  <2>4. LineRead(line)
    BY <1>1, <1>8, <2>3 DEF LineRead, SameBridge
  <2>. QED BY <1>1, <1>2, <2>2, <2>3, <2>4 DEF line
<1>9. CASE line.kind \in {"completed", "failed"}
  <2>1. PICK reason \in {"tool_calls", "stop", "length", "error"} : bridge' = Ends(reason)
    BY <1>1, <1>9 DEF OnLine, FinishReason, mapStatusToFinishReason
  <2>. DEFINE todo == <<Reasoned("finish", reason), Plain("done")>>
  <2>2. todo \in Seq(Lines) /\ Kinds(todo, PipeKinds) /\ OwnCall(todo)
    BY EndsOK
  <2>3. bridge' = [bridge EXCEPT !.todo = todo, !.ending = "eof"]
    BY <2>1 DEF Ends
  <2>. HIDE DEF todo
  <2>4. /\ bridge' \in Bridges /\ bridge'.calls = bridge.calls /\ bridge'.last = bridge.last
        /\ bridge'.todo = todo /\ bridge'.ending = "eof" /\ bridge'.pc = bridge.pc
    BY <1>2, <2>2, <2>3 DEF Bridges
  <2>5. LineRead(line)
    BY <1>9, <2>4 DEF LineRead, SameBridge, todo
  <2>. QED BY <1>1, <1>2, <2>2, <2>4, <2>5 DEF line
<1>10. CASE line.kind = "noise"
  <2>1. bridge' = bridge
    BY <1>1, <1>10 DEF OnLine
  <2>2. LineRead(line)
    BY <1>1, <1>10, <2>1 DEF LineRead, SameBridge, Quietly
  <2>. QED BY <1>1, <1>2, <2>1, <2>2, KindsNone DEF line
<1>. QED BY <1>3, <1>5, <1>6, <1>7, <1>8, <1>9, <1>10 DEF BridgeKinds
-------------------------------------------------------------------------------
(* The other steps of the bridge                                           *)

LEMMA BridgeRestCases ==
    ASSUME Types, BridgeReadsEnd \/ BridgeWrites \/ BridgeWriteFails \/ BridgeExits
    PROVE  /\ UNCHANGED <<setup, up>> /\ setup.format = "responses"
           /\ bridge' \in Bridges /\ bridge'.calls = bridge.calls /\ bridge'.last = bridge.last
           /\ bridge'.pc # "off" /\ bridge.pc = "running"
           /\ \/ /\ BridgeReadsEnd /\ UNCHANGED <<net, pipe>> /\ bridge'.pc = "running"
                 /\ bridge.todo = <<>> /\ bridge.ending = "no"
                 /\ net.queue = <<>> /\ net.end # "open"
                 /\ \/ /\ bridge'.todo = <<>> /\ bridge'.ending = "error"
                    \/ /\ bridge'.ending = "eof" /\ net.end = "eof"
                       /\ \E reason \in {"tool_calls", "stop"} :
                             bridge'.todo = <<Reasoned("finish", reason), Plain("done")>>
              \/ /\ BridgeWrites /\ UNCHANGED net /\ bridge'.pc = "running"
                 /\ bridge.todo # <<>> /\ ~pipe.closed /\ pipe.queue = <<>>
                 /\ pipe' = [pipe EXCEPT !.queue = <<Head(bridge.todo)>>]
                 /\ bridge'.todo = Tail(bridge.todo) /\ bridge'.ending = bridge.ending
              \/ /\ BridgeWriteFails /\ UNCHANGED <<net, pipe>> /\ bridge'.pc = "running"
                 /\ bridge.todo # <<>> /\ pipe.closed
                 /\ bridge'.todo = <<>> /\ bridge'.ending = "error"
              \/ /\ BridgeExits /\ bridge'.pc = "exited"
                 /\ bridge.todo = <<>> /\ bridge.ending # "no"
                 /\ bridge'.todo = <<>> /\ bridge'.ending = bridge.ending
                 /\ net' = [net EXCEPT !.closed = TRUE, !.queue = <<>>]
                 /\ pipe' = [pipe EXCEPT !.end = bridge.ending]
<1>1. /\ UNCHANGED <<setup, up>> /\ bridge.pc = "running" /\ setup.format = "responses"
      /\ bridge \in Bridges /\ bridge.todo \in Seq(Lines)
  BY BridgeTypes DEF BridgeReadsEnd, BridgeWrites, BridgeWriteFails, BridgeExits, Bridging, Types
<1>2. CASE BridgeReadsEnd
  <2>1. /\ UNCHANGED <<net, pipe>> /\ bridge.todo = <<>> /\ bridge.ending = "no"
        /\ net.queue = <<>> /\ net.end # "open"
        /\ \/ bridge' = [bridge EXCEPT !.ending = "error"]
           \/ net.end = "eof" /\ bridge' = Ends(FinishReason("stop"))
    BY <1>2 DEF BridgeReadsEnd
  <2>2. CASE bridge' = [bridge EXCEPT !.ending = "error"]
    BY <1>1, <1>2, <2>1, <2>2 DEF Bridges
  <2>3. CASE net.end = "eof" /\ bridge' = Ends(FinishReason("stop"))
    <3>1. PICK reason \in {"tool_calls", "stop"} : bridge' = Ends(reason)
      BY <2>3 DEF FinishReason
    <3>. DEFINE todo == <<Reasoned("finish", reason), Plain("done")>>
    <3>2. todo \in Seq(Lines)
      BY EndsOK
    <3>3. bridge' = [bridge EXCEPT !.todo = todo, !.ending = "eof"]
      BY <3>1 DEF Ends
    <3>. HIDE DEF todo
    <3>4. /\ bridge' \in Bridges /\ bridge'.calls = bridge.calls /\ bridge'.last = bridge.last
          /\ bridge'.todo = todo /\ bridge'.ending = "eof" /\ bridge'.pc = bridge.pc
      BY <1>1, <3>2, <3>3 DEF Bridges
    <3>. QED BY <1>1, <1>2, <2>1, <2>3, <3>4 DEF todo
  <2>. QED BY <2>1, <2>2, <2>3
<1>3. CASE BridgeWrites
  <2>. DEFINE todo == Tail(bridge.todo)
  <2>1. /\ UNCHANGED net /\ bridge.todo # <<>> /\ ~pipe.closed /\ pipe.queue = <<>>
        /\ pipe' = [pipe EXCEPT !.queue = <<Head(bridge.todo)>>]
        /\ bridge' = [bridge EXCEPT !.todo = todo]
    BY <1>3 DEF BridgeWrites
  <2>2. todo \in Seq(Lines)
    BY <1>1, <2>1
  <2>. HIDE DEF todo
  <2>3. /\ bridge' \in Bridges /\ bridge'.calls = bridge.calls /\ bridge'.last = bridge.last
        /\ bridge'.todo = todo /\ bridge'.ending = bridge.ending /\ bridge'.pc = bridge.pc
    BY <1>1, <2>1, <2>2 DEF Bridges
  <2>. QED BY <1>1, <1>3, <2>1, <2>3 DEF todo
<1>4. CASE BridgeWriteFails
  <2>1. /\ UNCHANGED <<net, pipe>> /\ bridge.todo # <<>> /\ pipe.closed
        /\ bridge' = [bridge EXCEPT !.todo = <<>>, !.ending = "error"]
    BY <1>4 DEF BridgeWriteFails
  <2>2. /\ bridge' \in Bridges /\ bridge'.calls = bridge.calls /\ bridge'.last = bridge.last
        /\ bridge'.todo = <<>> /\ bridge'.ending = "error" /\ bridge'.pc = bridge.pc
    BY <1>1, <2>1, KindsNone DEF Bridges
  <2>. QED BY <1>1, <1>4, <2>1, <2>2
<1>5. CASE BridgeExits
  <2>1. /\ bridge.todo = <<>> /\ bridge.ending # "no"
        /\ bridge' = [bridge EXCEPT !.pc = "exited"]
        /\ net' = [net EXCEPT !.closed = TRUE, !.queue = <<>>]
        /\ pipe' = [pipe EXCEPT !.end = bridge.ending]
    BY <1>5 DEF BridgeExits
  <2>2. /\ bridge' \in Bridges /\ bridge'.calls = bridge.calls /\ bridge'.last = bridge.last
        /\ bridge'.todo = bridge.todo /\ bridge'.ending = bridge.ending /\ bridge'.pc = "exited"
    BY <1>1, <2>1 DEF Bridges
  <2>. QED BY <1>1, <1>5, <2>1, <2>2
<1>. QED BY <1>2, <1>3, <1>4, <1>5

-------------------------------------------------------------------------------
(* Types                                                                   *)

\* The part of Types about the way from the upstream to the reader, and the rest.
WayTypes ==
    /\ setup \in Setups
    /\ up \in Ups /\ up.complete \subseteq 1..up.opened
    /\ net \in Channels /\ Len(net.queue) <= MaxInFlight
    /\ Kinds(net.queue, IF setup.format = "chat" THEN ChatKinds ELSE BridgeKinds)
    /\ OwnCall(net.queue)
    /\ pipe \in Channels /\ Len(pipe.queue) <= 1 /\ Kinds(pipe.queue, PipeKinds)
    /\ OwnCall(pipe.queue)
    /\ bridge.pc # "off" => setup.format = "responses"
    /\ bridge \in Bridges /\ bridge.last \in 0..Len(bridge.calls)
    /\ Kinds(bridge.todo, PipeKinds) /\ OwnCall(bridge.todo)
FarTypes ==
    /\ main \in {"create", "recreate", "peek", "first", "select", "assemble", "assembled",
                 "answered", "returned"}
    /\ stalls \in 0..MaxStallRetries
    /\ scan \in Scans
    /\ ready \subseteq {"done", "failed", "disconnected", "panic"}
    /\ caller \in {"there", "gone"} /\ closed \in BOOLEAN
    /\ wire \in Seq(Events)
    /\ result.status \in {"none", "completed", "incomplete"}

LEMMA TypesParts == Types <=> WayTypes /\ FarTypes
BY DEF Types, WayTypes, FarTypes

LEMMA TypesPartsNext == Types' <=> WayTypes' /\ FarTypes'
BY DEF Types, WayTypes, FarTypes

LEMMA InitTypes == Init => Types
<1>. SUFFICES ASSUME Init PROVE Types
  OBVIOUS
<1>1. /\ up = Silence /\ net = Fresh /\ pipe = Fresh /\ bridge = IdleBridge /\ setup \in Setups
  BY DEF Init, BridgeInit
<1>2. Silence \in Ups /\ Silence.complete = {}
  BY BridgeAssumption DEF Silence, Ups
<1>3. IdleBridge \in Bridges /\ IdleBridge.last = 0 /\ IdleBridge.calls = <<>>
      /\ IdleBridge.todo = <<>> /\ IdleBridge.pc = "off"
  BY DEF IdleBridge, Bridges
<1>4. Fresh \in Channels /\ Fresh.queue = <<>>
  BY DEF Fresh, Channel, Channels
<1>5. WayTypes
  BY <1>1, <1>2, <1>3, <1>4, KindsNone, BridgeAssumption DEF WayTypes
<1>6. FarTypes
  <2>1. IdleScan \in Scans
    BY ResponsesAssumption DEF IdleScan, Scans
  <2>2. <<>> \in Seq(Events)
    OBVIOUS
  <2>3. result.status = "none"
    BY DEF Init, NoResult
  <2>4. 0 \in 0..MaxStallRetries
    BY ResponsesAssumption
  <2>5. /\ main = "create" /\ stalls = 0 /\ scan = IdleScan /\ ready = {}
        /\ caller = "there" /\ closed = FALSE /\ wire = <<>>
    BY DEF Init
  <2>. QED BY <2>1, <2>2, <2>3, <2>4, <2>5 DEF FarTypes
<1>. QED BY <1>5, <1>6, TypesParts

LEMMA UpstreamKeepsTypes == ASSUME Types, Upstream PROVE WayTypes'
<1>1. /\ setup' = setup /\ bridge' = bridge /\ pipe' = pipe
      /\ up' \in Ups /\ up'.complete \subseteq 1..up'.opened
  BY SpeechCases
<1>2. net \in Channels /\ net.queue \in Seq(Lines) /\ Len(net.queue) \in Nat
  BY ChannelTypes DEF Types
<1>3. /\ net' \in Channels /\ Len(net'.queue) <= MaxInFlight
      /\ Kinds(net'.queue, IF setup.format = "chat" THEN ChatKinds ELSE BridgeKinds)
      /\ OwnCall(net'.queue)
  <2>1. CASE HungUp
    <3>1. net' \in Channels /\ net'.queue = net.queue
      BY <1>2, <2>1 DEF HungUp, Channels
    <3>. QED BY <3>1 DEF Types
  <2>2. ASSUME NEW line \in Lines, Spoken(line)
        PROVE  /\ net' \in Channels /\ Len(net'.queue) <= MaxInFlight
               /\ Kinds(net'.queue, IF setup.format = "chat" THEN ChatKinds ELSE BridgeKinds)
               /\ OwnCall(net'.queue)
    <3>. DEFINE q == Append(net.queue, line)
                kinds == IF setup.format = "chat" THEN ChatKinds ELSE BridgeKinds
    <3>1. /\ net' = [net EXCEPT !.queue = q] /\ Len(net.queue) < MaxInFlight
          /\ line.kind \in kinds
          /\ line.kind \in {"head", "args", "added"} => line.call \in CallIds
      BY <2>2 DEF Spoken, LineSaid
    <3>2. q \in Seq(Lines) /\ Len(q) = Len(net.queue) + 1
      BY <1>2, AppendAt
    <3>3. Kinds(net.queue, kinds) /\ OwnCall(net.queue)
      BY DEF Types
    <3>4. Kinds(q, kinds) /\ OwnCall(q)
      <4>. HIDE DEF kinds
      <4>. QED BY <1>2, <3>1, <3>3, KindsAppend
    <3>. HIDE DEF q
    <3>5. net' \in Channels /\ net'.queue = q
      BY <1>2, <3>1, <3>2 DEF Channels
    <3>. QED BY <1>2, <3>1, <3>2, <3>4, <3>5, FrontFacts
  <2>. QED BY <2>1, <2>2, SpeechCases
<1>. QED BY <1>1, <1>3, TypesParts DEF WayTypes

LEMMA BridgeKeepsTypes == ASSUME Types, OnceInv, Bridge PROVE WayTypes'
<1>1. /\ net \in Channels /\ net.queue \in Seq(Lines) /\ Len(net.queue) \in Nat
      /\ pipe \in Channels /\ pipe.queue \in Seq(Lines) /\ Len(pipe.queue) \in Nat
      /\ bridge \in Bridges /\ bridge.todo \in Seq(Lines)
  BY ChannelTypes, BridgeTypes DEF Types
<1>2. CASE BridgeReads
  <2>1. /\ UNCHANGED <<setup, up, pipe>> /\ net.queue # <<>>
        /\ net' = [net EXCEPT !.queue = Tail(net.queue)] /\ setup.format = "responses"
        /\ bridge' \in Bridges /\ bridge'.last \in 0..Len(bridge'.calls)
        /\ Kinds(bridge'.todo, PipeKinds) /\ OwnCall(bridge'.todo)
    BY <1>2, BridgeReadCases
  <2>. DEFINE q == Tail(net.queue)
  <2>2. q \in Seq(Lines) /\ Len(q) < Len(net.queue) /\ Len(q) \in Nat
    BY <1>1, <2>1, TailAt
  <2>3. Kinds(q, BridgeKinds) /\ OwnCall(q)
    <3>1. Kinds(net.queue, BridgeKinds) /\ OwnCall(net.queue)
      BY <2>1 DEF Types
    <3>. QED BY <1>1, <2>1, <3>1, TailAt DEF Kinds, OwnCall
  <2>. HIDE DEF q
  <2>4. net' \in Channels /\ net'.queue = q
    BY <1>1, <2>1, <2>2 DEF Channels, q
  <2>5. Len(q) <= MaxInFlight
    BY <1>1, <2>2, FrontFacts DEF Types
  <2>. QED BY <2>1, <2>3, <2>4, <2>5 DEF Types, WayTypes
<1>3. CASE BridgeReadsEnd \/ BridgeWriteFails
  <2>1. /\ UNCHANGED <<setup, up, net, pipe>> /\ setup.format = "responses"
        /\ bridge' \in Bridges /\ bridge'.calls = bridge.calls /\ bridge'.last = bridge.last
        /\ \/ bridge'.todo = <<>>
           \/ \E reason \in {"tool_calls", "stop"} :
                 bridge'.todo = <<Reasoned("finish", reason), Plain("done")>>
    <3>1. ~(BridgeWrites \/ BridgeExits)
      BY <1>1, <1>3 DEF BridgeReadsEnd, BridgeWriteFails, BridgeWrites, BridgeExits
    <3>. QED BY <1>3, <3>1, BridgeRestCases
  <2>2. Kinds(bridge'.todo, PipeKinds) /\ OwnCall(bridge'.todo)
    BY <2>1, EndsOK, KindsNone
  <2>. QED BY <2>1, <2>2 DEF Types, WayTypes
<1>4. CASE BridgeWrites
  <2>1. /\ UNCHANGED <<setup, up, net>> /\ setup.format = "responses"
        /\ bridge' \in Bridges /\ bridge'.calls = bridge.calls /\ bridge'.last = bridge.last
        /\ bridge.todo # <<>>
        /\ pipe' = [pipe EXCEPT !.queue = <<Head(bridge.todo)>>]
        /\ bridge'.todo = Tail(bridge.todo)
    <3>1. ~(BridgeReadsEnd \/ BridgeWriteFails \/ BridgeExits)
      BY <1>1, <1>4 DEF BridgeReadsEnd, BridgeWriteFails, BridgeWrites, BridgeExits
    <3>. QED BY <1>4, <3>1, BridgeRestCases
  <2>. DEFINE line == Head(bridge.todo)
  <2>2. /\ Kinds(bridge'.todo, PipeKinds) /\ OwnCall(bridge'.todo)
        /\ line \in Lines /\ line.kind \in PipeKinds /\ (line.kind = "head" => line.call \in CallIds)
    <3>1. Kinds(bridge.todo, PipeKinds) /\ OwnCall(bridge.todo)
      BY DEF Types
    <3>2. /\ line \in Lines /\ line = bridge.todo[1] /\ 1 \in DOMAIN bridge.todo
          /\ \A p \in DOMAIN Tail(bridge.todo) :
                Tail(bridge.todo)[p] = bridge.todo[p + 1] /\ p + 1 \in DOMAIN bridge.todo
      BY <1>1, <2>1, TailAt
    <3>. HIDE DEF line
    <3>. QED BY <2>1, <3>1, <3>2 DEF Kinds, OwnCall
  <2>. HIDE DEF line
  <2>3. <<line>> \in Seq(Lines) /\ Kinds(<<line>>, PipeKinds) /\ OwnCall(<<line>>)
        /\ Len(<<line>>) = 1
    BY <2>2, KindsOne
  <2>4. pipe' \in Channels /\ pipe'.queue = <<line>>
    BY <1>1, <2>1, <2>3 DEF Channels, line
  <2>. QED BY <2>1, <2>2, <2>3, <2>4 DEF Types, WayTypes
<1>5. CASE BridgeExits
  <2>1. /\ UNCHANGED <<setup, up>> /\ setup.format = "responses"
        /\ bridge' \in Bridges /\ bridge'.calls = bridge.calls /\ bridge'.last = bridge.last
        /\ bridge'.todo = <<>> /\ bridge.ending # "no"
        /\ net' = [net EXCEPT !.closed = TRUE, !.queue = <<>>]
        /\ pipe' = [pipe EXCEPT !.end = bridge.ending]
    <3>1. ~(BridgeReadsEnd \/ BridgeWriteFails \/ BridgeWrites)
      BY <1>1, <1>5 DEF BridgeReadsEnd, BridgeWriteFails, BridgeWrites, BridgeExits
    <3>. QED BY <1>5, <3>1, BridgeRestCases
  <2>2. net' \in Channels /\ net'.queue = <<>> /\ Len(<<>>) = 0
    BY <1>1, <2>1, KindsNone DEF Channels
  <2>3. pipe' \in Channels /\ pipe'.queue = pipe.queue
    <3>1. bridge.ending \in {"open", "eof", "error"}
      BY <1>1, <2>1, BridgeTypes
    <3>. QED BY <1>1, <2>1, <3>1 DEF Channels
  <2>. QED BY <2>1, <2>2, <2>3, KindsNone, FrontFacts DEF Types, WayTypes
<1>. QED BY <1>2, <1>3, <1>4, <1>5 DEF Bridge
-------------------------------------------------------------------------------
(* Each call is announced once: the steps of the upstream                  *)

\* Nothing of it can go wrong when lines are lost.
LEMMA OnceLoses ==
    ASSUME Types, OnceInv, setup' = setup,
           up'.opened = up.opened, up'.complete = up.complete,
           bridge'.calls = bridge.calls, bridge'.last = bridge.last,
           bridge'.todo = bridge.todo \/ bridge'.todo = <<>>,
           scan'.calls = scan.calls,
           net'.queue = net.queue \/ (net'.queue = <<>> /\ net'.closed),
           net'.closed = net.closed \/ net'.closed,
           pipe'.queue = pipe.queue \/ pipe'.queue = <<>>
    PROVE  OnceInv'
<1>. DEFINE On(c) == HandedOn(c)
<1>1. Heads(<<>>) = {}
  BY DEF Heads
<1>2. \A c : HandedOn(c)' => On(c)
  BY <1>1 DEF HandedOn, HeadIn, IdIn
<1>3. \A kind : (At(kind)' = At(kind) /\ net'.queue = net.queue) \/ (At(kind)' = {} /\ net'.closed)
  BY DEF At
<1>4. setup.format = "chat" /\ setup.caller = "stream" => ChatHeads'
  <2>1. Heads(net'.queue) = {} \/ (Heads(net'.queue) = Heads(net.queue) /\ net'.queue = net.queue)
    <3>1. CASE net'.queue = net.queue
      BY <3>1
    <3>2. CASE net'.queue = <<>>
      <4>1. DOMAIN net'.queue = {}
        BY <3>2
      <4>. QED BY <4>1 DEF Heads
    <3>. QED BY <3>1, <3>2
  <2>. QED BY <2>1 DEF OnceInv, ChatHeads, IdIn
<1>5. setup.format = "responses" => BridgedCalls'
  BY <1>2, <1>3 DEF OnceInv, BridgedCalls, Once, IdIn
<1>6. setup.format = "responses" /\ setup.parallel => NamedCalls'
  <2>. SUFFICES ASSUME setup.format = "responses", setup.parallel PROVE NamedCalls'
    OBVIOUS
  <2>1. NamedCalls
    BY DEF OnceInv
  <2>2. CASE net'.queue = net.queue
    <3>1. \A kind : At(kind)' = At(kind)
      BY <2>2 DEF At
    <3>. QED BY <1>2, <2>1, <2>2, <3>1 DEF NamedCalls, IdIn
  <2>3. CASE net'.queue = <<>> /\ net'.closed
    <3>1. \A kind : At(kind)' = {}
      BY <2>3 DEF At
    <3>. QED BY <1>2, <2>1, <2>3, <3>1 DEF NamedCalls
  <2>. QED BY <2>2, <2>3
<1>7. setup.format = "responses" /\ ~setup.parallel => UnnamedCalls'
  <2>. SUFFICES ASSUME setup.format = "responses", ~setup.parallel PROVE UnnamedCalls'
    OBVIOUS
  <2>1. UnnamedCalls
    BY DEF OnceInv
  <2>2. LastOpen => LastOpen'
    BY <1>2 DEF LastOpen
  <2>3. CASE net'.queue = net.queue
    <3>1. \A kind : At(kind)' = At(kind)
      BY <2>3 DEF At
    <3>. QED BY <2>1, <2>2, <2>3, <3>1 DEF UnnamedCalls
  <2>4. CASE net'.queue = <<>> /\ net'.closed
    <3>1. \A kind : At(kind)' = {}
      BY <2>4 DEF At
    <3>. QED BY <2>1, <2>4, <3>1 DEF UnnamedCalls
  <2>. QED BY <2>3, <2>4
<1>8. setup.format = "responses" =>
        /\ \A p \in Heads(pipe'.queue) : /\ ~IdIn(scan'.calls, pipe'.queue[p].call)
                                         /\ ~HeadIn(bridge'.todo, pipe'.queue[p].call)
        /\ \A p \in Heads(bridge'.todo) : ~IdIn(scan'.calls, bridge'.todo[p].call)
        /\ \A p, q \in Heads(bridge'.todo) : p = q
  BY <1>1 DEF OnceInv, HeadIn
<1>9. Once(scan'.calls)
  BY DEF OnceInv, Once
<1>. QED BY <1>4, <1>5, <1>6, <1>7, <1>8, <1>9 DEF OnceInv

LEMMA AtAppend ==
    ASSUME Types, NEW line \in Lines, net'.queue = Append(net.queue, line)
    PROVE  LET n == Len(net.queue) + 1 IN
           /\ n \in Nat /\ net'.queue[n] = line
           /\ \A kind : At(kind)' = IF line.kind = kind THEN At(kind) \cup {n} ELSE At(kind)
           /\ \A kind : \A p \in At(kind) : p \in Nat /\ p < n /\ net'.queue[p] = net.queue[p]
           /\ Heads(net'.queue) = At("head")' /\ Heads(net.queue) = At("head")
<1>1. net.queue \in Seq(Lines)
  BY ChannelTypes DEF Types
<1>2. /\ Len(net.queue) \in Nat /\ DOMAIN net.queue = 1..Len(net.queue)
      /\ DOMAIN net'.queue = 1..Len(net.queue) + 1
      /\ \A p \in 1..Len(net.queue) : net'.queue[p] = net.queue[p]
      /\ net'.queue[Len(net.queue) + 1] = line
  BY <1>1, AppendAt
<1>. QED BY <1>2 DEF At, Heads

LEMMA OnceSpoken ==
    ASSUME Types, OnceInv, NEW line \in Lines, Spoken(line),
           setup' = setup, bridge' = bridge, pipe' = pipe, scan' = scan
    PROVE  OnceInv'
<1>. DEFINE n == Len(net.queue) + 1
<1>1. net'.queue = Append(net.queue, line) /\ net'.closed = net.closed /\ ~net.closed
  BY DEF Spoken, Types, Channels
<1>2. /\ n \in Nat /\ net'.queue[n] = line
      /\ \A kind : At(kind)' = IF line.kind = kind THEN At(kind) \cup {n} ELSE At(kind)
      /\ \A kind : \A p \in At(kind) : p \in Nat /\ p < n /\ net'.queue[p] = net.queue[p]
      /\ Heads(net'.queue) = At("head")' /\ Heads(net.queue) = At("head")
  BY <1>1, AtAppend
<1>. HIDE DEF n
<1>3. LineSaid(line) /\ up.opened \in Nat /\ up.complete \subseteq 1..up.opened
  BY UpUpdates DEF Spoken, Types
<1>4. \A c : HandedOn(c)' <=> HandedOn(c)
  BY DEF HandedOn
<1>5. Once(scan'.calls)
  BY DEF OnceInv
<1>6. setup.format = "responses" =>
        /\ \A p \in Heads(pipe'.queue) : /\ ~IdIn(scan'.calls, pipe'.queue[p].call)
                                         /\ ~HeadIn(bridge'.todo, pipe'.queue[p].call)
        /\ \A p \in Heads(bridge'.todo) : ~IdIn(scan'.calls, bridge'.todo[p].call)
        /\ \A p, q \in Heads(bridge'.todo) : p = q
  BY DEF OnceInv
<1>7. up'.opened \in Nat /\ up.opened <= up'.opened
  <2>1. line.kind \in LineKinds
    BY DEF Lines
  <2>2. CASE line.kind \in {"head", "added"}
    BY <1>3, <2>2 DEF LineSaid
  <2>3. CASE line.kind \notin {"head", "added"}
    <3>1. up'.opened = up.opened
      BY <1>3, <2>1, <2>3 DEF LineSaid, SameCalls
    <3>. QED BY <1>3, <3>1
  <2>. QED BY <2>2, <2>3
<1>8. ASSUME setup.format = "chat", setup.caller = "stream" PROVE ChatHeads'
  <2>1. ChatHeads
    BY <1>8 DEF OnceInv
  <2>2. \A i \in DOMAIN scan.calls : scan.calls[i].id \in Nat
    <3>1. \A i \in DOMAIN scan.calls : scan.calls[i] \in CallRecords
      BY DEF Types, Scans
    <3>. QED BY <3>1 DEF CallRecords, CallIds
  <2>3. \A p \in At("head") : net.queue[p].call \in Nat
    <3>1. \A p \in DOMAIN net.queue : net.queue[p] \in Lines
      BY ChannelTypes DEF Types
    <3>. QED BY <3>1, FrontFacts DEF At, Lines
  <2>4. CASE line.kind = "head"
    <3>1. line.call = up.opened + 1 /\ up'.opened = up.opened + 1
      BY <1>3, <2>4 DEF LineSaid
    <3>2. Heads(net'.queue) = At("head") \cup {n}
      BY <1>2, <2>4
    <3>. QED BY <1>2, <1>3, <2>1, <2>2, <2>3, <3>1, <3>2 DEF ChatHeads, IdIn
  <2>5. CASE line.kind # "head"
    <3>1. Heads(net'.queue) = At("head")
      BY <1>2, <2>5
    <3>. QED BY <1>2, <1>3, <1>7, <2>1, <2>2, <2>3, <3>1 DEF ChatHeads, IdIn
  <2>. QED BY <2>4, <2>5
<1>9. \A p \in DOMAIN net.queue : net.queue[p].call \in Nat
  <2>1. \A p \in DOMAIN net.queue : net.queue[p] \in Lines
    BY ChannelTypes DEF Types
  <2>. QED BY <2>1, FrontFacts DEF Lines
<1>10. \A i \in DOMAIN bridge.calls : bridge.calls[i].id \in Nat
  <2>1. \A i \in DOMAIN bridge.calls : bridge.calls[i] \in CallRecords
    BY BridgeTypes DEF Types
  <2>. QED BY <2>1 DEF CallRecords, CallIds
<1>11. ASSUME setup.format = "responses" PROVE BridgedCalls'
  <2>1. BridgedCalls
    BY <1>11 DEF OnceInv
  <2>2. Once(bridge'.calls) /\ \A i \in DOMAIN bridge'.calls : bridge'.calls[i].id <= up'.opened
    BY <1>3, <1>7, <1>10, <2>1 DEF BridgedCalls
  <2>3. \A c \in CallIds : HandedOn(c)' => IdIn(bridge'.calls, c)
    BY <1>4, <2>1 DEF BridgedCalls
  <2>4. /\ \A p, q \in At("added")' : net'.queue[p].call = net'.queue[q].call => p = q
        /\ \A p \in At("added")' : /\ net'.queue[p].call <= up'.opened
                                   /\ ~IdIn(bridge'.calls, net'.queue[p].call)
    <3>0. At("added") \subseteq DOMAIN net.queue
      BY DEF At
    <3>1. CASE line.kind = "added"
      <4>1. line.call = up.opened + 1 /\ up'.opened = up.opened + 1
        BY <1>3, <3>1 DEF LineSaid
      <4>2. ~IdIn(bridge.calls, line.call)
        BY <1>3, <1>10, <2>1, <4>1 DEF BridgedCalls, IdIn
      <4>. QED BY <1>2, <1>3, <1>9, <2>1, <3>0, <3>1, <4>1, <4>2 DEF BridgedCalls
    <3>2. CASE line.kind # "added"
      <4>1. At("added")' = At("added")
        BY <1>2, <3>2
      <4>. QED BY <1>2, <1>3, <1>7, <1>9, <2>1, <3>0, <4>1 DEF BridgedCalls
    <3>. QED BY <3>1, <3>2
  <2>. QED BY <2>2, <2>3, <2>4 DEF BridgedCalls
<1>12. ASSUME setup.format = "responses", setup.parallel PROVE NamedCalls'
  <2>1. NamedCalls
    BY <1>12 DEF OnceInv
  <2>2. line.kind \notin {"added", "delta", "argsDone"} =>
           up'.opened = up.opened /\ up'.complete = up.complete
    BY <1>3, <1>12 DEF LineSaid, SameCalls, BridgeKinds
  <2>3. CASE line.kind = "added"
    <3>1. line.call = up.opened + 1 /\ up'.opened = up.opened + 1 /\ up'.complete = up.complete
      BY <1>3, <2>3 DEF LineSaid
    <3>2. At("added")' = At("added") \cup {n} /\ At("delta")' = At("delta")
          /\ At("argsDone")' = At("argsDone")
      BY <1>2, <2>3
    <3>3. \A c \in 1..up'.opened : c \in 1..up.opened \/ c = line.call
      BY <1>3, <3>1
    <3>4. \A p \in At("added") \cup At("delta") \cup At("argsDone") : net'.queue[p] = net.queue[p]
      BY <1>2
    <3>5. \A p \in At("delta")' \cup At("argsDone")' :
             \/ IdIn(bridge'.calls, net'.queue[p].call)
             \/ \E q \in At("added")' : q < p /\ net'.queue[q].call = net'.queue[p].call
      BY <2>1, <3>2, <3>4 DEF NamedCalls
    <3>6. \A p, q \in At("argsDone")' : net'.queue[p].call = net'.queue[q].call => p = q
      BY <2>1, <3>2, <3>4 DEF NamedCalls
    <3>7. \A p \in At("argsDone")' :
              /\ net'.queue[p].call \in up'.complete
              /\ \A d \in CallIds : HandedOn(d)' => net'.queue[p].call # d
      BY <1>4, <2>1, <3>1, <3>2, <3>4 DEF NamedCalls
    <3>8. \A d \in CallIds : HandedOn(d)' => d \in up'.complete
      BY <1>4, <2>1, <3>1 DEF NamedCalls
    <3>9. \A d \in 1..up'.opened :
              IdIn(bridge'.calls, d) \/ \E q \in At("added")' : net'.queue[q].call = d
      <4>. SUFFICES ASSUME NEW d \in 1..up'.opened
                    PROVE  IdIn(bridge'.calls, d) \/ \E q \in At("added")' : net'.queue[q].call = d
        OBVIOUS
      <4>1. CASE d = line.call
        BY <1>2, <3>2, <4>1
      <4>2. CASE d \in 1..up.opened
        <5>1. IdIn(bridge.calls, d) \/ \E q \in At("added") : net.queue[q].call = d
          BY <1>1, <2>1, <4>2 DEF NamedCalls
        <5>. QED BY <3>2, <3>4, <5>1
      <4>. QED BY <3>3, <4>1, <4>2
    <3>. QED BY <3>5, <3>6, <3>7, <3>8, <3>9 DEF NamedCalls
  <2>4. CASE line.kind = "delta" \/ line.kind = "argsDone"
    <3>1. PICK c \in (1..up.opened) \ up.complete :
             /\ line.call = c /\ up'.opened = up.opened
             /\ up'.complete = IF line.kind = "delta" THEN up.complete ELSE up.complete \cup {c}
      BY <1>3, <1>12, <2>4 DEF LineSaid, NameOf
    <3>2. At("added")' = At("added")
      BY <1>2, <2>4
    <3>3. IdIn(bridge.calls, c) \/ \E q \in At("added") : q < n /\ net.queue[q].call = c
      BY <1>1, <1>2, <2>1, <3>1 DEF NamedCalls
    <3>4. ~HandedOn(c)
      <4>1. c \in CallIds
        BY <3>1, UpUpdates, FrontFacts DEF Types, CallIds
      <4>. QED BY <2>1, <3>1, <4>1 DEF NamedCalls
    <3>5. /\ \A p \in At("delta") \cup At("argsDone") :
                net'.queue[p] = net.queue[p]
          /\ \A q \in At("added") : net'.queue[q] = net.queue[q]
      BY <1>2
    <3>6. \A p \in At("delta")' \cup At("argsDone")' :
              \/ p \in At("delta") \cup At("argsDone") \/ p = n
      BY <1>2
    <3>7. \A p \in At("argsDone")' : \/ p \in At("argsDone")
                                     \/ p = n /\ line.kind = "argsDone"
      BY <1>2
    <3>8. \A p \in At("delta")' \cup At("argsDone")' :
             \/ IdIn(bridge'.calls, net'.queue[p].call)
             \/ \E q \in At("added")' : q < p /\ net'.queue[q].call = net'.queue[p].call
      BY <1>2, <2>1, <3>1, <3>2, <3>3, <3>5, <3>6 DEF NamedCalls
    <3>9. \A p \in At("argsDone") : net.queue[p].call # c
      BY <2>1, <3>1 DEF NamedCalls
    <3>10. \A p, q \in At("argsDone")' : net'.queue[p].call = net'.queue[q].call => p = q
      BY <1>2, <2>1, <3>1, <3>5, <3>7, <3>9 DEF NamedCalls
    <3>11. \A p \in At("argsDone")' :
              /\ net'.queue[p].call \in up'.complete
              /\ \A d \in CallIds : HandedOn(d)' => net'.queue[p].call # d
      BY <1>2, <1>4, <2>1, <3>1, <3>4, <3>5, <3>7 DEF NamedCalls
    <3>12. /\ \A d \in CallIds : HandedOn(d)' => d \in up'.complete
           /\ \A d \in 1..up'.opened :
                 IdIn(bridge'.calls, d) \/ \E q \in At("added")' : net'.queue[q].call = d
      <4>1. \A d \in CallIds : HandedOn(d)' => d \in up'.complete
        BY <1>4, <2>1, <3>1 DEF NamedCalls
      <4>2. \A d \in 1..up.opened :
               IdIn(bridge.calls, d) \/ \E q \in At("added") : net.queue[q].call = d
        BY <1>1, <2>1 DEF NamedCalls
      <4>. QED BY <3>1, <3>2, <3>5, <4>1, <4>2
    <3>. QED BY <3>8, <3>10, <3>11, <3>12 DEF NamedCalls
  <2>5. CASE line.kind \notin {"added", "delta", "argsDone"}
    <3>1. At("added")' = At("added") /\ At("delta")' = At("delta")
          /\ At("argsDone")' = At("argsDone")
      BY <1>2, <2>5
    <3>2. \A p \in At("added") \cup At("delta") \cup At("argsDone") : net'.queue[p] = net.queue[p]
      BY <1>2
    <3>3. \A p \in At("delta")' \cup At("argsDone")' :
             \/ IdIn(bridge'.calls, net'.queue[p].call)
             \/ \E q \in At("added")' : q < p /\ net'.queue[q].call = net'.queue[p].call
      BY <2>1, <3>1, <3>2 DEF NamedCalls
    <3>4. \A p, q \in At("argsDone")' : net'.queue[p].call = net'.queue[q].call => p = q
      BY <2>1, <3>1, <3>2 DEF NamedCalls
    <3>5. \A p \in At("argsDone")' :
              /\ net'.queue[p].call \in up'.complete
              /\ \A d \in CallIds : HandedOn(d)' => net'.queue[p].call # d
      BY <1>4, <2>1, <2>2, <2>5, <3>1, <3>2 DEF NamedCalls
    <3>6. \A d \in CallIds : HandedOn(d)' => d \in up'.complete
      BY <1>4, <2>1, <2>2, <2>5 DEF NamedCalls
    <3>7. \A d \in 1..up'.opened :
              IdIn(bridge'.calls, d) \/ \E q \in At("added")' : net'.queue[q].call = d
      <4>1. \A d \in 1..up.opened :
               IdIn(bridge.calls, d) \/ \E q \in At("added") : net.queue[q].call = d
        BY <1>1, <2>1 DEF NamedCalls
      <4>. QED BY <2>2, <2>5, <3>1, <3>2, <4>1
    <3>. QED BY <3>3, <3>4, <3>5, <3>6, <3>7 DEF NamedCalls
  <2>. QED BY <2>3, <2>4, <2>5
<1>13. ASSUME setup.format = "responses", ~setup.parallel PROVE UnnamedCalls'
  <2>1. UnnamedCalls
    BY <1>13 DEF OnceInv
  <2>2. line.kind \notin {"added", "delta", "argsDone"} =>
           up'.opened = up.opened /\ up'.complete = up.complete
    BY <1>3, <1>13 DEF LineSaid, SameCalls, BridgeKinds
  <2>3. LastOpen' <=> LastOpen
    BY <1>4 DEF LastOpen
  <2>4. CASE line.kind = "added"
    <3>1. /\ up'.opened = up.opened + 1 /\ up'.complete = up.complete
          /\ up.complete = 1..up.opened
      BY <1>3, <1>13, <2>4 DEF LineSaid
    <3>2. At("added")' = At("added") \cup {n} /\ At("delta")' = At("delta")
          /\ At("argsDone")' = At("argsDone")
      BY <1>2, <2>4
    <3>3. \A c \in 1..up'.opened : c < up'.opened => c \in up'.complete
      BY <1>3, <3>1
    <3>4. \E q \in At("added")' : \A p \in At("argsDone")' : p < q
      BY <1>2, <3>2
    <3>. QED BY <1>1, <1>2, <2>1, <2>3, <3>2, <3>3, <3>4 DEF UnnamedCalls
  <2>5. CASE line.kind = "delta"
    <3>1. up'.opened = up.opened /\ up'.complete = up.complete /\ up.opened > 0 /\ line.call = 0
      <4>1. PICK c \in (1..up.opened) \ up.complete :
               line.call = NameOf(c) /\ up'.opened = up.opened /\ up'.complete = up.complete
        BY <1>3, <2>5 DEF LineSaid
      <4>. QED BY <1>3, <1>13, <4>1 DEF NameOf
    <3>2. At("added")' = At("added") /\ At("delta")' = At("delta") \cup {n}
          /\ At("argsDone")' = At("argsDone")
      BY <1>2, <2>5
    <3>3. bridge.last # 0 \/ \E q \in At("added") : q < n
      BY <1>1, <1>2, <2>1, <3>1 DEF UnnamedCalls
    <3>. QED BY ZenonT(40), <1>1, <1>2, <2>1, <2>3, <3>1, <3>2, <3>3 DEF UnnamedCalls
  <2>6. CASE line.kind = "argsDone"
    <3>1. PICK c \in (1..up.opened) \ up.complete :
             line.call = 0 /\ up'.opened = up.opened /\ up'.complete = up.complete \cup {c}
      BY <1>3, <1>13, <2>6 DEF LineSaid, NameOf
    <3>2. At("added")' = At("added") /\ At("delta")' = At("delta")
          /\ At("argsDone")' = At("argsDone") \cup {n}
      BY <1>2, <2>6
    <3>3. c = up.opened /\ up.opened > 0 /\ up.opened \notin up.complete
      BY <1>3, <2>1, <3>1 DEF UnnamedCalls
    <3>4. \/ \E q \in At("added") : \A p \in At("argsDone") : p < q
          \/ At("argsDone") = {} /\ LastOpen
      BY <1>1, <2>1, <3>3 DEF UnnamedCalls
    <3>5. LastOpen \/ \E q \in At("added") : q < n
      BY <1>2, <3>4
    <3>6. \A p \in At("argsDone") : \E k \in At("added") : p < k /\ k < n
      BY <1>2, <3>4
    <3>7. \A p, q \in At("argsDone")' : p < q => \E k \in At("added")' : p < k /\ k < q
      BY <1>2, <2>1, <3>2, <3>6 DEF UnnamedCalls
    <3>8. \A p \in At("added") \cup At("delta") \cup At("argsDone") : net'.queue[p] = net.queue[p]
      BY <1>2
    <3>9. \A p \in At("delta")' \cup At("argsDone")' : net'.queue[p].call = 0
      BY <1>2, <2>1, <3>1, <3>2, <3>8 DEF UnnamedCalls
    <3>10. \A p \in At("delta")' : bridge'.last # 0 \/ \E q \in At("added")' : q < p
      BY <2>1, <3>2 DEF UnnamedCalls
    <3>11. \A p \in At("argsDone")' : LastOpen' \/ \E q \in At("added")' : q < p
      BY <2>1, <2>3, <3>2, <3>5 DEF UnnamedCalls
    <3>12. \A d \in 1..up'.opened : d < up'.opened => d \in up'.complete
      BY <2>1, <3>1 DEF UnnamedCalls
    <3>13. bridge'.last # 0 \/ \E q \in At("added")' : TRUE
      BY <1>1, <2>1, <3>2, <3>3 DEF UnnamedCalls
    <3>14. up'.opened \in up'.complete
      BY <3>1, <3>3
    <3>. QED BY <3>7, <3>9, <3>10, <3>11, <3>12, <3>13, <3>14 DEF UnnamedCalls
  <2>7. CASE line.kind \notin {"added", "delta", "argsDone"}
    <3>1. At("added")' = At("added") /\ At("delta")' = At("delta")
          /\ At("argsDone")' = At("argsDone")
      BY <1>2, <2>7
    <3>. QED BY <1>1, <1>2, <2>1, <2>2, <2>3, <2>7, <3>1 DEF UnnamedCalls
  <2>. QED BY <2>4, <2>5, <2>6, <2>7
<1>. QED BY <1>5, <1>6, <1>8, <1>11, <1>12, <1>13 DEF OnceInv

LEMMA OnceUpstream ==
    ASSUME Types, OnceInv, Upstream, scan' = scan
    PROVE  OnceInv'
<1>1. setup' = setup /\ bridge' = bridge /\ pipe' = pipe
  BY SpeechCases
<1>2. CASE HungUp
  <2>1. net'.queue = net.queue /\ net'.closed = net.closed
    BY <1>2 DEF HungUp, Types, Channels
  <2>2. up'.opened = up.opened /\ up'.complete = up.complete
    BY <1>2 DEF HungUp, SameCalls
  <2>3. /\ setup' = setup /\ bridge'.calls = bridge.calls /\ bridge'.last = bridge.last
        /\ bridge'.todo = bridge.todo /\ scan'.calls = scan.calls
        /\ pipe'.queue = pipe.queue
    BY <1>1
  <2>. QED BY <2>1, <2>2, <2>3, OnceLoses
<1>. QED BY <1>1, <1>2, SpeechCases, OnceSpoken
-------------------------------------------------------------------------------
(* Each call is announced once: the steps of the bridge                    *)

LEMMA AtTail ==
    ASSUME Types, net.queue # <<>>, net'.queue = Tail(net.queue)
    PROVE  /\ \A kind : \A p \in At(kind)' :
                 p \in Nat \ {0} /\ p + 1 \in At(kind) /\ net'.queue[p] = net.queue[p + 1]
           /\ \A kind : \A p \in At(kind) :
                 /\ p \in Nat \ {0}
                 /\ p = 1 \/ (p - 1 \in At(kind)' /\ net'.queue[p - 1] = net.queue[p])
           /\ \A kind : Head(net.queue).kind = kind => 1 \in At(kind)
           /\ \A kind : Head(net.queue).kind # kind => 1 \notin At(kind)
           /\ net.queue[1] = Head(net.queue)
<1>1. net.queue \in Seq(Lines)
  BY ChannelTypes DEF Types
<1>2. /\ Len(net.queue) \in Nat \ {0} /\ Head(net.queue) = net.queue[1]
      /\ DOMAIN net'.queue = 1..Len(net.queue) - 1 /\ DOMAIN net.queue = 1..Len(net.queue)
      /\ \A p \in 1..Len(net.queue) - 1 : net'.queue[p] = net.queue[p + 1]
  BY <1>1, TailAt
<1>3. \A kind : \A p \in At(kind)' :
         p \in Nat \ {0} /\ p + 1 \in At(kind) /\ net'.queue[p] = net.queue[p + 1]
  BY <1>2 DEF At
<1>4. \A kind : \A p \in At(kind) :
         /\ p \in Nat \ {0}
         /\ p = 1 \/ (p - 1 \in At(kind)' /\ net'.queue[p - 1] = net.queue[p])
  <2>. SUFFICES ASSUME NEW kind, NEW p \in At(kind)
                PROVE  /\ p \in Nat \ {0}
                       /\ p = 1 \/ (p - 1 \in At(kind)' /\ net'.queue[p - 1] = net.queue[p])
    OBVIOUS
  <2>1. p \in 1..Len(net.queue) /\ net.queue[p].kind = kind
    BY <1>2 DEF At
  <2>2. CASE p # 1
    <3>1. p - 1 \in 1..Len(net.queue) - 1 /\ (p - 1) + 1 = p
      BY <1>2, <2>1, <2>2
    <3>2. net'.queue[p - 1] = net.queue[p]
      BY <1>2, <3>1
    <3>. QED BY <1>2, <2>1, <3>1, <3>2 DEF At
  <2>. QED BY <1>2, <2>1, <2>2
<1>5. \A kind : (Head(net.queue).kind = kind => 1 \in At(kind))
                /\ (Head(net.queue).kind # kind => 1 \notin At(kind))
  BY <1>2 DEF At
<1>. QED BY <1>2, <1>3, <1>4, <1>5

\* The bridge's own heads and those in the pipe.
PipeHeads ==
    /\ \A p \in Heads(pipe.queue) : /\ ~IdIn(scan.calls, pipe.queue[p].call)
                                    /\ ~HeadIn(bridge.todo, pipe.queue[p].call)
    /\ \A p \in Heads(bridge.todo) : ~IdIn(scan.calls, bridge.todo[p].call)
    /\ \A p, q \in Heads(bridge.todo) : p = q

\* What is said of the way before the pipe.
WayOnce == BridgedCalls /\ (setup.parallel => NamedCalls) /\ (~setup.parallel => UnnamedCalls)

LEMMA OnceParts ==
    setup.format = "responses" => (OnceInv <=> Once(scan.calls) /\ WayOnce /\ PipeHeads)
<1>1. setup.format = "responses" => setup.format # "chat"
  OBVIOUS
<1>. QED BY <1>1 DEF OnceInv, WayOnce, PipeHeads

LEMMA OncePartsNext ==
    setup'.format = "responses" => (OnceInv' <=> Once(scan'.calls) /\ WayOnce' /\ PipeHeads')
<1>1. setup'.format = "responses" => setup'.format # "chat"
  OBVIOUS
<1>. QED BY <1>1 DEF OnceInv, WayOnce, PipeHeads

\* Heads that only move on, or are lost, do not disturb it.
LEMMA WayHeld ==
    ASSUME Types, WayOnce, setup' = setup,
           up'.opened = up.opened, up'.complete = up.complete,
           bridge'.calls = bridge.calls, bridge'.last = bridge.last,
           net'.queue = net.queue, net'.closed = net.closed,
           \A c \in CallIds : HandedOn(c)' => HandedOn(c)
    PROVE  WayOnce'
<1>1. \A kind : At(kind)' = At(kind)
  BY DEF At
<1>2. BridgedCalls'
  BY <1>1 DEF WayOnce, BridgedCalls
<1>3. setup.parallel => NamedCalls'
  <2>. SUFFICES ASSUME setup.parallel PROVE NamedCalls'
    OBVIOUS
  <2>1. NamedCalls
    BY DEF WayOnce
  <2>. QED BY <1>1, <2>1 DEF NamedCalls
<1>4. ~setup.parallel => UnnamedCalls'
  <2>. SUFFICES ASSUME ~setup.parallel PROVE UnnamedCalls'
    OBVIOUS
  <2>1. UnnamedCalls
    BY DEF WayOnce
  <2>2. LastOpen => LastOpen'
    BY DEF LastOpen
  <2>. QED BY <1>1, <2>1, <2>2 DEF UnnamedCalls
<1>. QED BY <1>2, <1>3, <1>4 DEF WayOnce

SameIds == /\ DOMAIN bridge'.calls = DOMAIN bridge.calls
           /\ \A i \in DOMAIN bridge.calls : bridge'.calls[i].id = bridge.calls[i].id

\* A line that is neither the beginning nor the end of a call's arguments.
LEMMA OnceQuiet ==
    ASSUME Types, OnceInv, setup.format = "responses", net.queue # <<>>,
           net'.queue = Tail(net.queue), net'.closed = net.closed,
           Head(net.queue).kind \notin {"added", "argsDone"},
           setup' = setup, up' = up, SameIds, bridge'.last = bridge.last \/ setup.parallel,
           \A c \in CallIds : HandedOn(c)' <=> HandedOn(c)
    PROVE  WayOnce'
<1>1. /\ \A kind : \A p \in At(kind)' :
            p \in Nat \ {0} /\ p + 1 \in At(kind) /\ net'.queue[p] = net.queue[p + 1]
      /\ \A kind : \A p \in At(kind) :
            /\ p \in Nat \ {0}
            /\ p = 1 \/ (p - 1 \in At(kind)' /\ net'.queue[p - 1] = net.queue[p])
      /\ 1 \notin At("added") /\ 1 \notin At("argsDone")
  BY AtTail
<1>8. /\ \A p \in At("added")' :
            p \in Nat \ {0} /\ p + 1 \in At("added") /\ net'.queue[p] = net.queue[p + 1]
      /\ \A p \in At("delta")' :
            p \in Nat \ {0} /\ p + 1 \in At("delta") /\ net'.queue[p] = net.queue[p + 1]
      /\ \A p \in At("argsDone")' :
            p \in Nat \ {0} /\ p + 1 \in At("argsDone") /\ net'.queue[p] = net.queue[p + 1]
  BY <1>1
<1>2. \A c : IdIn(bridge'.calls, c) <=> IdIn(bridge.calls, c)
  BY DEF SameIds, IdIn
<1>3. WayOnce /\ BridgedCalls
  BY OnceParts DEF WayOnce
<1>4. \A q \in At("added") : q - 1 \in At("added")' /\ net'.queue[q - 1] = net.queue[q]
                             /\ q \in Nat \ {0}
  BY <1>1
<1>5. BridgedCalls'
  <2>1. Once(bridge'.calls) /\ \A i \in DOMAIN bridge'.calls : bridge'.calls[i].id <= up'.opened
    BY <1>3 DEF BridgedCalls, SameIds, Once
  <2>2. \A p, q \in At("added")' : net'.queue[p].call = net'.queue[q].call => p = q
    <3>. SUFFICES ASSUME NEW p \in At("added")', NEW q \in At("added")',
                         net'.queue[p].call = net'.queue[q].call
                  PROVE  p = q
      OBVIOUS
    <3>1. /\ p + 1 \in At("added") /\ q + 1 \in At("added") /\ p \in Nat /\ q \in Nat
          /\ net.queue[p + 1].call = net.queue[q + 1].call
      BY <1>8
    <3>2. p + 1 = q + 1
      BY <1>3, <3>1 DEF BridgedCalls
    <3>. QED BY <3>1, <3>2
  <2>3. \A p \in At("added")' : net'.queue[p].call <= up'.opened
                                /\ ~IdIn(bridge'.calls, net'.queue[p].call)
    BY <1>1, <1>2, <1>3 DEF BridgedCalls
  <2>4. \A c \in CallIds : HandedOn(c)' => IdIn(bridge'.calls, c)
    BY <1>2, <1>3 DEF BridgedCalls
  <2>. QED BY <2>1, <2>2, <2>3, <2>4 DEF BridgedCalls
<1>6. ASSUME setup.parallel PROVE NamedCalls'
  <2>1. NamedCalls
    BY <1>3, <1>6 DEF WayOnce
  <2>2. \A p \in At("delta")' \cup At("argsDone")' :
           \/ IdIn(bridge'.calls, net'.queue[p].call)
           \/ \E q \in At("added")' : q < p /\ net'.queue[q].call = net'.queue[p].call
    <3>. SUFFICES ASSUME NEW p \in At("delta")' \cup At("argsDone")'
                  PROVE  \/ IdIn(bridge'.calls, net'.queue[p].call)
                         \/ \E q \in At("added")' : q < p /\ net'.queue[q].call = net'.queue[p].call
      OBVIOUS
    <3>1. /\ p \in Nat \ {0} /\ net'.queue[p] = net.queue[p + 1]
          /\ p + 1 \in At("delta") \cup At("argsDone")
      BY <1>1
    <3>2. \/ IdIn(bridge.calls, net.queue[p + 1].call)
          \/ \E q \in At("added") : q < p + 1 /\ net.queue[q].call = net.queue[p + 1].call
      BY <2>1, <3>1 DEF NamedCalls
    <3>3. CASE \E q \in At("added") : q < p + 1 /\ net.queue[q].call = net.queue[p + 1].call
      <4>1. PICK q \in At("added") : q < p + 1 /\ net.queue[q].call = net.queue[p + 1].call
        BY <3>3
      <4>2. q - 1 \in At("added")' /\ net'.queue[q - 1] = net.queue[q] /\ q \in Nat
        BY <1>4, <4>1
      <4>3. q - 1 < p
        BY <3>1, <4>1, <4>2
      <4>. QED BY <3>1, <4>1, <4>2, <4>3
    <3>. QED BY <1>2, <3>1, <3>2, <3>3
  <2>3. \A p, q \in At("argsDone")' : net'.queue[p].call = net'.queue[q].call => p = q
    <3>. SUFFICES ASSUME NEW p \in At("argsDone")', NEW q \in At("argsDone")',
                         net'.queue[p].call = net'.queue[q].call
                  PROVE  p = q
      OBVIOUS
    <3>1. /\ p + 1 \in At("argsDone") /\ q + 1 \in At("argsDone") /\ p \in Nat /\ q \in Nat
          /\ net.queue[p + 1].call = net.queue[q + 1].call
      BY <1>8
    <3>2. p + 1 = q + 1
      BY <2>1, <3>1 DEF NamedCalls
    <3>. QED BY <3>1, <3>2
  <2>4. \A p \in At("argsDone")' :
           /\ net'.queue[p].call \in up'.complete
           /\ \A c \in CallIds : HandedOn(c)' => net'.queue[p].call # c
    <3>1. \A p \in At("argsDone") :
             /\ net.queue[p].call \in up.complete
             /\ \A c \in CallIds : HandedOn(c) => net.queue[p].call # c
      BY <2>1 DEF NamedCalls
    <3>. QED BY ZenonT(40), <1>8, <3>1
  <2>5. \A c \in CallIds : HandedOn(c)' => c \in up'.complete
    BY <2>1 DEF NamedCalls
  <2>6. ~net'.closed => \A c \in 1..up'.opened :
           IdIn(bridge'.calls, c) \/ \E q \in At("added")' : net'.queue[q].call = c
    <3>1. ~net.closed => \A c \in 1..up.opened :
             IdIn(bridge.calls, c) \/ \E q \in At("added") : net.queue[q].call = c
      BY <2>1 DEF NamedCalls
    <3>2. \A c : (\E q \in At("added") : net.queue[q].call = c)
                 => \E q \in At("added")' : net'.queue[q].call = c
      BY <1>4
    <3>. QED BY <1>2, <3>1, <3>2
  <2>. QED BY <2>2, <2>3, <2>4, <2>5, <2>6 DEF NamedCalls
<1>7. ASSUME ~setup.parallel PROVE UnnamedCalls'
  <2>1. UnnamedCalls /\ bridge'.last = bridge.last
    BY <1>3, <1>7 DEF WayOnce
  <2>2. LastOpen' <=> LastOpen
    <3>1. bridge.last # 0 => bridge'.calls[bridge.last].id = bridge.calls[bridge.last].id
      BY BridgeTypes DEF SameIds, Types
    <3>. QED BY <2>1, <3>1 DEF LastOpen
  <2>3. \A p \in At("delta")' \cup At("argsDone")' : net'.queue[p].call = 0
    <3>1. \A p \in At("delta") \cup At("argsDone") : net.queue[p].call = 0
      BY <2>1 DEF UnnamedCalls
    <3>. QED BY ZenonT(40), <1>8, <3>1
  <2>4. \A p \in Nat, q \in At("added") : q < p + 1 => \E r \in At("added")' : r < p
    <3>. SUFFICES ASSUME NEW p \in Nat, NEW q \in At("added"), q < p + 1
                  PROVE  \E r \in At("added")' : r < p
      OBVIOUS
    <3>1. q - 1 \in At("added")' /\ q - 1 < p
      BY <1>4
    <3>. QED BY <3>1
  <2>5. \A p \in At("delta")' : bridge'.last # 0 \/ \E q \in At("added")' : q < p
    BY <1>1, <2>1, <2>4 DEF UnnamedCalls
  <2>6. \A p \in At("argsDone")' : LastOpen' \/ \E q \in At("added")' : q < p
    BY <1>1, <2>1, <2>2, <2>4 DEF UnnamedCalls
  <2>7. \A p, q \in At("argsDone")' : p < q => \E k \in At("added")' : p < k /\ k < q
    <3>. SUFFICES ASSUME NEW p \in At("argsDone")', NEW q \in At("argsDone")', p < q
                  PROVE  \E k \in At("added")' : p < k /\ k < q
      OBVIOUS
    <3>1. p + 1 \in At("argsDone") /\ q + 1 \in At("argsDone") /\ p + 1 < q + 1
          /\ p \in Nat /\ q \in Nat
      BY <1>1
    <3>2. PICK k \in At("added") : p + 1 < k /\ k < q + 1
      BY <2>1, <3>1 DEF UnnamedCalls
    <3>3. k - 1 \in At("added")' /\ p < k - 1 /\ k - 1 < q
      BY <1>4, <3>1, <3>2
    <3>. QED BY <3>3
  <2>8. \A c \in 1..up'.opened : c < up'.opened => c \in up'.complete
    BY <2>1 DEF UnnamedCalls
  <2>9. ~net'.closed /\ up'.opened > 0 => bridge'.last # 0 \/ \E q \in At("added")' : TRUE
    BY <1>4, <2>1 DEF UnnamedCalls
  <2>10. ~net'.closed /\ up'.opened > 0 /\ up'.opened \notin up'.complete =>
            \/ \E q \in At("added")' : \A p \in At("argsDone")' : p < q
            \/ At("argsDone")' = {} /\ LastOpen'
    <3>. SUFFICES ASSUME ~net'.closed, up'.opened > 0, up'.opened \notin up'.complete
                  PROVE  \/ \E q \in At("added")' : \A p \in At("argsDone")' : p < q
                         \/ At("argsDone")' = {} /\ LastOpen'
      OBVIOUS
    <3>1. CASE At("argsDone") = {} /\ LastOpen
      BY <1>1, <2>2, <3>1
    <3>2. CASE \E q \in At("added") : \A p \in At("argsDone") : p < q
      <4>1. PICK q \in At("added") : \A p \in At("argsDone") : p < q
        BY <3>2
      <4>2. \A p \in At("argsDone")' : p < q - 1
        BY <1>1, <1>4, <4>1
      <4>. QED BY <1>4, <4>1, <4>2
    <3>3. ~net.closed /\ up.opened > 0 /\ up.opened \notin up.complete
      OBVIOUS
    <3>4. \/ \E q \in At("added") : \A p \in At("argsDone") : p < q
          \/ At("argsDone") = {} /\ LastOpen
      BY <2>1, <3>3 DEF UnnamedCalls
    <3>. QED BY <3>1, <3>2, <3>4
  <2>. QED BY <2>3, <2>5, <2>6, <2>7, <2>8, <2>9, <2>10 DEF UnnamedCalls
<1>. QED BY <1>5, <1>6, <1>7 DEF WayOnce

\* The beginning of a call: it is known from now on.
LEMMA OnceAdded ==
    ASSUME Types, OnceInv, setup.format = "responses", net.queue # <<>>,
           net'.queue = Tail(net.queue), net'.closed = net.closed,
           Head(net.queue).kind = "added",
           setup' = setup, up' = up,
           bridge'.calls = Append(bridge.calls, [id |-> Head(net.queue).call, args |-> <<>>]),
           bridge'.last = Len(bridge.calls) + 1,
           \A c \in CallIds : HandedOn(c)' <=> HandedOn(c)
    PROVE  WayOnce'
<1>. DEFINE b == Head(net.queue).call
            n == Len(bridge.calls) + 1
            tc == [id |-> b, args |-> <<>>]
<1>1. /\ \A kind : \A p \in At(kind)' :
            p \in Nat \ {0} /\ p + 1 \in At(kind) /\ net'.queue[p] = net.queue[p + 1]
      /\ \A kind : \A p \in At(kind) :
            /\ p \in Nat \ {0}
            /\ p = 1 \/ (p - 1 \in At(kind)' /\ net'.queue[p - 1] = net.queue[p])
      /\ 1 \in At("added") /\ 1 \notin At("argsDone") /\ net.queue[1].call = b
  BY AtTail
<1>2. /\ \A p \in At("added")' :
            p \in Nat \ {0} /\ p + 1 \in At("added") /\ net'.queue[p] = net.queue[p + 1]
      /\ \A p \in At("delta")' :
            p \in Nat \ {0} /\ p + 1 \in At("delta") /\ net'.queue[p] = net.queue[p + 1]
      /\ \A p \in At("argsDone")' :
            p \in Nat \ {0} /\ p + 1 \in At("argsDone") /\ net'.queue[p] = net.queue[p + 1]
  BY <1>1
<1>3. WayOnce /\ BridgedCalls
  BY OnceParts DEF WayOnce
<1>4. \A q \in At("added") :
         /\ q \in Nat \ {0}
         /\ q = 1 \/ (q - 1 \in At("added")' /\ net'.queue[q - 1] = net.queue[q])
  BY <1>1
<1>5. /\ b \in CallIds /\ tc \in CallRecords /\ bridge.calls \in Seq(CallRecords)
      /\ Len(bridge.calls) \in Nat
  <2>1. b \in CallIds
    BY <1>1 DEF At, Types, OwnCall
  <2>2. bridge.calls \in Seq(CallRecords)
    BY BridgeTypes DEF Types
  <2>. QED BY <2>1, <2>2 DEF CallRecords
<1>6. /\ DOMAIN bridge.calls = 1..n - 1 /\ DOMAIN bridge'.calls = 1..n /\ n \in Nat \ {0}
      /\ \A i \in 1..n - 1 : bridge'.calls[i] = bridge.calls[i]
      /\ bridge'.calls[n].id = b /\ bridge'.last = n
  <2>. HIDE DEF tc, b
  <2>1. bridge'.calls = Append(bridge.calls, tc)
    BY DEF tc, b
  <2>2. /\ DOMAIN bridge.calls = 1..Len(bridge.calls)
        /\ DOMAIN bridge'.calls = 1..Len(bridge.calls) + 1
        /\ \A i \in 1..Len(bridge.calls) : bridge'.calls[i] = bridge.calls[i]
        /\ bridge'.calls[Len(bridge.calls) + 1] = tc
    BY <1>5, <2>1, AppendAt
  <2>3. tc.id = b
    BY DEF tc
  <2>. QED BY <1>5, <2>2, <2>3
<1>. HIDE DEF b, n, tc
<1>7. \A c : IdIn(bridge'.calls, c) <=> IdIn(bridge.calls, c) \/ c = b
  BY <1>6 DEF IdIn
<1>8. ~IdIn(bridge.calls, b) /\ \A q \in At("added") : net.queue[q].call = b => q = 1
  BY <1>1, <1>3 DEF BridgedCalls
<1>9. BridgedCalls'
  <2>1. Once(bridge'.calls)
    <3>1. Once(bridge.calls)
      BY <1>3 DEF BridgedCalls
    <3>2. \A i \in 1..n - 1 : bridge'.calls[i].id # b
      BY <1>6, <1>8 DEF IdIn
    <3>. QED BY <1>6, <3>1, <3>2 DEF Once
  <2>2. \A i \in DOMAIN bridge'.calls : bridge'.calls[i].id <= up'.opened
    <3>1. b <= up.opened
      BY <1>1, <1>3 DEF BridgedCalls
    <3>. QED BY <1>3, <1>6, <3>1 DEF BridgedCalls
  <2>3. \A p, q \in At("added")' : net'.queue[p].call = net'.queue[q].call => p = q
    <3>. SUFFICES ASSUME NEW p \in At("added")', NEW q \in At("added")',
                         net'.queue[p].call = net'.queue[q].call
                  PROVE  p = q
      OBVIOUS
    <3>1. /\ p + 1 \in At("added") /\ q + 1 \in At("added") /\ p \in Nat /\ q \in Nat
          /\ net.queue[p + 1].call = net.queue[q + 1].call
      BY <1>2
    <3>2. p + 1 = q + 1
      BY <1>3, <3>1 DEF BridgedCalls
    <3>. QED BY <3>1, <3>2
  <2>4. \A p \in At("added")' : net'.queue[p].call <= up'.opened
                                /\ ~IdIn(bridge'.calls, net'.queue[p].call)
    <3>. SUFFICES ASSUME NEW p \in At("added")'
                  PROVE  net'.queue[p].call <= up'.opened /\ ~IdIn(bridge'.calls, net'.queue[p].call)
      OBVIOUS
    <3>1. p \in Nat \ {0} /\ p + 1 \in At("added") /\ net'.queue[p] = net.queue[p + 1]
      BY <1>2
    <3>2. net.queue[p + 1].call # b
      BY <1>8, <3>1
    <3>. QED BY <1>3, <1>7, <3>1, <3>2 DEF BridgedCalls
  <2>5. \A c \in CallIds : HandedOn(c)' => IdIn(bridge'.calls, c)
    BY <1>3, <1>7 DEF BridgedCalls
  <2>. QED BY <2>1, <2>2, <2>3, <2>4, <2>5 DEF BridgedCalls
<1>10. ASSUME setup.parallel PROVE NamedCalls'
  <2>1. NamedCalls
    BY <1>3, <1>10 DEF WayOnce
  <2>2. \A p \in At("delta")' \cup At("argsDone")' :
           \/ IdIn(bridge'.calls, net'.queue[p].call)
           \/ \E q \in At("added")' : q < p /\ net'.queue[q].call = net'.queue[p].call
    <3>. SUFFICES ASSUME NEW p \in At("delta")' \cup At("argsDone")'
                  PROVE  \/ IdIn(bridge'.calls, net'.queue[p].call)
                         \/ \E q \in At("added")' : q < p /\ net'.queue[q].call = net'.queue[p].call
      OBVIOUS
    <3>1. /\ p \in Nat \ {0} /\ net'.queue[p] = net.queue[p + 1]
          /\ p + 1 \in At("delta") \cup At("argsDone")
      BY <1>2
    <3>2. \/ IdIn(bridge.calls, net.queue[p + 1].call)
          \/ \E q \in At("added") : q < p + 1 /\ net.queue[q].call = net.queue[p + 1].call
      BY <2>1, <3>1 DEF NamedCalls
    <3>3. CASE \E q \in At("added") : q < p + 1 /\ net.queue[q].call = net.queue[p + 1].call
      <4>1. PICK q \in At("added") : q < p + 1 /\ net.queue[q].call = net.queue[p + 1].call
        BY <3>3
      <4>2. CASE q = 1
        BY <1>1, <1>7, <3>1, <4>1, <4>2
      <4>3. CASE q # 1
        <5>1. q - 1 \in At("added")' /\ net'.queue[q - 1] = net.queue[q] /\ q \in Nat
          BY <1>4, <4>1, <4>3
        <5>2. q - 1 < p
          BY <3>1, <4>1, <5>1
        <5>. QED BY <3>1, <4>1, <5>1, <5>2
      <4>. QED BY <4>2, <4>3
    <3>. QED BY <1>7, <3>1, <3>2, <3>3
  <2>3. \A p, q \in At("argsDone")' : net'.queue[p].call = net'.queue[q].call => p = q
    <3>. SUFFICES ASSUME NEW p \in At("argsDone")', NEW q \in At("argsDone")',
                         net'.queue[p].call = net'.queue[q].call
                  PROVE  p = q
      OBVIOUS
    <3>1. /\ p + 1 \in At("argsDone") /\ q + 1 \in At("argsDone") /\ p \in Nat /\ q \in Nat
          /\ net.queue[p + 1].call = net.queue[q + 1].call
      BY <1>2
    <3>2. p + 1 = q + 1
      BY <2>1, <3>1 DEF NamedCalls
    <3>. QED BY <3>1, <3>2
  <2>4. \A p \in At("argsDone")' :
           /\ net'.queue[p].call \in up'.complete
           /\ \A c \in CallIds : HandedOn(c)' => net'.queue[p].call # c
    <3>1. \A p \in At("argsDone") :
             /\ net.queue[p].call \in up.complete
             /\ \A c \in CallIds : HandedOn(c) => net.queue[p].call # c
      BY <2>1 DEF NamedCalls
    <3>. QED BY ZenonT(40), <1>2, <3>1
  <2>5. \A c \in CallIds : HandedOn(c)' => c \in up'.complete
    BY <2>1 DEF NamedCalls
  <2>6. ~net'.closed => \A c \in 1..up'.opened :
           IdIn(bridge'.calls, c) \/ \E q \in At("added")' : net'.queue[q].call = c
    <3>1. ~net.closed => \A c \in 1..up.opened :
             IdIn(bridge.calls, c) \/ \E q \in At("added") : net.queue[q].call = c
      BY <2>1 DEF NamedCalls
    <3>2. \A c : (\E q \in At("added") : net.queue[q].call = c)
                 => c = b \/ \E q \in At("added")' : net'.queue[q].call = c
      BY ZenonT(40), <1>1, <1>4
    <3>. QED BY <1>7, <3>1, <3>2
  <2>. QED BY <2>2, <2>3, <2>4, <2>5, <2>6 DEF NamedCalls
<1>11. ASSUME ~setup.parallel PROVE UnnamedCalls'
  <2>1. UnnamedCalls
    BY <1>3, <1>11 DEF WayOnce
  <2>2. LastOpen' /\ bridge'.last # 0
    <3>1. \A c \in CallIds : HandedOn(c) => c # b
      BY <1>3, <1>8 DEF BridgedCalls
    <3>. QED BY <1>6, <3>1 DEF LastOpen
  <2>3. \A p \in At("delta")' \cup At("argsDone")' : net'.queue[p].call = 0
    <3>1. \A p \in At("delta") \cup At("argsDone") : net.queue[p].call = 0
      BY <2>1 DEF UnnamedCalls
    <3>. QED BY ZenonT(40), <1>2, <3>1
  <2>4. \A p, q \in At("argsDone")' : p < q => \E k \in At("added")' : p < k /\ k < q
    <3>. SUFFICES ASSUME NEW p \in At("argsDone")', NEW q \in At("argsDone")', p < q
                  PROVE  \E k \in At("added")' : p < k /\ k < q
      OBVIOUS
    <3>1. p + 1 \in At("argsDone") /\ q + 1 \in At("argsDone") /\ p + 1 < q + 1
          /\ p \in Nat \ {0} /\ q \in Nat
      BY <1>2
    <3>2. PICK k \in At("added") : p + 1 < k /\ k < q + 1
      BY <2>1, <3>1 DEF UnnamedCalls
    <3>3. k \in Nat /\ k # 1
      BY <1>4, <3>1, <3>2
    <3>4. k - 1 \in At("added")' /\ p < k - 1 /\ k - 1 < q
      BY <1>4, <3>1, <3>2, <3>3
    <3>. QED BY <3>4
  <2>5. \A c \in 1..up'.opened : c < up'.opened => c \in up'.complete
    BY <2>1 DEF UnnamedCalls
  <2>6. ~net'.closed /\ up'.opened > 0 /\ up'.opened \notin up'.complete =>
            \/ \E q \in At("added")' : \A p \in At("argsDone")' : p < q
            \/ At("argsDone")' = {}
    <3>. SUFFICES ASSUME ~net'.closed, up'.opened > 0, up'.opened \notin up'.complete
                  PROVE  \/ \E q \in At("added")' : \A p \in At("argsDone")' : p < q
                         \/ At("argsDone")' = {}
      OBVIOUS
    <3>1. CASE At("argsDone") = {}
      BY <1>2, <3>1
    <3>2. CASE \E q \in At("added") : \A p \in At("argsDone") : p < q
      <4>1. PICK q \in At("added") : \A p \in At("argsDone") : p < q
        BY <3>2
      <4>2. CASE q = 1
        <5>1. At("argsDone")' = {}
          <6>. SUFFICES ASSUME NEW p \in At("argsDone")' PROVE FALSE
            OBVIOUS
          <6>1. p \in Nat \ {0} /\ p + 1 < 1
            BY <1>2, <4>1, <4>2
          <6>. QED BY <6>1
        <5>. QED BY <5>1
      <4>3. CASE q # 1
        <5>1. q - 1 \in At("added")' /\ q \in Nat
          BY <1>4, <4>1, <4>3
        <5>2. \A p \in At("argsDone")' : p < q - 1
          BY <1>2, <4>1, <5>1
        <5>. QED BY <5>1, <5>2
      <4>. QED BY <4>2, <4>3
    <3>3. ~net.closed /\ up.opened > 0 /\ up.opened \notin up.complete
      OBVIOUS
    <3>4. \/ \E q \in At("added") : \A p \in At("argsDone") : p < q
          \/ At("argsDone") = {}
      BY <2>1, <3>3 DEF UnnamedCalls
    <3>. QED BY <3>1, <3>2, <3>4
  <2>. QED BY <2>2, <2>3, <2>4, <2>5, <2>6 DEF UnnamedCalls
<1>. QED BY <1>9, <1>10, <1>11 DEF WayOnce

\* The end of a call's arguments: its head is handed on, for the first time.
LEMMA OnceArgsDone ==
    ASSUME Types, OnceInv, setup.format = "responses", net.queue # <<>>,
           net'.queue = Tail(net.queue), net'.closed = net.closed,
           Head(net.queue).kind = "argsDone",
           setup' = setup, up' = up,
           bridge'.calls = bridge.calls, bridge'.last = bridge.last,
           NEW t \in 1..Len(bridge.calls),
           setup.parallel => bridge.calls[t].id = Head(net.queue).call,
           ~setup.parallel => t = bridge.last,
           \A c \in CallIds : HandedOn(c)' <=> HandedOn(c) \/ c = bridge.calls[t].id
    PROVE  WayOnce' /\ ~HandedOn(bridge.calls[t].id)
<1>. DEFINE b == bridge.calls[t].id
<1>1. /\ \A kind : \A p \in At(kind)' :
            p \in Nat \ {0} /\ p + 1 \in At(kind) /\ net'.queue[p] = net.queue[p + 1]
      /\ \A kind : \A p \in At(kind) :
            /\ p \in Nat \ {0}
            /\ p = 1 \/ (p - 1 \in At(kind)' /\ net'.queue[p - 1] = net.queue[p])
      /\ 1 \in At("argsDone") /\ 1 \notin At("added") /\ net.queue[1] = Head(net.queue)
  BY AtTail
<1>2. /\ \A p \in At("added")' :
            p \in Nat \ {0} /\ p + 1 \in At("added") /\ net'.queue[p] = net.queue[p + 1]
      /\ \A p \in At("delta")' :
            p \in Nat \ {0} /\ p + 1 \in At("delta") /\ net'.queue[p] = net.queue[p + 1]
      /\ \A p \in At("argsDone")' :
            p \in Nat \ {0} /\ p + 1 \in At("argsDone") /\ net'.queue[p] = net.queue[p + 1]
  BY <1>1
<1>3. WayOnce /\ BridgedCalls
  BY OnceParts DEF WayOnce
<1>4. \A q \in At("added") : q - 1 \in At("added")' /\ net'.queue[q - 1] = net.queue[q]
                             /\ q \in Nat \ {0}
  BY <1>1
<1>5. b \in CallIds /\ IdIn(bridge.calls, b) /\ bridge.last \in Nat
  <2>1. bridge.calls \in Seq(CallRecords) /\ bridge.last \in Nat
    BY BridgeTypes DEF Types
  <2>2. bridge.calls[t] \in CallRecords /\ t \in DOMAIN bridge.calls
    BY <2>1
  <2>. QED BY <2>1, <2>2 DEF CallRecords, IdIn
<1>6. ~HandedOn(b)
  <2>1. CASE setup.parallel
    <3>1. NamedCalls /\ net.queue[1].call = b
      BY <1>1, <1>3, <2>1 DEF WayOnce
    <3>. QED BY <1>1, <1>5, <3>1 DEF NamedCalls
  <2>2. CASE ~setup.parallel
    <3>1. UnnamedCalls /\ b = bridge.calls[bridge.last].id
      BY <1>3, <2>2 DEF WayOnce
    <3>2. ~\E q \in At("added") : q < 1
      BY <1>4
    <3>3. LastOpen
      BY <1>1, <3>1, <3>2 DEF UnnamedCalls
    <3>. QED BY <1>5, <3>1, <3>3 DEF LastOpen
  <2>. QED BY <2>1, <2>2
<1>. HIDE DEF b
<1>7. \A c \in CallIds : HandedOn(c)' <=> HandedOn(c) \/ c = b
  BY DEF b
<1>8. BridgedCalls'
  <2>1. Once(bridge'.calls) /\ \A i \in DOMAIN bridge'.calls : bridge'.calls[i].id <= up'.opened
    BY <1>3 DEF BridgedCalls
  <2>2. \A p, q \in At("added")' : net'.queue[p].call = net'.queue[q].call => p = q
    <3>. SUFFICES ASSUME NEW p \in At("added")', NEW q \in At("added")',
                         net'.queue[p].call = net'.queue[q].call
                  PROVE  p = q
      OBVIOUS
    <3>1. /\ p + 1 \in At("added") /\ q + 1 \in At("added") /\ p \in Nat /\ q \in Nat
          /\ net.queue[p + 1].call = net.queue[q + 1].call
      BY <1>2
    <3>2. p + 1 = q + 1
      BY <1>3, <3>1 DEF BridgedCalls
    <3>. QED BY <3>1, <3>2
  <2>3. \A p \in At("added")' : net'.queue[p].call <= up'.opened
                                /\ ~IdIn(bridge'.calls, net'.queue[p].call)
    BY <1>2, <1>3 DEF BridgedCalls
  <2>4. \A c \in CallIds : HandedOn(c)' => IdIn(bridge'.calls, c)
    BY <1>3, <1>5, <1>7 DEF BridgedCalls
  <2>. QED BY <2>1, <2>2, <2>3, <2>4 DEF BridgedCalls
<1>9. ASSUME setup.parallel PROVE NamedCalls'
  <2>1. NamedCalls /\ net.queue[1].call = b
    BY <1>1, <1>3, <1>9 DEF WayOnce, b
  <2>2. \A p \in At("delta")' \cup At("argsDone")' :
           \/ IdIn(bridge'.calls, net'.queue[p].call)
           \/ \E q \in At("added")' : q < p /\ net'.queue[q].call = net'.queue[p].call
    <3>. SUFFICES ASSUME NEW p \in At("delta")' \cup At("argsDone")'
                  PROVE  \/ IdIn(bridge'.calls, net'.queue[p].call)
                         \/ \E q \in At("added")' : q < p /\ net'.queue[q].call = net'.queue[p].call
      OBVIOUS
    <3>1. /\ p \in Nat \ {0} /\ net'.queue[p] = net.queue[p + 1]
          /\ p + 1 \in At("delta") \cup At("argsDone")
      BY <1>2
    <3>2. \/ IdIn(bridge.calls, net.queue[p + 1].call)
          \/ \E q \in At("added") : q < p + 1 /\ net.queue[q].call = net.queue[p + 1].call
      BY <2>1, <3>1 DEF NamedCalls
    <3>3. CASE \E q \in At("added") : q < p + 1 /\ net.queue[q].call = net.queue[p + 1].call
      <4>1. PICK q \in At("added") : q < p + 1 /\ net.queue[q].call = net.queue[p + 1].call
        BY <3>3
      <4>2. q - 1 \in At("added")' /\ net'.queue[q - 1] = net.queue[q] /\ q \in Nat
        BY <1>4, <4>1
      <4>3. q - 1 < p
        BY <3>1, <4>1, <4>2
      <4>. QED BY <3>1, <4>1, <4>2, <4>3
    <3>. QED BY <3>1, <3>2, <3>3
  <2>3. \A p, q \in At("argsDone")' : net'.queue[p].call = net'.queue[q].call => p = q
    <3>. SUFFICES ASSUME NEW p \in At("argsDone")', NEW q \in At("argsDone")',
                         net'.queue[p].call = net'.queue[q].call
                  PROVE  p = q
      OBVIOUS
    <3>1. /\ p + 1 \in At("argsDone") /\ q + 1 \in At("argsDone") /\ p \in Nat /\ q \in Nat
          /\ net.queue[p + 1].call = net.queue[q + 1].call
      BY <1>2
    <3>2. p + 1 = q + 1
      BY <2>1, <3>1 DEF NamedCalls
    <3>. QED BY <3>1, <3>2
  <2>4. \A p \in At("argsDone")' :
           /\ net'.queue[p].call \in up'.complete
           /\ \A c \in CallIds : HandedOn(c)' => net'.queue[p].call # c
    <3>. SUFFICES ASSUME NEW p \in At("argsDone")'
                  PROVE  /\ net'.queue[p].call \in up'.complete
                         /\ \A c \in CallIds : HandedOn(c)' => net'.queue[p].call # c
      OBVIOUS
    <3>1. p \in Nat \ {0} /\ p + 1 \in At("argsDone") /\ net'.queue[p] = net.queue[p + 1]
      BY <1>2
    <3>2. /\ net.queue[p + 1].call \in up.complete
          /\ \A c \in CallIds : HandedOn(c) => net.queue[p + 1].call # c
      BY <2>1, <3>1 DEF NamedCalls
    <3>3. net.queue[p + 1].call # b
      <4>1. p + 1 # 1
        BY <3>1
      <4>. QED BY <1>1, <2>1, <3>1, <4>1 DEF NamedCalls
    <3>. QED BY <1>7, <3>1, <3>2, <3>3
  <2>5. \A c \in CallIds : HandedOn(c)' => c \in up'.complete
    <3>1. b \in up.complete /\ \A c \in CallIds : HandedOn(c) => c \in up.complete
      BY <1>1, <2>1 DEF NamedCalls
    <3>. QED BY <1>7, <3>1
  <2>6. ~net'.closed => \A c \in 1..up'.opened :
           IdIn(bridge'.calls, c) \/ \E q \in At("added")' : net'.queue[q].call = c
    <3>1. ~net.closed => \A c \in 1..up.opened :
             IdIn(bridge.calls, c) \/ \E q \in At("added") : net.queue[q].call = c
      BY <2>1 DEF NamedCalls
    <3>2. \A c : (\E q \in At("added") : net.queue[q].call = c)
                 => \E q \in At("added")' : net'.queue[q].call = c
      BY <1>4
    <3>. QED BY <3>1, <3>2
  <2>. QED BY <2>2, <2>3, <2>4, <2>5, <2>6 DEF NamedCalls
<1>10. ASSUME ~setup.parallel PROVE UnnamedCalls'
  <2>1. UnnamedCalls
    BY <1>3, <1>10 DEF WayOnce
  <2>2. \A p \in At("delta")' \cup At("argsDone")' : net'.queue[p].call = 0
    <3>1. \A p \in At("delta") \cup At("argsDone") : net.queue[p].call = 0
      BY <2>1 DEF UnnamedCalls
    <3>. QED BY <1>2, <3>1
  <2>3. \A p \in At("delta")' : bridge'.last # 0 \/ \E q \in At("added")' : q < p
    <3>. SUFFICES ASSUME NEW p \in At("delta")', bridge.last = 0
                  PROVE  \E q \in At("added")' : q < p
      OBVIOUS
    <3>1. p \in Nat \ {0} /\ p + 1 \in At("delta")
      BY <1>2
    <3>2. PICK q \in At("added") : q < p + 1
      BY <2>1, <3>1 DEF UnnamedCalls
    <3>3. q - 1 \in At("added")' /\ q \in Nat /\ q - 1 < p
      BY <1>4, <3>1, <3>2
    <3>. QED BY <3>3
  <2>4. \A p \in At("argsDone")' : \E k \in At("added")' : k < p
    <3>. SUFFICES ASSUME NEW p \in At("argsDone")'
                  PROVE  \E k \in At("added")' : k < p
      OBVIOUS
    <3>1. p \in Nat \ {0} /\ p + 1 \in At("argsDone") /\ 1 < p + 1
      BY <1>2
    <3>2. PICK k \in At("added") : 1 < k /\ k < p + 1
      BY <1>1, <2>1, <3>1 DEF UnnamedCalls
    <3>3. k - 1 \in At("added")' /\ k - 1 < p
      BY <1>4, <3>1, <3>2
    <3>. QED BY <3>3
  <2>5. \A p, q \in At("argsDone")' : p < q => \E k \in At("added")' : p < k /\ k < q
    <3>. SUFFICES ASSUME NEW p \in At("argsDone")', NEW q \in At("argsDone")', p < q
                  PROVE  \E k \in At("added")' : p < k /\ k < q
      OBVIOUS
    <3>1. p + 1 \in At("argsDone") /\ q + 1 \in At("argsDone") /\ p + 1 < q + 1
          /\ p \in Nat /\ q \in Nat
      BY <1>2
    <3>2. PICK k \in At("added") : p + 1 < k /\ k < q + 1
      BY <2>1, <3>1 DEF UnnamedCalls
    <3>3. k - 1 \in At("added")' /\ p < k - 1 /\ k - 1 < q
      BY <1>4, <3>1, <3>2
    <3>. QED BY <3>3
  <2>6. \A c \in 1..up'.opened : c < up'.opened => c \in up'.complete
    BY <2>1 DEF UnnamedCalls
  <2>7. ~net'.closed /\ up'.opened > 0 => bridge'.last # 0 \/ \E q \in At("added")' : TRUE
    BY <1>4, <2>1 DEF UnnamedCalls
  <2>8. ~net'.closed /\ up'.opened > 0 /\ up'.opened \notin up'.complete =>
            \E q \in At("added")' : \A p \in At("argsDone")' : p < q
    <3>. SUFFICES ASSUME ~net'.closed, up'.opened > 0, up'.opened \notin up'.complete
                  PROVE  \E q \in At("added")' : \A p \in At("argsDone")' : p < q
      OBVIOUS
    <3>1. ~net.closed /\ up.opened > 0 /\ up.opened \notin up.complete /\ At("argsDone") # {}
      BY <1>1
    <3>2. PICK q \in At("added") : \A p \in At("argsDone") : p < q
      BY <2>1, <3>1 DEF UnnamedCalls
    <3>3. \A p \in At("argsDone")' : p < q - 1
      BY <1>2, <1>4, <3>2
    <3>. QED BY <1>4, <3>2, <3>3
  <2>. QED BY <2>2, <2>3, <2>4, <2>5, <2>6, <2>7, <2>8 DEF UnnamedCalls
<1>. QED BY <1>6, <1>8, <1>9, <1>10 DEF WayOnce, b

\* The calls whose heads are in what the bridge has still to write.
LEMMA HandedByBridge ==
    ASSUME scan' = scan, pipe' = pipe, Heads(bridge.todo) = {}
    PROVE  /\ Heads(bridge'.todo) = {} => \A c : HandedOn(c)' <=> HandedOn(c)
           /\ \A c : HandedOn(c)' <=> HandedOn(c) \/ HeadIn(bridge'.todo, c)
BY DEF HandedOn, HeadIn

LEMMA OnceReads ==
    ASSUME Types, OnceInv, BridgeReads, scan' = scan
    PROVE  OnceInv'
<1>. DEFINE line == Head(net.queue)
<1>1. /\ UNCHANGED <<setup, up, pipe>> /\ bridge.todo = <<>> /\ bridge.ending = "no"
      /\ net.queue # <<>> /\ net' = [net EXCEPT !.queue = Tail(net.queue)]
      /\ setup.format = "responses" /\ LineRead(line) /\ setup' = setup /\ up' = up /\ pipe' = pipe
  BY BridgeReadCases
<1>2. net'.queue = Tail(net.queue) /\ net'.closed = net.closed
  BY <1>1 DEF Types, Channels
<1>3. /\ bridge.calls \in Seq(CallRecords) /\ bridge.todo \in Seq(Lines)
      /\ DOMAIN bridge.calls = 1..Len(bridge.calls)
      /\ Heads(bridge.todo) = {} /\ net.queue \in Seq(Lines)
  BY <1>1, BridgeTypes, ChannelTypes DEF Types, Heads
<1>4. line.kind \in BridgeKinds
  <2>1. 1 \in DOMAIN net.queue /\ line = net.queue[1]
    BY <1>1, <1>3, TailAt
  <2>. QED BY <1>1, <2>1 DEF Types, Kinds
<1>. HIDE DEF line
<1>5. Once(scan.calls) /\ Once(scan'.calls) /\ PipeHeads
  BY <1>1, OnceParts
<1>6. Heads(bridge'.todo) = {} => PipeHeads'
  BY <1>1, <1>5 DEF PipeHeads, HeadIn
<1>7. Heads(bridge'.todo) = {} => \A c \in CallIds : HandedOn(c)' <=> HandedOn(c)
  BY <1>1, <1>3, HandedByBridge
<1>8. Heads(<<>>) = {}
  BY DEF Heads
<1>9. CASE line.kind = "added"
  <2>1. /\ bridge'.calls = Append(bridge.calls, [id |-> line.call, args |-> <<>>])
        /\ bridge'.last = Len(bridge.calls) + 1 /\ bridge'.todo = <<>>
    BY <1>1, <1>9 DEF LineRead, Quietly
  <2>2. Heads(bridge'.todo) = {}
    BY <1>8, <2>1
  <2>3. \A c \in CallIds : HandedOn(c)' <=> HandedOn(c)
    BY <1>7, <2>2
  <2>4. WayOnce'
    BY <1>1, <1>2, <1>9, <2>1, <2>3, OnceAdded DEF line
  <2>. QED BY <1>1, <1>5, <1>6, <2>2, <2>4, OncePartsNext
<1>10. CASE line.kind = "argsDone"
  <2>. DEFINE t == Target(line.call)
              tc == bridge.calls[t]
              h == Line("head", tc.id, tc.args)
  <2>1. /\ bridge'.calls = bridge.calls /\ bridge'.last = bridge.last
        /\ bridge'.todo = <<h>>
    BY <1>1, <1>10 DEF LineRead, SameBridge
  <2>2. /\ t \in 1..Len(bridge.calls)
        /\ setup.parallel => bridge.calls[t].id = line.call
        /\ ~setup.parallel => t = bridge.last
    BY <1>1, <1>10, TargetFound DEF line
  <2>3. tc \in CallRecords
    BY <1>3, <2>2
  <2>. HIDE DEF tc
  <2>4. tc.id \in CallIds /\ h.kind = "head" /\ h.call = tc.id
    <3>1. tc.id \in CallIds /\ tc.id \in 0..MaxCalls /\ tc.args \in Seq(Frags)
      BY <2>3, BridgeAssumption DEF CallRecords, CallIds, Frags
    <3>. QED BY <3>1, LinesOK DEF LineKinds
  <2>. HIDE DEF h
  <2>5. DOMAIN bridge'.todo = {1} /\ bridge'.todo[1] = h
    BY <2>1
  <2>6. Heads(bridge'.todo) = {1} /\ \A c : HeadIn(bridge'.todo, c) <=> c = tc.id
    BY <2>4, <2>5 DEF Heads, HeadIn
  <2>7. \A c \in CallIds : HandedOn(c)' <=> HandedOn(c) \/ c = tc.id
    BY <1>1, <1>3, <2>6, HandedByBridge
  <2>. HIDE DEF t
  <2>8. WayOnce' /\ ~HandedOn(tc.id)
    BY <1>1, <1>2, <1>10, <2>1, <2>2, <2>7, OnceArgsDone DEF line, tc
  <2>9. PipeHeads'
    <3>1. \A p \in Heads(pipe.queue) : pipe.queue[p].call # tc.id
      BY <2>8 DEF HandedOn, HeadIn
    <3>2. ~IdIn(scan.calls, tc.id)
      BY <2>8 DEF HandedOn
    <3>. QED BY <1>1, <1>5, <2>4, <2>5, <2>6, <3>1, <3>2 DEF PipeHeads
  <2>. QED BY <1>1, <1>5, <2>8, <2>9, OncePartsNext
<1>11. CASE line.kind \notin {"added", "argsDone"}
  <2>1. Heads(bridge'.todo) = {}
    <3>1. CASE line.kind \in {"delta", "noise"}
      BY <1>1, <1>8, <3>1 DEF LineRead, Quietly
    <3>2. CASE line.kind = "text"
      <4>1. bridge'.todo = <<line>>
        BY <1>1, <3>2 DEF LineRead
      <4>2. DOMAIN bridge'.todo = {1} /\ bridge'.todo[1] = line
        BY <4>1
      <4>. QED BY <3>2, <4>2 DEF Heads
    <3>3. CASE line.kind \in {"completed", "failed"}
      <4>1. PICK reason \in {"tool_calls", "stop", "length", "error"} :
                bridge'.todo = <<Reasoned("finish", reason), Plain("done")>>
        BY <1>1, <3>3 DEF LineRead
      <4>2. Heads(<<Reasoned("finish", reason), Plain("done")>>) = {}
        BY EndsOK
      <4>. QED BY <4>1, <4>2
    <3>. QED BY <1>4, <1>11, <3>1, <3>2, <3>3 DEF BridgeKinds
  <2>2. SameIds /\ (bridge'.last = bridge.last \/ setup.parallel)
    <3>1. CASE line.kind = "delta"
      <4>. DEFINE t == Target(line.call)
      <4>1. /\ t \in 1..Len(bridge.calls) /\ (~setup.parallel => t = bridge.last)
        BY <1>1, <3>1, TargetFound DEF line
      <4>2. /\ bridge'.calls = [bridge.calls EXCEPT ![t].args = @ \o line.frags]
            /\ bridge'.last = t
        BY <1>1, <3>1 DEF LineRead
      <4>. HIDE DEF t
      <4>3. \A i \in DOMAIN bridge.calls : bridge.calls[i] \in CallRecords
        BY <1>3
      <4>. QED BY <1>3, <4>1, <4>2, <4>3 DEF SameIds, CallRecords
    <3>2. CASE line.kind # "delta"
      <4>1. bridge'.calls = bridge.calls /\ bridge'.last = bridge.last
        BY <1>1, <1>4, <1>11, <3>2 DEF LineRead, SameBridge, BridgeKinds
      <4>. QED BY <4>1 DEF SameIds
    <3>. QED BY <3>1, <3>2
  <2>3. \A c \in CallIds : HandedOn(c)' <=> HandedOn(c)
    BY <1>7, <2>1
  <2>4. WayOnce'
    BY <1>1, <1>2, <1>11, <2>2, <2>3, OnceQuiet DEF line
  <2>. QED BY <1>1, <1>5, <1>6, <2>1, <2>4, OncePartsNext
<1>. QED BY <1>9, <1>10, <1>11

LEMMA OnceBridge ==
    ASSUME Types, OnceInv, Bridge, scan' = scan
    PROVE  OnceInv'
<1>1. CASE BridgeReads
  BY <1>1, OnceReads
<1>2. CASE BridgeReadsEnd \/ BridgeWrites \/ BridgeWriteFails \/ BridgeExits
  <2>1. /\ setup' = setup /\ up' = up /\ setup.format = "responses"
        /\ bridge'.calls = bridge.calls /\ bridge'.last = bridge.last
    BY <1>2, BridgeRestCases
  <2>2. Once(scan.calls) /\ Once(scan'.calls) /\ PipeHeads /\ WayOnce
    BY <2>1, OnceParts
  <2>3. bridge.todo \in Seq(Lines) /\ net \in Channels /\ pipe \in Channels /\ Heads(<<>>) = {}
    BY BridgeTypes DEF Types, Heads
  <2>4. CASE BridgeReadsEnd
    <3>1. /\ net' = net /\ pipe' = pipe /\ bridge.todo = <<>>
          /\ \/ bridge'.todo = <<>>
             \/ \E reason \in {"tool_calls", "stop"} :
                   bridge'.todo = <<Reasoned("finish", reason), Plain("done")>>
      <4>1. ~(BridgeWrites \/ BridgeWriteFails \/ BridgeExits)
        BY <2>4 DEF BridgeReadsEnd, BridgeWriteFails, BridgeWrites, BridgeExits
      <4>. QED BY <1>2, <4>1, BridgeRestCases
    <3>2. Heads(bridge'.todo) = {} /\ Heads(bridge.todo) = {}
      BY <2>3, <3>1, EndsOK
    <3>3. \A c \in CallIds : HandedOn(c)' => HandedOn(c)
      BY <3>1, <3>2, HandedByBridge
    <3>4. net'.queue = net.queue /\ net'.closed = net.closed /\ up'.opened = up.opened
          /\ up'.complete = up.complete
      BY <2>1, <3>1
    <3>5. WayOnce'
      BY <2>1, <2>2, <3>3, <3>4, WayHeld
    <3>6. PipeHeads'
      BY <2>2, <3>1, <3>2 DEF PipeHeads, HeadIn
    <3>. QED BY <2>1, <2>2, <3>5, <3>6, OncePartsNext
  <2>5. CASE BridgeWrites
    <3>1. /\ net' = net /\ bridge.todo # <<>> /\ pipe.queue = <<>>
          /\ pipe' = [pipe EXCEPT !.queue = <<Head(bridge.todo)>>]
          /\ bridge'.todo = Tail(bridge.todo)
      <4>1. ~(BridgeReadsEnd \/ BridgeWriteFails \/ BridgeExits)
        BY <2>3, <2>5 DEF BridgeReadsEnd, BridgeWriteFails, BridgeWrites, BridgeExits
      <4>. QED BY <1>2, <4>1, BridgeRestCases
    <3>. DEFINE line == Head(bridge.todo)
    <3>2. pipe'.queue = <<line>>
      BY <2>3, <3>1 DEF Channels
    <3>3. /\ line = bridge.todo[1] /\ 1 \in DOMAIN bridge.todo
          /\ \A p \in DOMAIN bridge'.todo : /\ bridge'.todo[p] = bridge.todo[p + 1]
                                            /\ p \in Nat \ {0} /\ p + 1 \in DOMAIN bridge.todo
      BY <2>3, <3>1, TailAt
    <3>. HIDE DEF line
    <3>4. DOMAIN pipe'.queue = {1} /\ pipe'.queue[1] = line
      BY <3>2
    <3>5. \A c : HeadIn(bridge'.todo, c) => HeadIn(bridge.todo, c)
      BY <3>3 DEF HeadIn, Heads
    <3>6. \A c : HeadIn(pipe'.queue, c) => HeadIn(bridge.todo, c)
      BY <3>3, <3>4 DEF HeadIn, Heads
    <3>7. \A c \in CallIds : HandedOn(c)' => HandedOn(c)
      BY <3>5, <3>6 DEF HandedOn
    <3>8. net'.queue = net.queue /\ net'.closed = net.closed /\ up'.opened = up.opened
          /\ up'.complete = up.complete
      BY <2>1, <3>1
    <3>9. WayOnce'
      BY <2>1, <2>2, <3>7, <3>8, WayHeld
    <3>10. \A p \in Heads(bridge'.todo) : p + 1 \in Heads(bridge.todo) /\ p \in Nat \ {0}
                                          /\ bridge'.todo[p] = bridge.todo[p + 1]
      BY <3>3 DEF Heads
    <3>11. \A p, q \in Heads(bridge.todo) : p = q
      BY <2>2 DEF PipeHeads
    <3>12. \A p \in Heads(pipe'.queue) : p = 1 /\ 1 \in Heads(bridge.todo)
                                         /\ pipe'.queue[p] = bridge.todo[1]
      BY <3>3, <3>4 DEF Heads
    <3>13. Heads(pipe'.queue) # {} => Heads(bridge'.todo) = {}
      <4>. SUFFICES ASSUME NEW p \in Heads(pipe'.queue), NEW q \in Heads(bridge'.todo)
                    PROVE  FALSE
        OBVIOUS
      <4>1. 1 \in Heads(bridge.todo) /\ q + 1 \in Heads(bridge.todo) /\ q \in Nat \ {0}
        BY <3>10, <3>12
      <4>2. q + 1 = 1
        BY <3>11, <4>1
      <4>. QED BY <4>1, <4>2
    <3>14. PipeHeads'
      <4>1. \A p \in Heads(pipe'.queue) : ~IdIn(scan'.calls, pipe'.queue[p].call)
                                          /\ ~HeadIn(bridge'.todo, pipe'.queue[p].call)
        BY <2>2, <3>12, <3>13 DEF PipeHeads, HeadIn
      <4>2. \A p \in Heads(bridge'.todo) : ~IdIn(scan'.calls, bridge'.todo[p].call)
        BY <2>2, <3>10 DEF PipeHeads
      <4>3. \A p, q \in Heads(bridge'.todo) : p = q
        <5>. SUFFICES ASSUME NEW p \in Heads(bridge'.todo), NEW q \in Heads(bridge'.todo)
                      PROVE  p = q
          OBVIOUS
        <5>1. p + 1 = q + 1 /\ p \in Nat /\ q \in Nat
          BY <3>10, <3>11
        <5>. QED BY <5>1
      <4>. QED BY <4>1, <4>2, <4>3 DEF PipeHeads
    <3>. QED BY <2>1, <2>2, <3>9, <3>14, OncePartsNext
  <2>6. CASE BridgeWriteFails \/ BridgeExits
    <3>1. \/ net' = net /\ pipe' = pipe /\ bridge'.todo = <<>>
          \/ /\ bridge'.todo = <<>>
             /\ net' = [net EXCEPT !.closed = TRUE, !.queue = <<>>]
             /\ pipe' = [pipe EXCEPT !.end = bridge.ending]
      <4>1. ~(BridgeReadsEnd \/ BridgeWrites)
        BY <2>3, <2>6 DEF BridgeReadsEnd, BridgeWriteFails, BridgeWrites, BridgeExits
      <4>. QED BY <1>2, <4>1, BridgeRestCases
    <3>2. net'.queue = net.queue \/ (net'.queue = <<>> /\ net'.closed)
      BY <2>3, <3>1 DEF Channels
    <3>3. net'.closed = net.closed \/ net'.closed
      BY <2>3, <3>1 DEF Channels
    <3>4. pipe'.queue = pipe.queue
      BY <2>3, <3>1 DEF Channels
    <3>5. bridge'.todo = <<>> /\ scan'.calls = scan.calls /\ up'.opened = up.opened
          /\ up'.complete = up.complete
      BY <2>1, <3>1
    <3>. QED BY <2>1, <3>2, <3>3, <3>4, <3>5, OnceLoses
  <2>. QED BY <1>2, <2>4, <2>5, <2>6
<1>. QED BY <1>1, <1>2 DEF Bridge
-------------------------------------------------------------------------------
(* What the reader takes, and closes                                       *)

LEMMA TakeCases ==
    ASSUME Types, Take, Source.queue # <<>>, setup' = setup
    PROVE  /\ up' = up /\ bridge' = bridge /\ WayTypes'
           /\ setup.format = "chat" => /\ pipe' = pipe /\ net'.queue = Tail(net.queue)
                                       /\ net'.closed = net.closed /\ net'.end = net.end
           /\ setup.format = "responses" =>
                  /\ net' = net /\ pipe'.queue = Tail(pipe.queue) /\ pipe'.queue = <<>>
                  /\ pipe'.closed = pipe.closed /\ pipe'.end = pipe.end
           /\ Head(Source.queue) \in Lines /\ Head(Source.queue).kind \in ChatKinds
           /\ setup.format = "responses" => Head(Source.queue).kind \in PipeKinds
           /\ Head(Source.queue).kind \in {"head", "args"} => Head(Source.queue).call \in CallIds
           /\ 1 \in DOMAIN Source.queue /\ Head(Source.queue) = Source.queue[1]
<1>1. /\ net \in Channels /\ net.queue \in Seq(Lines) /\ Len(net.queue) \in Nat
      /\ pipe \in Channels /\ pipe.queue \in Seq(Lines) /\ Len(pipe.queue) \in Nat
      /\ setup.format \in {"chat", "responses"} /\ MaxInFlight \in Nat
      /\ Source = IF setup.format = "chat" THEN net ELSE pipe
  BY ChannelTypes, FrontFacts DEF Types
<1>2. CASE setup.format = "chat"
  <2>. DEFINE q == Tail(net.queue)
  <2>1. /\ net' = [net EXCEPT !.queue = q] /\ up' = up /\ bridge' = bridge /\ pipe' = pipe
        /\ Source = net /\ net.queue # <<>>
    BY <1>1, <1>2 DEF Take
  <2>2. /\ q \in Seq(Lines) /\ Len(q) = Len(net.queue) - 1 /\ Head(net.queue) \in Lines
        /\ Head(net.queue) = net.queue[1] /\ 1 \in DOMAIN net.queue
    BY <1>1, <2>1, TailAt
  <2>3. Kinds(net.queue, ChatKinds) /\ OwnCall(net.queue)
    BY <1>2 DEF Types
  <2>4. /\ Kinds(q, ChatKinds) /\ OwnCall(q) /\ Head(net.queue).kind \in ChatKinds
        /\ Head(net.queue).kind \in {"head", "args"} => Head(net.queue).call \in CallIds
    BY <1>1, <2>1, <2>3, KindsTail
  <2>. HIDE DEF q
  <2>5. net' \in Channels /\ net'.queue = q /\ net'.closed = net.closed /\ net'.end = net.end
    BY <1>1, <2>1, <2>2 DEF Channels
  <2>6. Len(q) <= MaxInFlight
    <3>1. Len(net.queue) <= MaxInFlight
      BY DEF Types
    <3>. QED BY <1>1, <2>2, <3>1
  <2>7. WayTypes'
    BY <1>2, <2>1, <2>4, <2>5, <2>6 DEF Types, WayTypes
  <2>. QED BY <1>2, <2>1, <2>2, <2>4, <2>5, <2>7 DEF q
<1>3. CASE setup.format = "responses"
  <2>. DEFINE q == Tail(pipe.queue)
  <2>1. /\ pipe' = [pipe EXCEPT !.queue = q] /\ up' = up /\ bridge' = bridge /\ net' = net
        /\ Source = pipe /\ pipe.queue # <<>>
    BY <1>1, <1>3 DEF Take
  <2>2. /\ q \in Seq(Lines) /\ Len(q) = Len(pipe.queue) - 1 /\ Head(pipe.queue) \in Lines
        /\ Head(pipe.queue) = pipe.queue[1] /\ 1 \in DOMAIN pipe.queue
        /\ Len(pipe.queue) \in Nat \ {0}
    BY <1>1, <2>1, TailAt
  <2>3. Kinds(pipe.queue, PipeKinds) /\ OwnCall(pipe.queue) /\ Len(pipe.queue) <= 1
    BY <1>3 DEF Types
  <2>4. /\ Kinds(q, PipeKinds) /\ OwnCall(q) /\ Head(pipe.queue).kind \in PipeKinds
        /\ Head(pipe.queue).kind \in {"head", "args"} => Head(pipe.queue).call \in CallIds
    BY <1>1, <2>1, <2>3, KindsTail
  <2>5. q = <<>> /\ Len(q) <= 1
    BY <2>2, <2>3
  <2>. HIDE DEF q
  <2>6. pipe' \in Channels /\ pipe'.queue = q /\ pipe'.closed = pipe.closed /\ pipe'.end = pipe.end
    BY <1>1, <2>1, <2>2 DEF Channels
  <2>7. WayTypes'
    BY <1>3, <2>1, <2>4, <2>5, <2>6 DEF Types, WayTypes
  <2>. QED BY <1>3, <2>1, <2>2, <2>4, <2>5, <2>6, <2>7 DEF q, PipeKinds, ChatKinds
<1>. QED BY <1>1, <1>2, <1>3

LEMMA CloseCases ==
    ASSUME Types, CloseReader, setup' = setup
    PROVE  /\ up' = up /\ bridge' = bridge /\ WayTypes'
           /\ net'.queue = net.queue \/ (net'.queue = <<>> /\ net'.closed)
           /\ net'.closed = net.closed \/ net'.closed
           /\ net'.end = net.end /\ pipe'.end = pipe.end
           /\ pipe'.queue = pipe.queue \/ pipe'.queue = <<>>
<1>1. /\ net \in Channels /\ net.queue \in Seq(Lines) /\ pipe \in Channels
      /\ pipe.queue \in Seq(Lines)
      /\ setup.format \in {"chat", "responses"} /\ MaxInFlight \in Nat /\ Len(<<>>) = 0
  BY ChannelTypes, FrontFacts DEF Types
<1>2. CASE setup.format = "chat"
  <2>1. /\ up' = up /\ bridge' = bridge /\ pipe' = pipe
        /\ \/ net' = [net EXCEPT !.closed = TRUE]
           \/ net' = [net EXCEPT !.closed = TRUE, !.queue = <<>>]
    BY <1>2 DEF CloseReader
  <2>2. /\ net' \in Channels /\ net'.closed /\ net'.end = net.end
        /\ net'.queue = net.queue \/ net'.queue = <<>>
    BY <1>1, <2>1, KindsNone DEF Channels
  <2>3. WayTypes'
    <3>1. CASE net'.queue = net.queue
      BY <1>2, <2>1, <2>2, <3>1 DEF Types, WayTypes
    <3>2. CASE net'.queue = <<>>
      BY <1>1, <1>2, <2>1, <2>2, <3>2, KindsNone DEF Types, WayTypes
    <3>. QED BY <2>2, <3>1, <3>2
  <2>. QED BY <2>1, <2>2, <2>3
<1>3. CASE setup.format = "responses"
  <2>1. /\ up' = up /\ bridge' = bridge /\ net' = net
        /\ \/ pipe' = [pipe EXCEPT !.closed = TRUE]
           \/ pipe' = [pipe EXCEPT !.closed = TRUE, !.queue = <<>>]
    BY <1>3 DEF CloseReader
  <2>2. /\ pipe' \in Channels /\ pipe'.closed /\ pipe'.end = pipe.end
        /\ pipe'.queue = pipe.queue \/ pipe'.queue = <<>>
    BY <1>1, <2>1, KindsNone DEF Channels
  <2>3. WayTypes'
    <3>1. CASE pipe'.queue = pipe.queue
      BY <1>3, <2>1, <2>2, <3>1 DEF Types, WayTypes
    <3>2. CASE pipe'.queue = <<>>
      BY <1>1, <1>3, <2>1, <2>2, <3>2, KindsNone DEF Types, WayTypes
    <3>. QED BY <2>2, <3>1, <3>2
  <2>. QED BY <2>1, <2>2, <2>3
<1>. QED BY <1>1, <1>2, <1>3

LEMMA OnceCloses ==
    ASSUME Types, OnceInv, CloseReader, setup' = setup, scan'.calls = scan.calls
    PROVE  OnceInv'
<1>1. /\ up' = up /\ bridge' = bridge
      /\ net'.queue = net.queue \/ (net'.queue = <<>> /\ net'.closed)
      /\ net'.closed = net.closed \/ net'.closed
      /\ pipe'.queue = pipe.queue \/ pipe'.queue = <<>>
  BY CloseCases
<1>2. /\ up'.opened = up.opened /\ up'.complete = up.complete
      /\ bridge'.calls = bridge.calls /\ bridge'.last = bridge.last /\ bridge'.todo = bridge.todo
  BY <1>1
<1>. QED BY <1>1, <1>2, OnceLoses

-------------------------------------------------------------------------------
(* Each call is announced once: the reader takes a line                    *)

\* A head that reaches the scanner is of a call it does not have yet.
LEMMA HeadIsNew ==
    ASSUME Types, OnceInv, Source.queue # <<>>, Head(Source.queue).kind = "head",
           setup.caller = "stream" \/ setup.format = "responses"
    PROVE  ~IdIn(scan.calls, Head(Source.queue).call)
<1>1. /\ Source = (IF setup.format = "chat" THEN net ELSE pipe) /\ Source.queue \in Seq(Lines)
      /\ setup.format \in {"chat", "responses"}
  BY FrontFacts, ChannelTypes
<1>2. 1 \in DOMAIN Source.queue /\ Head(Source.queue) = Source.queue[1]
  BY <1>1, TailAt
<1>3. 1 \in Heads(Source.queue)
  BY <1>2 DEF Heads
<1>4. CASE setup.format = "chat"
  BY <1>1, <1>2, <1>3, <1>4 DEF OnceInv, ChatHeads
<1>5. CASE setup.format = "responses"
  <2>1. PipeHeads
    BY <1>5, OnceParts
  <2>. QED BY <1>1, <1>2, <1>3, <1>5, <2>1 DEF PipeHeads
<1>. QED BY <1>1, <1>4, <1>5

LEMMA HeadsTail ==
    ASSUME NEW q \in Seq(Lines), q # <<>>
    PROVE  \A p \in Heads(Tail(q)) :
              p \in Nat \ {0} /\ p + 1 \in Heads(q) /\ Tail(q)[p] = q[p + 1]
BY TailAt DEF Heads

SameScan == /\ DOMAIN scan'.calls = DOMAIN scan.calls
            /\ \A i \in DOMAIN scan.calls : scan'.calls[i].id = scan.calls[i].id

LEMMA OnceTakesSame ==
    ASSUME Types, OnceInv, Take, Source.queue # <<>>, setup' = setup, SameScan
    PROVE  OnceInv'
<1>1. /\ up' = up /\ bridge' = bridge /\ setup.format \in {"chat", "responses"}
      /\ setup.format = "chat" => /\ net'.queue = Tail(net.queue) /\ net'.closed = net.closed
                                  /\ net.queue # <<>>
      /\ setup.format = "responses" => net' = net /\ pipe'.queue = <<>>
  BY TakeCases, FrontFacts
<1>2. Once(scan'.calls) /\ \A c : IdIn(scan'.calls, c) <=> IdIn(scan.calls, c)
  BY DEF OnceInv, Once, IdIn, SameScan
<1>3. setup.format = "chat" /\ setup.caller = "stream" => ChatHeads'
  <2>. SUFFICES ASSUME setup.format = "chat", setup.caller = "stream" PROVE ChatHeads'
    OBVIOUS
  <2>1. ChatHeads
    BY DEF OnceInv
  <2>2. net.queue \in Seq(Lines)
    BY ChannelTypes DEF Types
  <2>3. \A p \in Heads(net'.queue) :
           p \in Nat \ {0} /\ p + 1 \in Heads(net.queue) /\ net'.queue[p] = net.queue[p + 1]
    BY <1>1, <2>2, HeadsTail
  <2>4. \A p, q \in Heads(net'.queue) : net'.queue[p].call = net'.queue[q].call => p = q
    <3>. SUFFICES ASSUME NEW p \in Heads(net'.queue), NEW q \in Heads(net'.queue),
                         net'.queue[p].call = net'.queue[q].call
                  PROVE  p = q
      OBVIOUS
    <3>1. p + 1 = q + 1 /\ p \in Nat /\ q \in Nat
      BY <2>1, <2>3 DEF ChatHeads
    <3>. QED BY <3>1
  <2>. QED BY <1>1, <1>2, <2>1, <2>3, <2>4 DEF ChatHeads, SameScan
<1>4. ASSUME setup.format = "responses" PROVE OnceInv'
  <2>1. Heads(pipe'.queue) = {}
    BY <1>1, <1>4 DEF Heads
  <2>2. WayOnce /\ PipeHeads
    BY <1>4, OnceParts
  <2>3. \A c \in CallIds : HandedOn(c)' => HandedOn(c)
    BY <1>1, <1>2, <2>1 DEF HandedOn, HeadIn
  <2>4. up'.opened = up.opened /\ up'.complete = up.complete
        /\ bridge'.calls = bridge.calls /\ bridge'.last = bridge.last
        /\ net'.queue = net.queue /\ net'.closed = net.closed
    BY <1>1, <1>4
  <2>5. WayOnce'
    BY <2>2, <2>3, <2>4, WayHeld
  <2>6. PipeHeads'
    BY <1>1, <1>2, <2>1, <2>2 DEF PipeHeads
  <2>. QED BY <1>2, <1>4, <2>5, <2>6, OncePartsNext
<1>5. ASSUME setup.format = "chat" PROVE OnceInv'
  BY <1>2, <1>3, <1>5 DEF OnceInv
<1>. QED BY <1>1, <1>4, <1>5

LEMMA OnceTakesNew ==
    ASSUME Types, OnceInv, Take, Source.queue # <<>>, setup' = setup,
           Head(Source.queue).kind = "head" \/ (setup.format = "chat" /\ setup.caller = "assemble"),
           NEW tc \in CallRecords, tc.id = Head(Source.queue).call,
           scan'.calls = Append(scan.calls, tc), ~IdIn(scan.calls, tc.id)
    PROVE  OnceInv'
<1>1. /\ up' = up /\ bridge' = bridge /\ setup.format \in {"chat", "responses"}
      /\ setup.format = "chat" => /\ net'.queue = Tail(net.queue) /\ net'.closed = net.closed
                                  /\ net.queue # <<>>
      /\ setup.format = "responses" => net' = net /\ pipe'.queue = <<>>
      /\ 1 \in DOMAIN Source.queue /\ Head(Source.queue) = Source.queue[1]
      /\ Source = IF setup.format = "chat" THEN net ELSE pipe
  BY TakeCases, FrontFacts
<1>2. /\ scan.calls \in Seq(CallRecords) /\ Len(scan.calls) \in Nat
      /\ DOMAIN scan.calls = 1..Len(scan.calls) /\ DOMAIN scan'.calls = 1..Len(scan.calls) + 1
      /\ \A i \in 1..Len(scan.calls) : scan'.calls[i] = scan.calls[i]
      /\ scan'.calls[Len(scan.calls) + 1] = tc
  <2>1. scan.calls \in Seq(CallRecords)
    BY DEF Types, Scans
  <2>. QED BY <2>1, AppendAt
<1>3. \A c : IdIn(scan'.calls, c) <=> IdIn(scan.calls, c) \/ c = tc.id
  BY <1>2 DEF IdIn
<1>4. Once(scan'.calls)
  <2>1. \A i \in 1..Len(scan.calls) : scan'.calls[i].id # tc.id
    BY <1>2 DEF IdIn
  <2>2. Once(scan.calls)
    BY DEF OnceInv
  <2>. QED BY <1>2, <2>1, <2>2 DEF Once
<1>5. setup.format = "chat" /\ setup.caller = "stream" => ChatHeads'
  <2>. SUFFICES ASSUME setup.format = "chat", setup.caller = "stream" PROVE ChatHeads'
    OBVIOUS
  <2>1. ChatHeads
    BY DEF OnceInv
  <2>2. net.queue \in Seq(Lines)
    BY ChannelTypes DEF Types
  <2>3. \A p \in Heads(net'.queue) :
           p \in Nat \ {0} /\ p + 1 \in Heads(net.queue) /\ net'.queue[p] = net.queue[p + 1]
    BY <1>1, <2>2, HeadsTail
  <2>4. 1 \in Heads(net.queue) /\ net.queue[1].call = tc.id
    BY <1>1 DEF Heads
  <2>5. \A p, q \in Heads(net'.queue) : net'.queue[p].call = net'.queue[q].call => p = q
    <3>. SUFFICES ASSUME NEW p \in Heads(net'.queue), NEW q \in Heads(net'.queue),
                         net'.queue[p].call = net'.queue[q].call
                  PROVE  p = q
      OBVIOUS
    <3>1. p + 1 = q + 1 /\ p \in Nat /\ q \in Nat
      BY <2>1, <2>3 DEF ChatHeads
    <3>. QED BY <3>1
  <2>6. \A p \in Heads(net'.queue) : net'.queue[p].call # tc.id
    <3>. SUFFICES ASSUME NEW p \in Heads(net'.queue), net'.queue[p].call = tc.id
                  PROVE  FALSE
      OBVIOUS
    <3>1. p + 1 = 1 /\ p \in Nat \ {0}
      BY <2>1, <2>3, <2>4 DEF ChatHeads
    <3>. QED BY <3>1
  <2>7. \A i \in DOMAIN scan'.calls : scan'.calls[i].id <= up'.opened
    <3>1. tc.id <= up.opened
      BY <2>1, <2>4 DEF ChatHeads
    <3>. QED BY <1>1, <1>2, <2>1, <3>1 DEF ChatHeads
  <2>. QED BY <1>1, <1>3, <2>1, <2>3, <2>5, <2>6, <2>7 DEF ChatHeads
<1>6. ASSUME setup.format = "responses" PROVE OnceInv'
  <2>1. Heads(pipe'.queue) = {}
    BY <1>1, <1>6 DEF Heads
  <2>2. WayOnce /\ PipeHeads
    BY <1>6, OnceParts
  <2>3. 1 \in Heads(pipe.queue) /\ pipe.queue[1].call = tc.id
    BY <1>1, <1>6 DEF Heads
  <2>4. \A c \in CallIds : HandedOn(c)' => HandedOn(c)
    BY <1>1, <1>3, <2>1, <2>3 DEF HandedOn, HeadIn
  <2>5. up'.opened = up.opened /\ up'.complete = up.complete
        /\ bridge'.calls = bridge.calls /\ bridge'.last = bridge.last
        /\ net'.queue = net.queue /\ net'.closed = net.closed
    BY <1>1, <1>6
  <2>6. WayOnce'
    BY <2>2, <2>4, <2>5, WayHeld
  <2>7. \A p \in Heads(bridge.todo) : bridge.todo[p].call # tc.id
    BY <2>2, <2>3 DEF PipeHeads, HeadIn
  <2>8. PipeHeads'
    BY <1>1, <1>3, <2>1, <2>2, <2>7 DEF PipeHeads
  <2>. QED BY <1>4, <1>6, <2>6, <2>8, OncePartsNext
<1>7. ASSUME setup.format = "chat" PROVE OnceInv'
  BY <1>4, <1>5, <1>7 DEF OnceInv
<1>. QED BY <1>1, <1>6, <1>7
-------------------------------------------------------------------------------
(* What a step of the scanner does                                         *)

LEMMA ScanTypes ==
    ASSUME NEW s \in Scans
    PROVE  /\ s.pc \in {"off", "scanning", "exited"} /\ s.started \in BOOLEAN
           /\ s.texts \in Nat /\ s.calls \in Seq(CallRecords) /\ s.sawDone \in BOOLEAN
           /\ s.finish \in {"none", "tool_calls", "stop", "length", "completed",
                            "incomplete", "error"}
           /\ s.malformed \in 0..MaxMalformed + 1
           /\ Len(s.calls) \in Nat /\ DOMAIN s.calls = 1..Len(s.calls)
BY DEF Scans

\* Emit, to a caller that is there and to one that has gone.
Spoke(events) ==
    /\ caller' = caller
    /\ caller = "there" => wire' = wire \o events /\ closed' = closed
    /\ caller = "gone" => wire' = wire /\ closed' \in BOOLEAN

opening == IF scan.texts = 0 THEN <<Event("msg.added"), Event("part.added")>> ELSE <<>>

GoesOn ==
    /\ caller = "there" /\ scan'.pc = "scanning" /\ ready' = ready
    /\ scan'.malformed <= MaxMalformed
    /\ Source.queue # <<>> /\ Take
TextRead ==
    /\ GoesOn /\ scan'.started /\ scan'.texts = scan.texts + 1 /\ scan'.calls = scan.calls
    /\ scan'.sawDone = scan.sawDone
    /\ Spoke(start(scan) \o opening \o <<Event("text.delta")>>)
Begun ==
    /\ GoesOn /\ scan'.started /\ scan'.texts = scan.texts
    /\ scan'.sawDone = scan.sawDone \/ Head(Source.queue).kind = "finish"
    /\ \/ SameScan
       \/ /\ Head(Source.queue).kind = "head"
          /\ \E tc \in CallRecords : /\ tc.id = Head(Source.queue).call
                                     /\ scan'.calls = Append(scan.calls, tc)
    /\ Spoke(start(scan))
Skipped ==
    /\ GoesOn /\ scan'.started = scan.started /\ scan'.texts = scan.texts
    /\ scan'.calls = scan.calls /\ scan'.sawDone = scan.sawDone
    /\ Spoke(<<>>)
Broke ==
    /\ scan'.pc = "exited" /\ ready' = {"failed"} /\ scan'.texts = scan.texts
    /\ scan'.calls = scan.calls /\ scan'.sawDone = scan.sawDone
    /\ Spoke(Append(start(scan), Event("failed")))
    /\ \/ Source.queue # <<>> /\ Take
       \/ UNCHANGED <<up, net, bridge, pipe>>
Quit ==
    /\ scan'.pc = "exited" /\ scan'.started = scan.started /\ scan'.texts = scan.texts
    /\ scan'.calls = scan.calls /\ UNCHANGED link
    /\ ready' \in {{"done"}, {"disconnected", "done"}, {"panic"}}
    /\ ready' = {"done"} => scan.sawDone \/ (Source.queue # <<>> /\ Head(Source.queue).kind = "done")
    /\ ready' = {"disconnected", "done"} => caller = "gone"
    /\ scan'.sawDone = scan.sawDone \/ (Source.queue # <<>> /\ Head(Source.queue).kind = "done")
    /\ \/ Source.queue # <<>> /\ Take
       \/ UNCHANGED <<up, net, bridge, pipe>>

LEMMA EmitSpeaks ==
    ASSUME Types, Control, NEW events, Emit(events)
    PROVE  Spoke(events)
BY DEF Types, Control, Emit, Spoke

\* The scanner has run to its end, saying why.
LEMMA FailedBreaks ==
    ASSUME Types, Control, scan.pc = "scanning", NEW s \in Scans, Failed(s),
           s.texts = scan.texts, s.calls = scan.calls, s.sawDone = scan.sawDone,
           start(s) = start(scan),
           (Source.queue # <<>> /\ Take) \/ UNCHANGED <<up, net, bridge, pipe>>
    PROVE  Broke /\ scan' \in Scans
<1>1. /\ scan' = [[s EXCEPT !.started = TRUE] EXCEPT !.pc = "exited"]
      /\ ready' = ready \cup {"failed"} /\ Emit(Append(start(s), Event("failed")))
  BY DEF Failed, Leave
<1>2. /\ scan' \in Scans /\ scan'.pc = "exited" /\ scan'.texts = scan.texts
      /\ scan'.calls = scan.calls /\ scan'.sawDone = scan.sawDone
  BY <1>1 DEF Scans
<1>3. ready' = {"failed"}
  BY <1>1 DEF Control
<1>4. Spoke(Append(start(scan), Event("failed")))
  BY <1>1, EmitSpeaks
<1>. QED BY <1>2, <1>3, <1>4 DEF Broke

LEMMA LineTaken ==
    ASSUME Types, OnceInv, Control, Scanning, Source.queue # <<>>, Take,
           caller = "there", ~closed,
           LET line == Head(Source.queue) IN
           CASE line.kind = "text"             -> ScanText
             [] line.kind \in {"head", "args"} -> ScanCall(line)
             [] line.kind = "noise"            -> ScanNoise
             [] line.kind = "error"            -> Failed(scan)
             [] line.kind = "finish"           -> ScanFinish(line.reason)
             [] OTHER                          -> Leave([scan EXCEPT !.sawDone = TRUE], {"done"})
                                                  /\ UNCHANGED link
    PROVE  scan' \in Scans /\ (TextRead \/ Begun \/ Skipped \/ Broke \/ Quit)
<1>. DEFINE line == Head(Source.queue)
<1>1. /\ scan \in Scans /\ scan.pc = "scanning" /\ ready = {} /\ scan.malformed <= MaxMalformed
      /\ scan.malformed \in Nat /\ MaxMalformed \in Nat /\ setup' = setup
  BY ScanTypes, FrontFacts DEF Types, Control, Scanning
<1>2. line \in Lines /\ line.kind \in ChatKinds
      /\ (line.kind \in {"head", "args"} => line.call \in CallIds)
  BY <1>1, TakeCases
<1>3. line.frags \in Seq(Frags) /\ line.reason \in {"none", "tool_calls", "stop", "length",
                                                    "completed", "incomplete", "error"}
  BY <1>2 DEF Lines
<1>4. /\ scan.started \in BOOLEAN /\ scan.texts \in Nat /\ scan.calls \in Seq(CallRecords)
      /\ Len(scan.calls) \in Nat /\ DOMAIN scan.calls = 1..Len(scan.calls)
  BY <1>1, ScanTypes
<1>5. /\ line.kind = "text" => ScanText
      /\ line.kind \in {"head", "args"} => ScanCall(line)
      /\ line.kind = "noise" => ScanNoise
      /\ line.kind = "error" => Failed(scan)
      /\ line.kind = "finish" => ScanFinish(line.reason)
      /\ line.kind = "done" => Leave([scan EXCEPT !.sawDone = TRUE], {"done"}) /\ UNCHANGED link
  OBVIOUS
<1>. HIDE DEF line
<1>6. CASE line.kind = "text"
  <2>1. /\ scan' = [scan EXCEPT !.started = TRUE, !.texts = scan.texts + 1]
        /\ ready' = ready /\ Emit(start(scan) \o opening \o <<Event("text.delta")>>)
    BY <1>5, <1>6 DEF ScanText, Continue, opening
  <2>. DEFINE n == scan.texts + 1
  <2>2. n \in Nat /\ scan' = [scan EXCEPT !.started = TRUE, !.texts = n]
    BY <1>4, <2>1
  <2>. HIDE DEF n
  <2>3. /\ scan' \in Scans /\ scan'.started /\ scan'.texts = n /\ scan'.calls = scan.calls
        /\ scan'.sawDone = scan.sawDone /\ scan'.pc = "scanning"
        /\ scan'.malformed = scan.malformed
    BY <1>1, <2>2 DEF Scans
  <2>4. Spoke(start(scan) \o opening \o <<Event("text.delta")>>)
    BY <2>1, EmitSpeaks
  <2>5. TextRead
    BY <1>1, <2>1, <2>3, <2>4 DEF TextRead, GoesOn, n
  <2>. QED BY <2>3, <2>5
<1>7. CASE line.kind \in {"head", "args"}
  <2>. DEFINE n == Len(scan.calls)
              tc == [id |-> line.call, args |-> line.frags]
  <2>1. /\ ready' = ready /\ Emit(start(scan))
        /\ \/ /\ line.kind = "head"
              /\ scan' = [[scan EXCEPT !.started = TRUE] EXCEPT !.calls = Append(@, tc)]
           \/ /\ n > 0
              /\ scan' = [[scan EXCEPT !.started = TRUE] EXCEPT !.calls[n].args = @ \o line.frags]
           \/ scan' = [scan EXCEPT !.started = TRUE]
    BY <1>5, <1>7 DEF ScanCall
  <2>2. Spoke(start(scan))
    BY <2>1, EmitSpeaks
  <2>3. tc \in CallRecords /\ tc.id = line.call
    BY <1>2, <1>3, <1>7 DEF CallRecords, Frags
  <2>4. CASE line.kind = "head" /\ scan' = [[scan EXCEPT !.started = TRUE] EXCEPT !.calls = Append(@, tc)]
    <3>. DEFINE calls == Append(scan.calls, tc)
    <3>1. calls \in Seq(CallRecords)
      BY <1>4, <2>3, AppendAt
    <3>2. scan' = [scan EXCEPT !.started = TRUE, !.calls = calls]
      BY <1>1, <2>4 DEF Scans
    <3>. HIDE DEF calls
    <3>3. /\ scan' \in Scans /\ scan'.started /\ scan'.texts = scan.texts /\ scan'.calls = calls
          /\ scan'.sawDone = scan.sawDone /\ scan'.pc = "scanning"
          /\ scan'.malformed = scan.malformed
      BY <1>1, <3>1, <3>2 DEF Scans
    <3>. HIDE DEF tc
    <3>4. \E t \in CallRecords : t.id = line.call /\ scan'.calls = Append(scan.calls, t)
      BY <2>3, <3>3 DEF calls
    <3>5. Begun
      BY <1>1, <2>1, <2>2, <2>4, <3>3, <3>4 DEF Begun, GoesOn, line
    <3>. QED BY <3>3, <3>5
  <2>5. CASE n > 0 /\ scan' = [[scan EXCEPT !.started = TRUE] EXCEPT !.calls[n].args = @ \o line.frags]
    <3>. DEFINE calls == [scan.calls EXCEPT ![n].args = @ \o line.frags]
    <3>0. n \in 1..Len(scan.calls)
      BY <1>4, <2>5
    <3>1. calls \in Seq(CallRecords) /\ DOMAIN calls = DOMAIN scan.calls
          /\ \A i \in DOMAIN scan.calls : calls[i].id = scan.calls[i].id
      <4>. HIDE DEF n
      <4>1. scan.calls[n] \in CallRecords
        BY <1>4, <3>0
      <4>2. scan.calls[n].args \o line.frags \in Seq(Frags)
        BY <1>3, <4>1 DEF CallRecords, Frags
      <4>3. [scan.calls[n] EXCEPT !.args = @ \o line.frags] \in CallRecords
        BY <4>1, <4>2 DEF CallRecords, Frags
      <4>4. \A i \in DOMAIN scan.calls : scan.calls[i] \in CallRecords
        BY <1>4
      <4>5. \A i \in DOMAIN scan.calls : calls[i].id = scan.calls[i].id
        BY <1>4, <3>0, <4>4 DEF CallRecords
      <4>. QED BY <1>4, <3>0, <4>3, <4>5
    <3>2. scan' = [scan EXCEPT !.started = TRUE, !.calls = calls]
      <4>. HIDE DEF n
      <4>. QED BY <1>1, <2>5 DEF Scans
    <3>. HIDE DEF calls
    <3>3. /\ scan' \in Scans /\ scan'.started /\ scan'.texts = scan.texts /\ scan'.calls = calls
          /\ scan'.sawDone = scan.sawDone /\ scan'.pc = "scanning"
          /\ scan'.malformed = scan.malformed
      BY <1>1, <3>1, <3>2 DEF Scans
    <3>4. SameScan
      BY <3>1, <3>3 DEF SameScan
    <3>5. Begun
      BY <1>1, <2>1, <2>2, <3>3, <3>4 DEF Begun, GoesOn
    <3>. QED BY <3>3, <3>5
  <2>6. CASE scan' = [scan EXCEPT !.started = TRUE]
    <3>1. /\ scan' \in Scans /\ scan'.started /\ scan'.texts = scan.texts
          /\ scan'.calls = scan.calls /\ scan'.sawDone = scan.sawDone /\ scan'.pc = "scanning"
          /\ scan'.malformed = scan.malformed
      BY <1>1, <2>6 DEF Scans
    <3>2. Begun
      BY <1>1, <2>1, <2>2, <3>1 DEF Begun, GoesOn, SameScan
    <3>. QED BY <3>1, <3>2
  <2>. QED BY <2>1, <2>4, <2>5, <2>6
<1>8. CASE line.kind = "noise"
  <2>. DEFINE m == scan.malformed + 1
              s == [scan EXCEPT !.malformed = m]
  <2>1. IF s.malformed > MaxMalformed THEN Failed(s) ELSE Continue(s, <<>>)
    BY <1>5, <1>8 DEF ScanNoise
  <2>2. m \in 0..MaxMalformed + 1
    BY <1>1
  <2>. HIDE DEF m
  <2>3. /\ s \in Scans /\ s.started = scan.started /\ s.texts = scan.texts
        /\ s.calls = scan.calls /\ s.sawDone = scan.sawDone /\ s.pc = "scanning"
        /\ s.malformed = m
    BY <1>1, <2>2 DEF Scans
  <2>. HIDE DEF s
  <2>4. start(s) = start(scan)
    BY <2>3 DEF start
  <2>5. CASE s.malformed > MaxMalformed
    BY <1>1, <2>1, <2>3, <2>4, <2>5, FailedBreaks
  <2>6. CASE ~(s.malformed > MaxMalformed)
    <3>1. scan' = s /\ ready' = ready /\ Emit(<<>>)
      BY <2>1, <2>6 DEF Continue
    <3>2. Spoke(<<>>)
      BY <3>1, EmitSpeaks
    <3>3. scan'.malformed <= MaxMalformed
      BY <1>1, <2>2, <2>3, <2>6, <3>1
    <3>. QED BY <2>3, <3>1, <3>2, <3>3 DEF Skipped, GoesOn
  <2>. QED BY <2>5, <2>6
<1>9. CASE line.kind = "error"
  BY <1>1, <1>5, <1>9, FailedBreaks
<1>10. CASE line.kind = "finish"
  <2>. DEFINE r == line.reason
  <2>1. /\ scan' = [scan EXCEPT !.started = TRUE, !.finish = r, !.sawDone = TRUE]
        /\ ready' = ready /\ Emit(start(scan))
    BY <1>5, <1>10 DEF ScanFinish, Continue
  <2>. HIDE DEF r
  <2>2. /\ scan' \in Scans /\ scan'.started /\ scan'.texts = scan.texts
        /\ scan'.calls = scan.calls /\ scan'.pc = "scanning" /\ scan'.malformed = scan.malformed
    BY <1>1, <1>3, <2>1 DEF Scans, r
  <2>3. Spoke(start(scan))
    BY <2>1, EmitSpeaks
  <2>4. Begun
    BY <1>1, <1>10, <2>1, <2>2, <2>3 DEF Begun, GoesOn, SameScan, line
  <2>. QED BY <2>2, <2>4
<1>11. CASE line.kind = "done"
  <2>1. /\ scan' = [[scan EXCEPT !.sawDone = TRUE] EXCEPT !.pc = "exited"]
        /\ ready' = ready \cup {"done"} /\ UNCHANGED link
    BY <1>5, <1>11 DEF Leave
  <2>2. /\ scan' \in Scans /\ scan'.started = scan.started /\ scan'.texts = scan.texts
        /\ scan'.calls = scan.calls /\ scan'.pc = "exited" /\ ready' = {"done"}
    BY <1>1, <2>1 DEF Scans
  <2>3. "disconnected" \notin ready' /\ ready' # {"disconnected", "done"}
        /\ Source.queue # <<>> /\ Head(Source.queue).kind = "done" /\ Take
    BY <1>11, <2>2 DEF line
  <2>4. ready' \in {{"done"}, {"disconnected", "done"}, {"panic"}}
    BY <2>2
  <2>5. Quit
    BY <2>1, <2>2, <2>3, <2>4 DEF Quit
  <2>. QED BY <2>2, <2>5
<1>. QED BY <1>2, <1>6, <1>7, <1>8, <1>9, <1>10, <1>11 DEF ChatKinds

LEMMA ScannerCases ==
    ASSUME Types, OnceInv, Control, Scanner
    PROVE  /\ setup' = setup /\ main' = main /\ stalls' = stalls /\ result' = result
           /\ scan.pc = "scanning" /\ ready = {} /\ setup.caller = "stream"
           /\ scan' \in Scans
           /\ TextRead \/ Begun \/ Skipped \/ Broke \/ Quit
<1>1. /\ setup' = setup /\ main' = main /\ stalls' = stalls /\ result' = result
      /\ scan.pc = "scanning" /\ ready = {} /\ setup.caller = "stream" /\ scan \in Scans
      /\ Scanning
  BY DEF Scanner, ScanLine, ScanEnd, ScanPanics, Scanning, Control, Types
<1>2. CASE ScanLine
  <2>1. Source.queue # <<>> /\ Take
    BY <1>2 DEF ScanLine
  <2>2. CASE caller = "gone" \/ closed
    <3>1. /\ scan' = [scan EXCEPT !.pc = "exited"] /\ UNCHANGED link
          /\ ready' = ready \cup {"disconnected", "done"}
      BY <1>2, <2>2 DEF ScanLine, Leave
    <3>2. /\ scan' \in Scans /\ scan'.pc = "exited" /\ scan'.started = scan.started
          /\ scan'.texts = scan.texts /\ scan'.calls = scan.calls
          /\ scan'.sawDone = scan.sawDone
      BY <1>1, <3>1 DEF Scans
    <3>3. caller = "gone"
      BY <2>2 DEF Types, Control
    <3>4. ready' = {"disconnected", "done"}
      BY <1>1, <3>1
    <3>5. Quit
      BY <2>1, <3>1, <3>2, <3>3, <3>4 DEF Quit
    <3>. QED BY <1>1, <3>2, <3>5
  <2>3. CASE ~(caller = "gone" \/ closed)
    <3>1. caller = "there" /\ ~closed
      BY <2>3 DEF Types
    <3>2. LET line == Head(Source.queue) IN
          CASE line.kind = "text"             -> ScanText
            [] line.kind \in {"head", "args"} -> ScanCall(line)
            [] line.kind = "noise"            -> ScanNoise
            [] line.kind = "error"            -> Failed(scan)
            [] line.kind = "finish"           -> ScanFinish(line.reason)
            [] OTHER                          -> Leave([scan EXCEPT !.sawDone = TRUE], {"done"})
                                                 /\ UNCHANGED link
      BY <1>2, <2>3 DEF ScanLine
    <3>. QED BY <1>1, <2>1, <3>1, <3>2, LineTaken
  <2>. QED BY <2>2, <2>3
<1>3. CASE ScanEnd
  <2>1. UNCHANGED <<up, net, bridge, pipe>>
    BY <1>3 DEF ScanEnd
  <2>2. CASE Source.end = "eof" /\ ~Source.closed /\ scan.sawDone
    <3>1. scan' = [scan EXCEPT !.pc = "exited"] /\ UNCHANGED link /\ ready' = ready \cup {"done"}
      BY <1>3, <2>2 DEF ScanEnd, Leave
    <3>2. /\ scan' \in Scans /\ scan'.pc = "exited" /\ scan'.started = scan.started
          /\ scan'.texts = scan.texts /\ scan'.calls = scan.calls
          /\ scan'.sawDone = scan.sawDone /\ ready' = {"done"}
      BY <1>1, <3>1 DEF Scans
    <3>3. "disconnected" \notin ready' /\ ready' # {"disconnected", "done"}
          /\ ready' \in {{"done"}, {"disconnected", "done"}, {"panic"}} /\ scan.sawDone
      BY <2>2, <3>2
    <3>4. Quit
      BY <2>1, <3>1, <3>2, <3>3 DEF Quit
    <3>. QED BY <1>1, <3>2, <3>4
  <2>3. CASE ~(Source.end = "eof" /\ ~Source.closed /\ scan.sawDone)
    <3>1. Failed(scan)
      BY <1>3, <2>3 DEF ScanEnd
    <3>2. Broke /\ scan' \in Scans
      BY <1>1, <2>1, <3>1, FailedBreaks
    <3>. QED BY <1>1, <3>2
  <2>. QED BY <2>2, <2>3
<1>4. CASE ScanPanics
  <2>1. /\ UNCHANGED <<up, net, bridge, pipe, link>>
        /\ scan' = [scan EXCEPT !.pc = "exited"] /\ ready' = ready \cup {"panic"}
    BY <1>4 DEF ScanPanics, Leave
  <2>2. /\ scan' \in Scans /\ scan'.pc = "exited" /\ scan'.started = scan.started
        /\ scan'.texts = scan.texts /\ scan'.calls = scan.calls
        /\ scan'.sawDone = scan.sawDone /\ ready' = {"panic"}
    BY <1>1, <2>1 DEF Scans
  <2>3. Quit
    BY <2>1, <2>2 DEF Quit
  <2>. QED BY <1>1, <2>2, <2>3
<1>. QED BY <1>1, <1>2, <1>3, <1>4 DEF Scanner

LEMMA EventsOK ==
    /\ \A ev \in EventNames : Event(ev) \in Events /\ Event(ev).ev = ev /\ Event(ev).call = 0
    /\ \A ev \in EventNames, tc \in CallRecords, frags \in Seq(Frags) :
          /\ CallEvent(ev, tc, frags) \in Events /\ CallEvent(ev, tc, frags).ev = ev
          /\ CallEvent(ev, tc, frags).call = tc.id
<1>1. <<>> \in Seq(Frags)
  OBVIOUS
<1>2. \A ev : Event(ev) = [ev |-> ev, call |-> 0, frags |-> <<>>]
  BY DEF Event
<1>3. \A ev, tc, frags : CallEvent(ev, tc, frags) = [ev |-> ev, call |-> tc.id, frags |-> frags]
  BY DEF CallEvent
<1>4. \A tc \in CallRecords : tc.id \in Nat
  BY DEF CallRecords, CallIds
<1>5. \A ev \in EventNames : [ev |-> ev, call |-> 0, frags |-> <<>>] \in Events
  BY <1>1 DEF Events
<1>6. \A ev \in EventNames, n \in Nat, frags \in Seq(Frags) :
         [ev |-> ev, call |-> n, frags |-> frags] \in Events
  BY DEF Events
<1>. QED BY <1>2, <1>3, <1>4, <1>5, <1>6

LEMMA PairOf ==
    ASSUME NEW S, NEW a \in S, NEW b \in S
    PROVE  /\ <<a, b>> \in Seq(S) /\ Len(<<a, b>>) = 2 /\ DOMAIN <<a, b>> = 1..2
           /\ <<a, b>>[1] = a /\ <<a, b>>[2] = b
OBVIOUS

LEMMA OneOf ==
    ASSUME NEW S, NEW a \in S
    PROVE  <<a>> \in Seq(S) /\ Len(<<a>>) = 1 /\ DOMAIN <<a>> = 1..1 /\ <<a>>[1] = a
OBVIOUS

\* The events of the scanner.
LEMMA ScanEvents ==
    /\ start(scan) \in Seq(Events) /\ opening \in Seq(Events)
    /\ <<Event("text.delta")>> \in Seq(Events) /\ Event("failed") \in Events
    /\ start(scan) \o opening \o <<Event("text.delta")>> \in Seq(Events)
    /\ Append(start(scan), Event("failed")) \in Seq(Events) /\ <<>> \in Seq(Events)
<1>. DEFINE c == Event("created")  i == Event("in_progress")  t == Event("text.delta")
            m == Event("msg.added")  q == Event("part.added")  f == Event("failed")
<1>1. c \in Events /\ i \in Events /\ t \in Events /\ m \in Events /\ q \in Events /\ f \in Events
  BY EventsOK DEF EventNames
<1>2. start(scan) = IF scan.started THEN <<>> ELSE <<c, i>>
  BY DEF start
<1>3. opening = IF scan.texts = 0 THEN <<m, q>> ELSE <<>>
  BY DEF opening
<1>. HIDE DEF c, i, t, m, q, f
<1>4. start(scan) \in Seq(Events) /\ opening \in Seq(Events) /\ <<t>> \in Seq(Events)
  BY <1>1, <1>2, <1>3, PairOf, OneOf
<1>5. start(scan) \o opening \o <<t>> \in Seq(Events)
  BY <1>4, ConcatAt
<1>6. Append(start(scan), f) \in Seq(Events)
  BY <1>1, <1>4, AppendAt
<1>. QED BY <1>1, <1>4, <1>5, <1>6 DEF t, f

LEMMA SpokeTypes ==
    ASSUME Types, Control, NEW events \in Seq(Events), Spoke(events)
    PROVE  /\ wire' \in Seq(Events) /\ caller' \in {"there", "gone"} /\ closed' \in BOOLEAN
           /\ caller' = "gone" => wire' = <<>>
           /\ caller' = "there" => ~closed'
<1>1. wire \in Seq(Events) /\ caller \in {"there", "gone"} /\ closed \in BOOLEAN
  BY DEF Types
<1>2. CASE caller = "there"
  <2>1. wire' = wire \o events /\ closed' = closed /\ caller' = "there"
    BY <1>2 DEF Spoke
  <2>2. wire \o events \in Seq(Events)
    BY <1>1, ConcatAt
  <2>. QED BY <1>1, <1>2, <2>1, <2>2 DEF Control
<1>3. CASE caller = "gone"
  BY <1>1, <1>3 DEF Spoke, Control
<1>. QED BY <1>1, <1>2, <1>3

\* What the caller has after a step of the scanner.
LEMMA ScannerLink ==
    ASSUME Types, OnceInv, Control, Scanner
    PROVE  /\ wire' \in Seq(Events) /\ caller' \in {"there", "gone"} /\ closed' \in BOOLEAN
           /\ caller' = "gone" => wire' = <<>>
           /\ caller' = "there" => ~closed'
<1>1. ASSUME \E events \in Seq(Events) : Spoke(events)
      PROVE  /\ wire' \in Seq(Events) /\ caller' \in {"there", "gone"} /\ closed' \in BOOLEAN
             /\ caller' = "gone" => wire' = <<>>
             /\ caller' = "there" => ~closed'
  <2>1. PICK events \in Seq(Events) : Spoke(events)
    BY <1>1
  <2>. QED BY <2>1, SpokeTypes
<1>2. CASE TextRead \/ Begun \/ Skipped \/ Broke
  BY <1>1, <1>2, ScanEvents DEF TextRead, Begun, Skipped, Broke
<1>3. CASE Quit
  BY <1>3 DEF Quit, link, Types, Control
<1>. QED BY <1>2, <1>3, ScannerCases

LEMMA ScannerTypes ==
    ASSUME Types, OnceInv, Control, Scanner
    PROVE  Types'
<1>1. /\ setup' = setup /\ main' = main /\ stalls' = stalls /\ result' = result
      /\ scan' \in Scans /\ ready = {}
      /\ TextRead \/ Begun \/ Skipped \/ Broke \/ Quit
  BY ScannerCases
<1>2. WayTypes'
  <2>1. CASE Source.queue # <<>> /\ Take
    BY <1>1, <2>1, TakeCases
  <2>2. CASE UNCHANGED <<up, net, bridge, pipe>>
    <3>1. up' = up /\ net' = net /\ bridge' = bridge /\ pipe' = pipe
      BY <2>2
    <3>. QED BY <1>1, <3>1, TypesParts DEF WayTypes
  <2>. QED BY <1>1, <2>1, <2>2 DEF TextRead, Begun, Skipped, Broke, Quit, GoesOn
<1>3. ready' \subseteq {"done", "failed", "disconnected", "panic"}
  <2>1. CASE TextRead \/ Begun \/ Skipped
    BY <1>1, <2>1 DEF TextRead, Begun, Skipped, GoesOn
  <2>2. CASE Broke
    BY <2>2 DEF Broke
  <2>3. CASE Quit
    BY <2>3 DEF Quit
  <2>. QED BY <1>1, <2>1, <2>2, <2>3
<1>4. FarTypes'
  BY <1>1, <1>3, ScannerLink DEF Types, FarTypes
<1>. QED BY <1>2, <1>4, TypesPartsNext

LEMMA ScannerOnce ==
    ASSUME Types, OnceInv, Control, Scanner
    PROVE  OnceInv'
<1>1. /\ setup' = setup /\ setup.caller = "stream"
      /\ TextRead \/ Begun \/ Skipped \/ Broke \/ Quit
  BY ScannerCases
<1>2. ASSUME scan'.calls = scan.calls, UNCHANGED <<up, net, bridge, pipe>> PROVE OnceInv'
  <2>1. /\ up'.opened = up.opened /\ up'.complete = up.complete
        /\ bridge'.calls = bridge.calls /\ bridge'.last = bridge.last
        /\ bridge'.todo = bridge.todo /\ scan'.calls = scan.calls
        /\ net'.queue = net.queue /\ net'.closed = net.closed /\ pipe'.queue = pipe.queue
    BY <1>2
  <2>. QED BY <1>1, <2>1, OnceLoses
<1>3. ASSUME scan'.calls = scan.calls, Source.queue # <<>>, Take PROVE OnceInv'
  <2>1. SameScan
    BY <1>3 DEF SameScan
  <2>. QED BY <1>1, <1>3, <2>1, OnceTakesSame
<1>4. CASE TextRead \/ Skipped
  BY <1>3, <1>4 DEF TextRead, Skipped, GoesOn
<1>5. CASE Broke \/ Quit
  BY <1>2, <1>3, <1>5 DEF Broke, Quit
<1>6. CASE Begun
  <2>1. Source.queue # <<>> /\ Take
    BY <1>6 DEF Begun, GoesOn
  <2>2. CASE SameScan
    BY <1>1, <2>1, <2>2, OnceTakesSame
  <2>3. CASE ~SameScan
    <3>1. Head(Source.queue).kind = "head"
      BY <1>6, <2>3 DEF Begun
    <3>2. PICK tc \in CallRecords : /\ tc.id = Head(Source.queue).call
                                    /\ scan'.calls = Append(scan.calls, tc)
      BY <1>6, <2>3 DEF Begun
    <3>3. ~IdIn(scan.calls, tc.id)
      BY <1>1, <2>1, <3>1, <3>2, HeadIsNew
    <3>. QED BY <1>1, <2>1, <3>1, <3>2, <3>3, OnceTakesNew
  <2>. QED BY <2>2, <2>3
<1>. QED BY <1>1, <1>4, <1>5, <1>6

LEMMA ScannerControl ==
    ASSUME Types, OnceInv, Control, Scanner
    PROVE  Control'
<1>1. /\ setup' = setup /\ main' = main /\ setup.caller = "stream"
      /\ scan.pc = "scanning" /\ ready = {}
      /\ TextRead \/ Begun \/ Skipped \/ Broke \/ Quit
  BY ScannerCases
<1>2. main' \notin {"create", "recreate", "peek", "first", "assemble", "assembled", "answered"}
  BY <1>1 DEF Control
<1>3. /\ caller' = "gone" => wire' = <<>>
      /\ caller' = "there" => ~closed'
  BY ScannerLink
<1>4. CASE TextRead \/ Begun \/ Skipped
  <2>1. scan'.pc = "scanning" /\ ready' = {} /\ scan'.malformed <= MaxMalformed
    BY <1>1, <1>4 DEF TextRead, Begun, Skipped, GoesOn
  <2>. QED BY <1>1, <1>2, <1>3, <2>1 DEF Control
<1>5. CASE Broke \/ Quit
  <2>1. scan'.pc = "exited" /\ ("failed" \in ready' => ready' = {"failed"})
    BY <1>5 DEF Broke, Quit
  <2>. QED BY <1>1, <1>2, <1>3, <2>1 DEF Control
<1>. QED BY <1>1, <1>4, <1>5
-------------------------------------------------------------------------------
(* The events of all calls                                                 *)

LEMMA Quarters ==
    ASSUME NEW p \in Nat \ {0}
    PROVE  LET k == (p + 3) \div 4  j == ((p - 1) % 4) + 1 IN
           k \in Nat \ {0} /\ j \in 1..4 /\ p = 4 * (k - 1) + j
<1>. DEFINE q == p - 1
<1>1. q \in Nat /\ p = q + 1
  OBVIOUS
<1>. HIDE DEF q
<1>2. q = 4 * (q \div 4) + (q % 4) /\ (q \div 4) \in Nat /\ (q % 4) \in 0..3
  BY <1>1
<1>3. (q + 4) \div 4 = (q \div 4) + 1
  BY <1>1
<1>4. p + 3 = q + 4 /\ p - 1 = q
  BY <1>1
<1>5. (p + 3) \div 4 = (q \div 4) + 1 /\ ((p - 1) % 4) + 1 = (q % 4) + 1
  BY <1>3, <1>4
<1>. QED BY <1>1, <1>2, <1>5

CallKind(j) == IF j = 1 THEN "call.added" ELSE IF j = 2 THEN "call.delta"
               ELSE IF j = 3 THEN "call.done" ELSE "item.done"

LEMMA OneCallEvents ==
    ASSUME NEW tc \in CallRecords, NEW j \in 1..4
    PROVE  /\ CallEvents(tc)[j] \in Events /\ CallEvents(tc)[j].ev = CallKind(j)
           /\ CallEvents(tc)[j].call = tc.id
<1>. DEFINE a == CallEvent("call.added", tc, <<>>)
            b == CallEvent("call.delta", tc, tc.args)
            c == CallEvent("call.done", tc, tc.args)
            d == CallEvent("item.done", tc, tc.args)
<1>1. tc.args \in Seq(Frags) /\ <<>> \in Seq(Frags)
  BY DEF CallRecords, Frags
<1>2. /\ a \in Events /\ a.ev = "call.added" /\ a.call = tc.id
      /\ b \in Events /\ b.ev = "call.delta" /\ b.call = tc.id
      /\ c \in Events /\ c.ev = "call.done" /\ c.call = tc.id
      /\ d \in Events /\ d.ev = "item.done" /\ d.call = tc.id
  <2>. DEFINE args == tc.args  none == <<>>
  <2>1. args \in Seq(Frags) /\ none \in Seq(Frags)
    BY <1>1
  <2>. HIDE DEF args, none
  <2>2. /\ CallEvent("call.added", tc, none) \in Events
        /\ CallEvent("call.added", tc, none).ev = "call.added"
        /\ CallEvent("call.added", tc, none).call = tc.id
    BY <2>1, EventsOK DEF EventNames
  <2>3. \A ev \in {"call.delta", "call.done", "item.done"} :
           /\ CallEvent(ev, tc, args) \in Events /\ CallEvent(ev, tc, args).ev = ev
           /\ CallEvent(ev, tc, args).call = tc.id
    BY <2>1, EventsOK DEF EventNames
  <2>. QED BY <2>2, <2>3 DEF args, none
<1>3. CallEvents(tc) = <<a, b, c, d>>
  BY DEF CallEvents
<1>. HIDE DEF a, b, c, d
<1>4. /\ CallEvents(tc)[1] = a /\ CallEvents(tc)[2] = b
      /\ CallEvents(tc)[3] = c /\ CallEvents(tc)[4] = d
  BY <1>3
<1>5. j = 1 \/ j = 2 \/ j = 3 \/ j = 4
  OBVIOUS
<1>. QED BY <1>2, <1>4, <1>5 DEF CallKind

\* The p-th event is the j-th of the k-th call.
LEMMA AllEvents ==
    ASSUME scan.calls \in Seq(CallRecords)
    PROVE  /\ AllCallEvents \in Seq(Events) /\ Len(AllCallEvents) = 4 * Len(scan.calls)
           /\ \A p \in 1..4 * Len(scan.calls) : \E k \in 1..Len(scan.calls), j \in 1..4 :
                 /\ p = 4 * (k - 1) + j
                 /\ AllCallEvents[p].ev = CallKind(j) /\ AllCallEvents[p].call = scan.calls[k].id
<1>. DEFINE n == Len(scan.calls)  m == 4 * n
            K(p) == (p + 3) \div 4  J(p) == ((p - 1) % 4) + 1
<1>1. n \in Nat /\ m \in Nat /\ m = 4 * n
  OBVIOUS
<1>2. \A p \in 1..m : K(p) \in 1..n /\ J(p) \in 1..4 /\ p = 4 * (K(p) - 1) + J(p)
  <2>. SUFFICES ASSUME NEW p \in 1..m
                PROVE  K(p) \in 1..n /\ J(p) \in 1..4 /\ p = 4 * (K(p) - 1) + J(p)
    OBVIOUS
  <2>1. p \in Nat \ {0}
    BY <1>1
  <2>2. K(p) \in Nat \ {0} /\ J(p) \in 1..4 /\ p = 4 * (K(p) - 1) + J(p)
    BY <2>1, Quarters
  <2>. HIDE DEF K, J, m, n
  <2>3. K(p) <= n
    BY <1>1, <2>2
  <2>. QED BY <1>1, <2>2, <2>3
<1>3. AllCallEvents = [p \in 1..m |-> CallEvents(scan.calls[K(p)])[J(p)]]
  BY DEF AllCallEvents
<1>. HIDE DEF K, J, m, n
<1>4. \A k \in 1..n : scan.calls[k] \in CallRecords
  BY DEF n
<1>5. \A p \in 1..m : /\ AllCallEvents[p] \in Events
                      /\ AllCallEvents[p].ev = CallKind(J(p))
                      /\ AllCallEvents[p].call = scan.calls[K(p)].id
  <2>. SUFFICES ASSUME NEW p \in 1..m
                PROVE  /\ AllCallEvents[p] \in Events
                       /\ AllCallEvents[p].ev = CallKind(J(p))
                       /\ AllCallEvents[p].call = scan.calls[K(p)].id
    OBVIOUS
  <2>1. scan.calls[K(p)] \in CallRecords /\ J(p) \in 1..4
    BY <1>2, <1>4
  <2>2. AllCallEvents[p] = CallEvents(scan.calls[K(p)])[J(p)]
    BY <1>3
  <2>. QED BY <2>1, <2>2, OneCallEvents
<1>6. AllCallEvents \in Seq(Events) /\ Len(AllCallEvents) = m
  <2>1. AllCallEvents \in [1..m -> Events]
    BY <1>3, <1>5
  <2>. QED BY <1>1, <2>1
<1>7. \A p \in 1..m : \E k \in 1..n, j \in 1..4 :
         /\ p = 4 * (k - 1) + j
         /\ AllCallEvents[p].ev = CallKind(j) /\ AllCallEvents[p].call = scan.calls[k].id
  BY <1>2, <1>5
<1>. QED BY <1>6, <1>7 DEF m, n

LEMMA CloseMsgOK == closeMsg \in Seq(Events)
<1>. DEFINE a == Event("text.done")  b == Event("part.done")  c == Event("msg.done")
<1>1. a \in Events /\ b \in Events /\ c \in Events
  BY EventsOK DEF EventNames
<1>2. closeMsg = IF scan.texts = 0 THEN <<>> ELSE <<a, b, c>>
  BY DEF closeMsg
<1>. HIDE DEF a, b, c
<1>. QED BY <1>1, <1>2

LEMMA FinalEvents ==
    ASSUME scan.calls \in Seq(CallRecords)
    PROVE  closeMsg \o AllCallEvents \o <<Event("completed")>> \in Seq(Events)
<1>1. Event("completed") \in Events
  BY EventsOK DEF EventNames
<1>2. <<Event("completed")>> \in Seq(Events)
  BY <1>1, OneOf
<1>. QED BY <1>2, AllEvents, CloseMsgOK, ConcatAt
-------------------------------------------------------------------------------
(* The handler                                                             *)

\* A step that closes the reader and leaves the scanner's locals alone.
LEMMA Closing ==
    ASSUME Types, OnceInv, CloseReader, setup' = setup, scan' = scan, ready' = ready
    PROVE  /\ WayTypes' /\ OnceInv' /\ up' = up /\ bridge' = bridge
           /\ net'.end = net.end
           /\ scan' \in Scans /\ ready' \subseteq {"done", "failed", "disconnected", "panic"}
<1>1. scan'.calls = scan.calls
  OBVIOUS
<1>2. OnceInv'
  BY <1>1, OnceCloses
<1>. QED BY <1>2, CloseCases DEF Types

\* A step that opens a new stream.
LEMMA Dialled ==
    ASSUME Types, Dial, setup' = setup, scan' = scan, scan = IdleScan
    PROVE  WayTypes' /\ OnceInv'
<1>1. /\ up' = Silence /\ net' = Fresh /\ pipe' = Fresh /\ setup.format \in {"chat", "responses"}
      /\ setup \in Setups
      /\ bridge' = IdleBridge
  BY FrontFacts DEF Dial, Types
<1>2. Silence \in Ups /\ Silence.complete = {} /\ Silence.opened = 0
  BY BridgeAssumption DEF Silence, Ups
<1>3. /\ bridge' \in Bridges /\ bridge'.last = 0 /\ bridge'.calls = <<>>
      /\ bridge'.todo = <<>> /\ bridge'.pc = "off"
  BY <1>1 DEF IdleBridge, Bridges
<1>4. Fresh \in Channels /\ Fresh.queue = <<>> /\ Len(<<>>) = 0 /\ DOMAIN <<>> = {}
      /\ MaxInFlight \in Nat
  BY FrontFacts
<1>5. WayTypes'
  BY <1>1, <1>2, <1>3, <1>4, KindsNone DEF WayTypes
<1>6. /\ Heads(net'.queue) = {} /\ Heads(pipe'.queue) = {} /\ Heads(bridge'.todo) = {}
      /\ \A kind : At(kind)' = {}
      /\ DOMAIN bridge'.calls = {} /\ scan.calls = <<>> /\ DOMAIN scan.calls = {}
  BY <1>1, <1>3, <1>4 DEF Heads, At, IdleScan
<1>7. \A c : ~HandedOn(c)'
  BY <1>6 DEF HandedOn, HeadIn, IdIn
<1>8. Once(scan'.calls) /\ ChatHeads'
  BY <1>6 DEF Once, ChatHeads
<1>9. BridgedCalls'
  BY <1>6, <1>7 DEF BridgedCalls, Once
<1>10. up'.opened = 0 /\ up'.complete = {}
  BY <1>1, <1>2
<1>11. NamedCalls' /\ UnnamedCalls'
  <2>1. NamedCalls'
    BY <1>6, <1>7, <1>10 DEF NamedCalls
  <2>2. UnnamedCalls'
    BY <1>6, <1>10 DEF UnnamedCalls
  <2>. QED BY <2>1, <2>2
<1>12. OnceInv'
  BY <1>6, <1>8, <1>9, <1>11 DEF OnceInv
<1>. QED BY <1>5, <1>12

FinalWords == closeMsg \o AllCallEvents \o <<Event("completed")>>

LEMMA CompletedSpeaks ==
    ASSUME Types, Control, Completed
    PROVE  Spoke(FinalWords)
BY EmitSpeaks DEF Completed, FinalWords

LEMMA StatusOK ==
    /\ \A reason : statusFromFinishReason(reason) \in {"none", "completed", "incomplete"}
    /\ \A s, t, c : [status |-> s, texts |-> t, calls |-> c].status = s
BY DEF statusFromFinishReason

\* What the handler does when it does not assemble: nothing to the calls.
LEMMA HandlerSteps ==
    ASSUME Types, OnceInv, Control,
           \/ Create \/ FormatTold \/ FirstData \/ FirstReadFails \/ LeftBeforeData \/ Stalled
           \/ Completed \/ Aborted \/ IdleTimeout \/ TooLong
    PROVE  Types' /\ OnceInv' /\ Control'
<1>0. /\ scan \in Scans /\ wire \in Seq(Events) /\ ready \subseteq {"done", "failed", "disconnected", "panic"}
      /\ caller \in {"there", "gone"} /\ closed \in BOOLEAN /\ MaxMalformed \in Nat
      /\ result.status \in {"none", "completed", "incomplete"} /\ stalls \in 0..MaxStallRetries
      /\ MaxStallRetries \in Nat
  BY FrontFacts DEF Types
<1>1. CASE Create
  <2>1. /\ setup' = setup /\ stalls' = stalls /\ scan' = scan /\ ready' = ready /\ result' = result
        /\ caller' = caller /\ closed' = closed /\ wire' = wire
        /\ main \in {"create", "recreate"} /\ scan = IdleScan
        /\ main' \in {"peek", "first", "assemble", "answered"}
        /\ main' = "peek" => setup.format = "responses"
        /\ main' = "first" => setup.caller = "stream"
        /\ main' = "assemble" => setup.caller = "assemble"
    <3>1. /\ UNCHANGED <<setup, stalls, scanVars, link, result>> /\ main \in {"create", "recreate"}
          /\ \/ main' = "answered"
             \/ main' = "peek" /\ setup.format = "responses"
             \/ main' = IF setup.caller = "stream" THEN "first" ELSE "assemble"
      BY <1>1 DEF Create, Opened
    <3>. QED BY <3>1, FrontFacts DEF scanVars, link, Control
  <2>2. WayTypes' /\ OnceInv'
    <3>1. CASE Dial
      BY <2>1, <3>1, Dialled
    <3>2. CASE UNCHANGED <<up, net, bridge, pipe>>
      <4>1. up' = up /\ net' = net /\ bridge' = bridge /\ pipe' = pipe
        BY <3>2
      <4>2. WayTypes'
        BY <2>1, <4>1, TypesParts DEF WayTypes
      <4>3. /\ up'.opened = up.opened /\ up'.complete = up.complete
            /\ bridge'.calls = bridge.calls /\ bridge'.last = bridge.last
            /\ bridge'.todo = bridge.todo /\ scan'.calls = scan.calls
            /\ net'.queue = net.queue /\ net'.closed = net.closed /\ pipe'.queue = pipe.queue
        BY <2>1, <4>1
      <4>4. OnceInv'
        BY <2>1, <4>3, OnceLoses
      <4>. QED BY <4>2, <4>4
    <3>. QED BY <1>1, <3>1, <3>2 DEF Create
  <2>3. FarTypes'
    BY <1>0, <2>1 DEF FarTypes
  <2>4. Control'
    BY <2>1 DEF Control
  <2>. QED BY <2>2, <2>3, <2>4, TypesPartsNext
<1>2. CASE FirstData
  <2>1. /\ setup' = setup /\ up' = up /\ net' = net /\ bridge' = bridge /\ pipe' = pipe
        /\ stalls' = stalls /\ ready' = ready /\ result' = result
        /\ caller' = caller /\ closed' = closed /\ wire' = wire
        /\ main = "first" /\ main' = "select" /\ scan' = [scan EXCEPT !.pc = "scanning"]
    BY <1>2 DEF FirstData, bridgeVars, link
  <2>2. scan = IdleScan /\ setup.caller = "stream" /\ scan.malformed = 0
    BY <2>1 DEF Control, IdleScan
  <2>3. /\ scan' \in Scans /\ scan'.pc = "scanning" /\ scan'.calls = scan.calls
        /\ scan'.malformed = scan.malformed
    BY <1>0, <2>1 DEF Scans
  <2>4. WayTypes'
    BY <2>1, TypesParts DEF WayTypes
  <2>5. FarTypes'
    BY <1>0, <2>1, <2>3 DEF FarTypes
  <2>6. /\ up'.opened = up.opened /\ up'.complete = up.complete
        /\ bridge'.calls = bridge.calls /\ bridge'.last = bridge.last
        /\ bridge'.todo = bridge.todo
        /\ net'.queue = net.queue /\ net'.closed = net.closed /\ pipe'.queue = pipe.queue
    BY <2>1
  <2>7. OnceInv'
    BY <2>1, <2>3, <2>6, OnceLoses
  <2>8. ready = {}
    BY <2>1 DEF Control
  <2>9. Control'
    BY <1>0, <2>1, <2>2, <2>3, <2>8 DEF Control
  <2>. QED BY <2>4, <2>5, <2>7, <2>9, TypesPartsNext
<1>3. CASE \/ FirstReadFails \/ LeftBeforeData \/ Stalled \/ Aborted \/ IdleTimeout \/ TooLong
  <2>1. /\ setup' = setup /\ scan' = scan /\ ready' = ready /\ result' = result
        /\ caller' = caller /\ closed' = closed /\ wire' = wire
        /\ stalls' \in 0..MaxStallRetries /\ CloseReader
        /\ main' \in {"answered", "returned", "recreate"}
        /\ main' # "returned" => main = "first"
    <3>1. CASE Stalled
      <4>1. stalls' \in 0..MaxStallRetries /\ main' \in {"answered", "recreate"}
        BY <1>0, <3>1 DEF Stalled
      <4>2. UNCHANGED <<setup, scanVars, link, result>> /\ CloseReader /\ main = "first"
        BY <3>1 DEF Stalled
      <4>. QED BY <4>1, <4>2 DEF scanVars, link
    <3>2. CASE FirstReadFails \/ LeftBeforeData
      <4>1. /\ UNCHANGED <<setup, stalls, scanVars, link, result>> /\ CloseReader
            /\ main = "first" /\ main' \in {"answered", "returned"}
        BY <3>2 DEF FirstReadFails, LeftBeforeData
      <4>. QED BY <1>0, <4>1 DEF scanVars, link
    <3>3. CASE Aborted \/ IdleTimeout \/ TooLong
      <4>1. UNCHANGED <<setup, stalls, scanVars, link, result>> /\ CloseReader /\ main' = "returned"
        BY <3>3 DEF Aborted, IdleTimeout, TooLong, Return
      <4>. QED BY <1>0, <4>1 DEF scanVars, link
    <3>. QED BY <1>3, <3>1, <3>2, <3>3
  <2>2. WayTypes' /\ OnceInv'
    BY <2>1, Closing
  <2>3. FarTypes'
    BY <1>0, <2>1 DEF FarTypes
  <2>4. Control'
    BY <2>1 DEF Control
  <2>. QED BY <2>2, <2>3, <2>4, TypesPartsNext
<1>4. CASE Completed
  <2>1. /\ setup' = setup /\ scan' = scan /\ ready' = ready /\ stalls' = stalls
        /\ CloseReader /\ main' = "returned" /\ main = "select"
        /\ result' = [status |-> statusFromFinishReason(scan.finish),
                      texts |-> scan.texts, calls |-> scan.calls]
    BY <1>4 DEF Completed, Return, scanVars
  <2>2. WayTypes' /\ OnceInv'
    BY <2>1, Closing
  <2>3. /\ wire' \in Seq(Events) /\ caller' \in {"there", "gone"} /\ closed' \in BOOLEAN
        /\ caller' = "gone" => wire' = <<>>
        /\ caller' = "there" => ~closed'
    <3>1. scan.calls \in Seq(CallRecords)
      BY <1>0, ScanTypes
    <3>2. FinalWords \in Seq(Events)
      BY <3>1, FinalEvents DEF FinalWords
    <3>. QED BY <1>4, <3>2, CompletedSpeaks, SpokeTypes
  <2>4. result'.status \in {"none", "completed", "incomplete"}
    BY <2>1, StatusOK
  <2>5. FarTypes'
    BY <1>0, <2>1, <2>3, <2>4 DEF FarTypes
  <2>6. Control'
    <3>1. scan.pc # "off"
      BY <2>1 DEF Control
    <3>. QED BY <2>1, <2>3, <3>1 DEF Control
  <2>. QED BY <2>2, <2>5, <2>6, TypesPartsNext
<1>5. CASE FormatTold
  <2>1. /\ setup' = setup /\ stalls' = stalls /\ scan' = scan /\ ready' = ready
        /\ result' = result /\ caller' = caller /\ closed' = closed /\ wire' = wire
        /\ up' = up /\ net' = net /\ main = "peek" /\ setup.format = "responses"
        /\ main' = IF setup.caller = "stream" THEN "first" ELSE "assemble"
    BY <1>5 DEF FormatTold, Peek, Opened, scanVars, link, Control
  <2>2. /\ \/ bridge' = bridge
           \/ bridge' = [bridge EXCEPT !.pc = "running"]
        /\ \/ pipe' = pipe
           \/ pipe' = [pipe EXCEPT !.end = net.end]
    BY <1>5 DEF FormatTold, Peek
  <2>3. bridge \in Bridges /\ pipe \in Channels /\ net \in Channels
    BY DEF Types
  <2>4. /\ bridge' \in Bridges /\ bridge'.calls = bridge.calls /\ bridge'.last = bridge.last
        /\ bridge'.todo = bridge.todo
    <3>1. CASE bridge' = bridge
      BY <2>3, <3>1
    <3>2. CASE bridge' = [bridge EXCEPT !.pc = "running"]
      BY <2>3, <3>2 DEF Bridges
    <3>. QED BY <2>2, <3>1, <3>2
  <2>5. pipe' \in Channels /\ pipe'.queue = pipe.queue
    <3>1. net.end \in {"open", "eof", "error"}
      BY <2>3, ChannelUpdates
    <3>2. CASE pipe' = pipe
      BY <2>3, <3>2
    <3>3. CASE pipe' = [pipe EXCEPT !.end = net.end]
      BY <2>3, <3>1, <3>3 DEF Channels
    <3>. QED BY <2>2, <3>2, <3>3
  <2>6. WayTypes'
    BY <2>1, <2>4, <2>5, TypesParts DEF WayTypes
  <2>7. FarTypes'
    BY <1>0, <2>1 DEF FarTypes
  <2>8. /\ up'.opened = up.opened /\ up'.complete = up.complete /\ scan'.calls = scan.calls
        /\ net'.queue = net.queue /\ net'.closed = net.closed
    BY <2>1
  <2>9. OnceInv'
    BY <2>1, <2>4, <2>5, <2>8, OnceLoses
  <2>10. Control'
    BY <2>1, FrontFacts DEF Control
  <2>. QED BY <2>6, <2>7, <2>9, <2>10, TypesPartsNext
<1>. QED BY <1>1, <1>2, <1>3, <1>4, <1>5

LEMMA AssembleLineSteps ==
    ASSUME Types, OnceInv, Control, AssembleLine
    PROVE  Types' /\ OnceInv' /\ Control'
<1>. DEFINE line == Head(Source.queue)
<1>1. /\ setup' = setup /\ stalls' = stalls /\ ready' = ready /\ result' = result
      /\ caller' = caller /\ closed' = closed /\ wire' = wire
      /\ main = "assemble" /\ Source.queue # <<>> /\ Take
      /\ main' = (IF line.kind = "done" THEN "assembled" ELSE main)
      /\ setup.caller = "assemble" /\ scan.pc = "off"
  BY DEF AssembleLine, Assembling, link, Control
<1>2. /\ line.kind = "text" => scan' = [scan EXCEPT !.texts = @ + 1]
      /\ line.kind \in {"head", "args"} /\ Indexed(line) # {} =>
            scan' = [scan EXCEPT !.calls[Position(line)].args = @ \o line.frags]
      /\ line.kind \in {"head", "args"} /\ Indexed(line) = {} =>
            scan' = [scan EXCEPT !.calls = Append(@, [id |-> line.call, args |-> line.frags])]
      /\ line.kind = "finish" => scan' = [scan EXCEPT !.finish = line.reason]
      /\ line.kind = "done" => scan' = [scan EXCEPT !.sawDone = TRUE]
      /\ line.kind \notin {"text", "head", "args", "finish", "done"} => scan' = scan
  BY DEF AssembleLine
<1>3. /\ scan \in Scans /\ scan.calls \in Seq(CallRecords) /\ scan.texts \in Nat
      /\ Len(scan.calls) \in Nat /\ DOMAIN scan.calls = 1..Len(scan.calls)
      /\ wire \in Seq(Events) /\ ready \subseteq {"done", "failed", "disconnected", "panic"}
      /\ caller \in {"there", "gone"} /\ closed \in BOOLEAN
      /\ result.status \in {"none", "completed", "incomplete"} /\ stalls \in 0..MaxStallRetries
      /\ setup.format \in {"chat", "responses"}
  BY ScanTypes, FrontFacts DEF Types
<1>4. /\ WayTypes' /\ line \in Lines /\ line.kind \in ChatKinds
      /\ setup.format = "responses" => line.kind \in PipeKinds
      /\ line.kind \in {"head", "args"} => line.call \in CallIds
  BY <1>1, TakeCases
<1>5. line.frags \in Seq(Frags) /\ line.reason \in {"none", "tool_calls", "stop", "length",
                                                    "completed", "incomplete", "error"}
  BY <1>4 DEF Lines
<1>. HIDE DEF line
<1>6. ASSUME scan' \in Scans, scan'.pc = "off", OnceInv'
      PROVE  Types' /\ OnceInv' /\ Control'
  <2>1. FarTypes'
    BY <1>1, <1>3, <1>6 DEF FarTypes
  <2>2. Control'
    BY <1>1, <1>6 DEF Control
  <2>. QED BY <1>4, <1>6, <2>1, <2>2, TypesPartsNext
<1>7. ASSUME scan' \in Scans, scan'.pc = "off", SameScan
      PROVE  Types' /\ OnceInv' /\ Control'
  BY <1>1, <1>6, <1>7, OnceTakesSame
<1>8. CASE line.kind = "text"
  <2>. DEFINE n == scan.texts + 1
  <2>1. n \in Nat /\ scan' = [scan EXCEPT !.texts = n]
    BY <1>2, <1>3, <1>8
  <2>. HIDE DEF n
  <2>2. scan' \in Scans /\ scan'.pc = scan.pc /\ scan'.calls = scan.calls
    BY <1>3, <2>1 DEF Scans
  <2>. QED BY <1>1, <1>7, <2>2 DEF SameScan
<1>9. CASE line.kind = "finish"
  <2>. DEFINE r == line.reason
  <2>1. scan' = [scan EXCEPT !.finish = r]
    BY <1>2, <1>9
  <2>2. r \in {"none", "tool_calls", "stop", "length", "completed", "incomplete", "error"}
    BY <1>5
  <2>. HIDE DEF r
  <2>3. scan' \in Scans /\ scan'.pc = scan.pc /\ scan'.calls = scan.calls
    BY <1>3, <2>1, <2>2 DEF Scans
  <2>. QED BY <1>1, <1>7, <2>3 DEF SameScan
<1>10. CASE line.kind = "done"
  <2>1. scan' = [scan EXCEPT !.sawDone = TRUE]
    BY <1>2, <1>10
  <2>2. scan' \in Scans /\ scan'.pc = scan.pc /\ scan'.calls = scan.calls
    BY <1>3, <2>1 DEF Scans
  <2>. QED BY <1>1, <1>7, <2>2 DEF SameScan
<1>11. CASE line.kind \notin {"text", "head", "args", "finish", "done"}
  <2>1. scan' = scan
    BY <1>2, <1>11
  <2>. QED BY <1>1, <1>3, <1>7, <2>1 DEF SameScan
<1>12. CASE line.kind \in {"head", "args"} /\ Indexed(line) # {}
  <2>. DEFINE i == Position(line)
              calls == [scan.calls EXCEPT ![i].args = @ \o line.frags]
  <2>1. scan' = [scan EXCEPT !.calls[i].args = @ \o line.frags]
    BY <1>2, <1>12
  <2>2. i \in 1..Len(scan.calls)
    BY <1>3, <1>12 DEF Position, Indexed
  <2>. HIDE DEF i
  <2>3. scan' = [scan EXCEPT !.calls = calls]
    BY <1>3, <2>1 DEF Scans
  <2>4. scan.calls[i] \in CallRecords
    BY <1>3, <2>2
  <2>5. scan.calls[i].args \o line.frags \in Seq(Frags)
    BY <1>5, <2>4 DEF CallRecords, Frags
  <2>6. [scan.calls[i] EXCEPT !.args = @ \o line.frags] \in CallRecords
    BY <2>4, <2>5 DEF CallRecords, Frags
  <2>7. \A k \in DOMAIN scan.calls : scan.calls[k] \in CallRecords
    BY <1>3
  <2>8. \A k \in DOMAIN scan.calls : calls[k].id = scan.calls[k].id
    BY <1>3, <2>2, <2>7 DEF CallRecords
  <2>9. calls \in Seq(CallRecords) /\ DOMAIN calls = DOMAIN scan.calls
    BY <1>3, <2>2, <2>6
  <2>. HIDE DEF calls
  <2>10. scan' \in Scans /\ scan'.pc = scan.pc /\ scan'.calls = calls
    BY <1>3, <2>3, <2>9 DEF Scans
  <2>. QED BY <1>1, <1>7, <2>8, <2>9, <2>10 DEF SameScan
<1>13. CASE line.kind \in {"head", "args"} /\ Indexed(line) = {}
  <2>. DEFINE tc == [id |-> line.call, args |-> line.frags]
              calls == Append(scan.calls, tc)
  <2>1. tc \in CallRecords /\ tc.id = line.call
    BY <1>4, <1>5, <1>13 DEF CallRecords, Frags
  <2>2. scan' = [scan EXCEPT !.calls = calls]
    BY <1>2, <1>13
  <2>. HIDE DEF tc
  <2>3. calls \in Seq(CallRecords)
    BY <1>3, <2>1, AppendAt
  <2>. HIDE DEF calls
  <2>4. scan' \in Scans /\ scan'.pc = scan.pc /\ scan'.calls = calls
    BY <1>3, <2>2, <2>3 DEF Scans
  <2>5. ~IdIn(scan.calls, tc.id)
    BY <1>13, <2>1 DEF IdIn, Indexed
  <2>6. line.kind = "head" \/ (setup.format = "chat" /\ setup.caller = "assemble")
    BY <1>1, <1>3, <1>4, <1>13 DEF PipeKinds
  <2>7. OnceInv'
    BY <1>1, <2>1, <2>4, <2>5, <2>6, OnceTakesNew DEF line, calls
  <2>. QED BY <1>1, <1>6, <2>4, <2>7
<1>. QED BY <1>8, <1>9, <1>10, <1>11, <1>12, <1>13

LEMMA AssembleEndSteps ==
    ASSUME Types, OnceInv, Control, AssembleEnd \/ Assembled
    PROVE  Types' /\ OnceInv' /\ Control'
<1>1. /\ setup' = setup /\ scan' = scan /\ ready' = ready /\ stalls' = stalls
      /\ caller' = caller /\ closed' = closed /\ wire' = wire
      /\ CloseReader /\ main' \in {"assembled", "answered", "returned"}
      /\ main \in {"assemble", "assembled"}
      /\ result'.status \in {"none", "completed", "incomplete"}
  <2>1. CASE AssembleEnd
    BY <2>1 DEF AssembleEnd, Assembling, link, Types
  <2>2. CASE Assembled
    <3>1. /\ UNCHANGED link /\ Return /\ main = "assembled"
          /\ \E reason : result' = [status |-> statusFromFinishReason(reason),
                                    texts |-> scan.texts, calls |-> scan.calls]
      BY <2>2 DEF Assembled
    <3>2. result'.status \in {"none", "completed", "incomplete"}
      BY <3>1, StatusOK
    <3>. QED BY <3>1, <3>2 DEF link, Return, scanVars
  <2>. QED BY <2>1, <2>2
<1>2. WayTypes' /\ OnceInv' /\ scan' \in Scans
  BY <1>1, Closing
<1>3. FarTypes'
  BY <1>1, <1>2 DEF FarTypes, Types
<1>4. Control'
  BY <1>1 DEF Control
<1>. QED BY <1>2, <1>3, <1>4, TypesPartsNext

LEMMA OtherSteps ==
    ASSUME Types, OnceInv, Control, UpstreamStep \/ BridgeStep \/ CallerGoes \/ UNCHANGED vars
    PROVE  Types' /\ OnceInv' /\ Control'
<1>1. CASE UpstreamStep \/ BridgeStep
  <2>1. /\ main' = main /\ stalls' = stalls /\ scan' = scan /\ ready' = ready
        /\ caller' = caller /\ closed' = closed /\ wire' = wire /\ result' = result
        /\ Upstream \/ Bridge
    BY <1>1 DEF UpstreamStep, BridgeStep, scanVars, link
  <2>2. setup' = setup
    BY <2>1, SpeechCases, BridgeReadCases, BridgeRestCases DEF Bridge
  <2>3. WayTypes'
    BY <2>1, UpstreamKeepsTypes, BridgeKeepsTypes
  <2>4. OnceInv'
    BY <2>1, OnceUpstream, OnceBridge
  <2>5. FarTypes'
    BY <2>1, TypesParts DEF FarTypes
  <2>6. Control'
    BY <2>1, <2>2 DEF Control
  <2>. QED BY <2>3, <2>4, <2>5, <2>6, TypesPartsNext
<1>2. ASSUME /\ setup' = setup /\ up' = up /\ net' = net /\ bridge' = bridge /\ pipe' = pipe
             /\ main' = main /\ stalls' = stalls /\ scan' = scan /\ ready' = ready
             /\ closed' = closed /\ result' = result
             /\ \/ caller' = caller /\ wire' = wire
                \/ caller' = "gone" /\ wire' = <<>>
      PROVE  Types' /\ OnceInv' /\ Control'
  <2>1. WayTypes'
    BY <1>2, TypesParts DEF WayTypes
  <2>2. FarTypes'
    <3>1. <<>> \in Seq(Events)
      OBVIOUS
    <3>. QED BY <1>2, <3>1, TypesParts DEF FarTypes
  <2>3. /\ up'.opened = up.opened /\ up'.complete = up.complete
        /\ bridge'.calls = bridge.calls /\ bridge'.last = bridge.last
        /\ bridge'.todo = bridge.todo /\ scan'.calls = scan.calls
        /\ net'.queue = net.queue /\ net'.closed = net.closed /\ pipe'.queue = pipe.queue
        /\ setup' = setup
    BY <1>2
  <2>4. OnceInv'
    BY <2>3, OnceLoses
  <2>5. Control'
    BY <1>2 DEF Control
  <2>. QED BY <2>1, <2>2, <2>4, <2>5, TypesPartsNext
<1>3. CASE CallerGoes
  BY <1>2, <1>3 DEF CallerGoes, bridgeVars, scanVars
<1>4. CASE UNCHANGED vars
  BY <1>2, <1>4 DEF vars, bridgeVars
<1>. QED BY <1>1, <1>3, <1>4

LEMMA StepsKeepOnce ==
    ASSUME Types, OnceInv, Control, [Next]_vars
    PROVE  Types' /\ OnceInv' /\ Control'
<1>1. CASE Scanner
  BY <1>1, ScannerTypes, ScannerOnce, ScannerControl
<1>2. CASE Unguarded \/ Handler
  BY <1>2, HandlerSteps, AssembleLineSteps, AssembleEndSteps DEF Unguarded, Handler
<1>3. CASE UpstreamStep \/ BridgeStep \/ CallerGoes \/ UNCHANGED vars
  BY <1>3, OtherSteps
<1>. QED BY <1>1, <1>2, <1>3 DEF Next

LEMMA InitOnce == Init => Types /\ OnceInv /\ Control
<1>. SUFFICES ASSUME Init PROVE OnceInv /\ Control
  BY InitTypes
<1>1. /\ up = Silence /\ net = Fresh /\ pipe = Fresh /\ bridge = IdleBridge /\ setup \in Setups
      /\ main = "create" /\ scan = IdleScan /\ ready = {} /\ caller = "there" /\ closed = FALSE
      /\ wire = <<>>
  BY DEF Init, BridgeInit
<1>2. /\ net.queue = <<>> /\ pipe.queue = <<>> /\ bridge.todo = <<>> /\ bridge.calls = <<>>
      /\ scan.calls = <<>> /\ up.opened = 0 /\ up.complete = {} /\ scan.pc = "off"
      /\ DOMAIN <<>> = {}
  BY <1>1 DEF Fresh, Channel, IdleBridge, IdleScan, Silence
<1>3. /\ Heads(net.queue) = {} /\ Heads(pipe.queue) = {} /\ Heads(bridge.todo) = {}
      /\ \A kind : At(kind) = {}
  BY <1>2 DEF Heads, At
<1>4. \A c : ~HandedOn(c)
  BY <1>2, <1>3 DEF HandedOn, HeadIn, IdIn
<1>5. Once(scan.calls) /\ ChatHeads /\ BridgedCalls
  BY <1>2, <1>3, <1>4 DEF Once, ChatHeads, BridgedCalls
<1>6. NamedCalls
  BY <1>2, <1>3, <1>4 DEF NamedCalls
<1>7. UnnamedCalls
  BY <1>2, <1>3 DEF UnnamedCalls
<1>8. OnceInv
  BY <1>3, <1>5, <1>6, <1>7 DEF OnceInv
<1>9. Control
  BY <1>1, <1>2 DEF Control
<1>. QED BY <1>8, <1>9
-------------------------------------------------------------------------------
(* What the caller has received so far                                     *)

LEMMA ConcatTwice ==
    ASSUME NEW S, NEW u \in Seq(S), NEW v \in Seq(S), NEW w \in Seq(S)
    PROVE  u \o (v \o w) = (u \o v) \o w
<1>. DEFINE a == u \o (v \o w)  b == (u \o v) \o w
            k == Len(u)  m == Len(v)  n == Len(w)
<1>1. /\ k \in Nat /\ m \in Nat /\ n \in Nat
      /\ v \o w \in Seq(S) /\ u \o v \in Seq(S) /\ Len(v \o w) = m + n /\ Len(u \o v) = k + m
  BY ConcatAt
<1>2. /\ a \in Seq(S) /\ b \in Seq(S) /\ Len(a) = k + (m + n) /\ Len(b) = (k + m) + n
  BY <1>1, ConcatAt
<1>3. ASSUME NEW p \in 1..k + (m + n) PROVE a[p] = b[p]
  <2>1. CASE p <= k
    <3>1. a[p] = u[p] /\ b[p] = (u \o v)[p] /\ (u \o v)[p] = u[p]
      BY <1>1, <2>1, ConcatAt
    <3>. QED BY <3>1
  <2>2. CASE p > k /\ p <= k + m
    <3>1. a[p] = (v \o w)[p - k] /\ (v \o w)[p - k] = v[p - k]
      BY <1>1, <2>2, ConcatAt
    <3>2. b[p] = (u \o v)[p] /\ (u \o v)[p] = v[p - k]
      BY <1>1, <2>2, ConcatAt
    <3>. QED BY <3>1, <3>2
  <2>3. CASE p > k + m
    <3>1. p - k \in m + 1..m + n /\ p \in k + 1..k + (m + n) /\ p \in (k + m) + 1..(k + m) + n
      BY <1>1, <2>3
    <3>2. a[p] = (v \o w)[p - k] /\ (v \o w)[p - k] = w[(p - k) - m]
      BY <1>1, <3>1, ConcatAt
    <3>3. b[p] = w[p - (k + m)]
      BY <1>1, <3>1, ConcatAt
    <3>4. (p - k) - m = p - (k + m)
      BY <1>1
    <3>. QED BY <3>2, <3>3, <3>4
  <2>. QED BY <1>1, <2>1, <2>2, <2>3
<1>. HIDE DEF a, b
<1>4. a = b
  BY <1>1, <1>2, <1>3
<1>. QED BY <1>4 DEF a, b

LEMMA EmptyConcat ==
    ASSUME NEW S, NEW w \in Seq(S)
    PROVE  <<>> \o w = w /\ w \o <<>> = w
OBVIOUS

LEMMA AppendConcat ==
    ASSUME NEW S, NEW w \in Seq(S), NEW x \in S
    PROVE  Append(w, x) = w \o <<x>>
OBVIOUS

CallEvs == {"call.added", "call.delta", "call.done"}

\* What follows v carries on from it.
LEMMA JoinLinked ==
    ASSUME NEW v \in Seq(Events), NEW w \in Seq(Events), Linked(v), Linked(w),
           v # <<>>, w # <<>>, w[1].ev \in Follow(Last(v)), Last(v) \notin CallEvs
    PROVE  /\ v \o w \in Seq(Events) /\ v \o w # <<>> /\ Linked(v \o w)
           /\ (v \o w)[1] = v[1] /\ Last(v \o w) = Last(w)
           /\ Len(v \o w) = Len(v) + Len(w)
           /\ \A p \in Announcements(v \o w) :
                 \/ p \in Announcements(v) /\ (v \o w)[p] = v[p]
                 \/ p - Len(v) \in Announcements(w) /\ (v \o w)[p] = w[p - Len(v)] /\ p \in Nat
<1>. DEFINE m == Len(v)  n == Len(w)  u == v \o w
<1>1. /\ m \in Nat \ {0} /\ n \in Nat \ {0} /\ DOMAIN v = 1..m /\ DOMAIN w = 1..n
  OBVIOUS
<1>2. /\ u \in Seq(Events) /\ Len(u) = m + n /\ DOMAIN u = 1..m + n
      /\ \A p \in 1..m : u[p] = v[p]
      /\ \A p \in m + 1..m + n : u[p] = w[p - m]
  BY ConcatAt
<1>. HIDE DEF u
<1>3. u # <<>> /\ u[1] = v[1]
  BY <1>1, <1>2
<1>4. Last(u) = Last(w)
  <2>1. m + n \in m + 1..m + n /\ (m + n) - m = n
    BY <1>1
  <2>2. u[m + n] = w[(m + n) - m]
    BY <1>2, <2>1
  <2>. QED BY <1>2, <2>1, <2>2 DEF Last
<1>. HIDE DEF m, n
<1>5. Linked(u)
  <2>. SUFFICES ASSUME NEW p \in 1..Len(u) - 1 PROVE Links(u, p)
    BY DEF Linked
  <2>1. CASE p < m
    <3>1. p \in 1..m - 1 /\ u[p] = v[p] /\ u[p + 1] = v[p + 1]
      BY <1>1, <1>2, <2>1
    <3>2. Links(v, p)
      BY <3>1 DEF Linked, m
    <3>. QED BY <3>1, <3>2 DEF Links
  <2>2. CASE p = m
    <3>1. u[p] = v[m] /\ u[p + 1] = w[1]
      <4>1. m + 1 \in m + 1..m + n /\ (m + 1) - m = 1 /\ m \in 1..m
        BY <1>1
      <4>2. u[m] = v[m]
        BY <1>2, <4>1
      <4>3. u[m + 1] = w[(m + 1) - m]
        BY <1>2, <4>1
      <4>. QED BY <2>2, <4>1, <4>2, <4>3
    <3>2. w[1].ev \in Follow(v[m].ev) /\ v[m].ev \notin CallEvs
      BY DEF Last, m
    <3>. QED BY <3>1, <3>2 DEF Links, CallEvs
  <2>3. CASE p > m
    <3>0. p \in m + 1..m + n /\ p + 1 \in m + 1..m + n /\ (p + 1) - m = (p - m) + 1
          /\ p - m \in 1..n - 1
      BY <1>1, <1>2, <2>3
    <3>1. u[p] = w[p - m] /\ u[p + 1] = w[(p - m) + 1]
      BY <1>2, <3>0
    <3>2. Links(w, p - m)
      BY <3>0 DEF Linked, n
    <3>. QED BY <3>1, <3>2 DEF Links
  <2>. QED BY <1>1, <1>2, <2>1, <2>2, <2>3
<1>6. \A p \in Announcements(u) :
         \/ p \in Announcements(v) /\ u[p] = v[p]
         \/ p - m \in Announcements(w) /\ u[p] = w[p - m] /\ p \in Nat
  <2>. SUFFICES ASSUME NEW p \in Announcements(u)
                PROVE  \/ p \in Announcements(v) /\ u[p] = v[p]
                       \/ p - m \in Announcements(w) /\ u[p] = w[p - m] /\ p \in Nat
    OBVIOUS
  <2>1. p \in 1..m + n /\ u[p].ev = "call.added"
    BY <1>2 DEF Announcements
  <2>2. CASE p <= m
    <3>1. p \in 1..m
      BY <1>1, <2>1, <2>2
    <3>. QED BY <1>1, <1>2, <2>1, <3>1 DEF Announcements
  <2>3. CASE p > m
    <3>1. p \in m + 1..m + n /\ p - m \in 1..n /\ p \in Nat
      BY <1>1, <2>1, <2>3
    <3>. QED BY <1>1, <1>2, <2>1, <3>1 DEF Announcements
  <2>. QED BY <1>1, <2>1, <2>2, <2>3
<1>. QED BY <1>2, <1>3, <1>4, <1>5, <1>6 DEF u, m, n

\* An answer in progress, whose last event is so.
Begins(w, last) ==
    /\ w \in Seq(Events) /\ w # <<>> /\ w[1].ev = "created" /\ Linked(w)
    /\ Announcements(w) = {} /\ Last(w) = last

LEMMA Extends ==
    ASSUME NEW w, NEW last, Begins(w, last), last \notin CallEvs,
           NEW v \in Seq(Events), v # <<>>, Linked(v), Announcements(v) = {},
           v[1].ev \in Follow(last)
    PROVE  Begins(w \o v, Last(v))
BY JoinLinked DEF Begins

LEMMA Singles ==
    ASSUME NEW ev \in EventNames
    PROVE  /\ <<Event(ev)>> \in Seq(Events) /\ <<Event(ev)>> # <<>> /\ Linked(<<Event(ev)>>)
           /\ Last(<<Event(ev)>>) = ev /\ <<Event(ev)>>[1].ev = ev
           /\ ev # "call.added" => Announcements(<<Event(ev)>>) = {}
<1>. DEFINE e == Event(ev)
<1>1. e \in Events /\ e.ev = ev
  BY EventsOK
<1>. HIDE DEF e
<1>2. <<e>> \in Seq(Events) /\ Len(<<e>>) = 1 /\ DOMAIN <<e>> = 1..1 /\ <<e>>[1] = e
  BY <1>1, OneOf
<1>3. Linked(<<e>>)
  BY <1>2 DEF Linked
<1>4. ev # "call.added" => Announcements(<<e>>) = {}
  BY <1>1, <1>2 DEF Announcements
<1>5. Last(<<e>>) = ev /\ <<e>> # <<>>
  BY <1>1, <1>2 DEF Last
<1>. QED BY <1>1, <1>2, <1>3, <1>4, <1>5 DEF e

LEMMA Pairs ==
    ASSUME NEW a \in EventNames, NEW b \in EventNames, b \in Follow(a),
           a \notin CallEvs, b # "call.added"
    PROVE  /\ <<Event(a), Event(b)>> \in Seq(Events) /\ <<Event(a), Event(b)>> # <<>>
           /\ Linked(<<Event(a), Event(b)>>) /\ Announcements(<<Event(a), Event(b)>>) = {}
           /\ Last(<<Event(a), Event(b)>>) = b /\ <<Event(a), Event(b)>>[1].ev = a
<1>. DEFINE d == Event(a)  e == Event(b)
<1>1. d \in Events /\ d.ev = a /\ e \in Events /\ e.ev = b
  BY EventsOK
<1>. HIDE DEF d, e
<1>2. /\ <<d, e>> \in Seq(Events) /\ Len(<<d, e>>) = 2 /\ DOMAIN <<d, e>> = 1..2
      /\ <<d, e>>[1] = d /\ <<d, e>>[2] = e
  BY <1>1, PairOf
<1>. DEFINE w == <<d, e>>
<1>. HIDE DEF w
<1>3. w \in Seq(Events) /\ Len(w) = 2 /\ DOMAIN w = 1..2 /\ w[1] = d /\ w[2] = e
  BY <1>2 DEF w
<1>4. Linked(w)
  <2>1. Links(w, 1)
    BY <1>1, <1>3 DEF Links, CallEvs
  <2>2. \A p \in 1..Len(w) - 1 : p = 1
    BY <1>3
  <2>. QED BY <2>1, <2>2 DEF Linked
<1>5. Announcements(w) = {}
  <2>1. \A p \in DOMAIN w : p = 1 \/ p = 2
    BY <1>3
  <2>. QED BY <1>1, <1>3, <2>1 DEF Announcements, CallEvs
<1>6. Last(w) = b
  BY <1>1, <1>3 DEF Last
<1>7. w[1].ev = a
  BY <1>1, <1>3
<1>8. w # <<>>
  <2>1. Len(<<>>) # 2
    OBVIOUS
  <2>. QED BY <1>3, <2>1
<1>. QED BY <1>3, <1>4, <1>5, <1>6, <1>7, <1>8 DEF w, d, e

LEMMA BeginsOrdered ==
    ASSUME NEW w, NEW last, Begins(w, last)
    PROVE  Ordered(w)
BY DEF Begins, Ordered

LEMMA NothingOrdered == Ordered(<<>>) /\ Announcements(<<>>) = {}
<1>1. Len(<<>>) = 0 /\ DOMAIN <<>> = {}
  OBVIOUS
<1>2. Announcements(<<>>) = {}
  BY <1>1 DEF Announcements
<1>3. Linked(<<>>)
  BY <1>1 DEF Linked
<1>. QED BY <1>2, <1>3 DEF Ordered

InProgress == IF scan.texts = 0 THEN "in_progress" ELSE "text.delta"

LEMMA Starts ==
    ASSUME Types, Ordered(wire), Shape(wire, scan)
    PROVE  /\ Begins(wire \o start(scan), InProgress)
           /\ scan.started => Begins(wire, InProgress)
<1>1. wire \in Seq(Events) /\ scan.started \in BOOLEAN
  BY ScanTypes DEF Types
<1>2. CASE scan.started
  <2>1. start(scan) = <<>> /\ wire \o <<>> = wire
    BY <1>1, <1>2, EmptyConcat DEF start
  <2>2. Begins(wire, InProgress)
    BY <1>1, <1>2 DEF Begins, Ordered, Shape, InProgress
  <2>. QED BY <2>1, <2>2
<1>3. CASE ~scan.started
  <2>. DEFINE pair == <<Event("created"), Event("in_progress")>>
  <2>1. "in_progress" \in Follow("created")
    BY DEF Follow
  <2>0. /\ "created" \in EventNames /\ "in_progress" \in EventNames
        /\ "created" \notin CallEvs /\ "in_progress" # "call.added"
    BY DEF EventNames, CallEvs
  <2>2. /\ pair \in Seq(Events) /\ pair # <<>> /\ Linked(pair) /\ Announcements(pair) = {}
        /\ Last(pair) = "in_progress" /\ pair[1].ev = "created"
    BY <2>0, <2>1, Pairs
  <2>3. start(scan) = pair /\ wire = <<>> /\ scan.texts = 0
    BY <1>3 DEF start, Shape
  <2>. HIDE DEF pair
  <2>4. wire \o start(scan) = pair
    BY <2>2, <2>3, EmptyConcat
  <2>5. InProgress = "in_progress"
    BY <2>3 DEF InProgress
  <2>. QED BY <1>3, <2>2, <2>4, <2>5 DEF Begins
<1>. QED BY <1>1, <1>2, <1>3

LEMMA TextBegins ==
    ASSUME Types, Ordered(wire), Shape(wire, scan)
    PROVE  Begins(wire \o (start(scan) \o opening \o <<Event("text.delta")>>), "text.delta")
<1>. DEFINE s == start(scan)  o == opening  d == <<Event("text.delta")>>
            w1 == wire \o s  w2 == w1 \o o
<1>1. /\ wire \in Seq(Events) /\ s \in Seq(Events) /\ o \in Seq(Events) /\ d \in Seq(Events)
  BY ScanEvents DEF Types
<1>2. /\ d # <<>> /\ Linked(d) /\ Announcements(d) = {} /\ Last(d) = "text.delta"
      /\ d[1].ev = "text.delta"
  BY Singles DEF EventNames
<1>3. Begins(w1, InProgress)
  BY Starts
<1>4. o = IF scan.texts = 0 THEN <<Event("msg.added"), Event("part.added")>> ELSE <<>>
  BY DEF opening
<1>. HIDE DEF s, o, d
<1>5. wire \o (s \o o \o d) = (wire \o (s \o o)) \o d /\ wire \o (s \o o) = w2
  <2>. DEFINE so == s \o o
  <2>1. so \in Seq(Events)
    BY <1>1, ConcatAt
  <2>2. wire \o so = w2
    BY <1>1, ConcatTwice
  <2>. HIDE DEF so
  <2>3. wire \o (so \o d) = (wire \o so) \o d
    BY SMTT(30), <1>1, <2>1, ConcatTwice
  <2>. QED BY <2>2, <2>3 DEF so
<1>. HIDE DEF w1
<1>6. CASE scan.texts = 0
  <2>1. "part.added" \in Follow("msg.added") /\ "msg.added" \in Follow("in_progress")
        /\ "text.delta" \in Follow("part.added")
    BY DEF Follow
  <2>0. /\ "msg.added" \in EventNames /\ "part.added" \in EventNames
        /\ "msg.added" \notin CallEvs /\ "part.added" # "call.added"
    BY DEF EventNames, CallEvs
  <2>. DEFINE pair == <<Event("msg.added"), Event("part.added")>>
  <2>8. /\ pair # <<>> /\ Linked(pair) /\ Announcements(pair) = {}
        /\ Last(pair) = "part.added" /\ pair[1].ev = "msg.added"
    BY <2>0, <2>1, Pairs
  <2>9. o = pair
    BY <1>4, <1>6
  <2>. HIDE DEF pair
  <2>2. /\ o # <<>> /\ Linked(o) /\ Announcements(o) = {}
        /\ Last(o) = "part.added" /\ o[1].ev = "msg.added"
    BY <2>8, <2>9
  <2>3. InProgress = "in_progress"
    BY <1>6 DEF InProgress
  <2>4. Begins(w2, "part.added")
    BY <1>1, <1>3, <2>1, <2>2, <2>3, Extends DEF CallEvs
  <2>. HIDE DEF w2
  <2>5. Begins(w2 \o d, "text.delta")
    BY <1>1, <1>2, <2>1, <2>4, Extends DEF CallEvs
  <2>. QED BY <1>5, <2>5 DEF s, o, d
<1>7. CASE scan.texts # 0
  <2>1. "text.delta" \in Follow("text.delta")
    BY DEF Follow
  <2>2. w1 \in Seq(Events) /\ InProgress = "text.delta"
    BY <1>3, <1>7 DEF Begins, InProgress
  <2>3. w2 = w1
    BY <1>4, <1>7, <2>2, EmptyConcat
  <2>4. Begins(w1 \o d, "text.delta")
    BY <1>1, <1>2, <1>3, <2>1, <2>2, Extends DEF CallEvs
  <2>. QED BY <1>5, <2>3, <2>4 DEF s, o, d
<1>. QED BY <1>6, <1>7

LEMMA FailureBegins ==
    ASSUME Types, Ordered(wire), Shape(wire, scan)
    PROVE  Begins(wire \o Append(start(scan), Event("failed")), "failed")
<1>. DEFINE s == start(scan)  d == <<Event("failed")>>  w1 == wire \o s
<1>1. wire \in Seq(Events) /\ s \in Seq(Events) /\ Event("failed") \in Events
  BY ScanEvents DEF Types
<1>2. /\ d \in Seq(Events) /\ d # <<>> /\ Linked(d) /\ Announcements(d) = {}
      /\ Last(d) = "failed" /\ d[1].ev = "failed"
  BY Singles DEF EventNames
<1>3. Begins(w1, InProgress)
  BY Starts
<1>4. Append(s, Event("failed")) = s \o d
  BY <1>1, AppendConcat
<1>. HIDE DEF s, d
<1>5. wire \o (s \o d) = w1 \o d
  BY <1>1, <1>2, ConcatTwice
<1>. HIDE DEF w1
<1>6. "failed" \in Follow(InProgress) /\ InProgress \notin CallEvs
  BY DEF Follow, InProgress, CallEvs
<1>. HIDE DEF InProgress
<1>7. Begins(w1 \o d, "failed")
  BY <1>2, <1>3, <1>6, Extends
<1>. QED BY <1>4, <1>5, <1>7 DEF s

Apart(w) == \A p, q \in Announcements(w) : p # q => w[p].call # w[q].call

\* Each call's events follow each other, and so do the calls.
LEMMA CallsLinked ==
    ASSUME scan.calls \in Seq(CallRecords), Once(scan.calls), scan.calls # <<>>
    PROVE  /\ Linked(AllCallEvents) /\ Apart(AllCallEvents) /\ AllCallEvents # <<>>
           /\ AllCallEvents[1].ev = "call.added" /\ Last(AllCallEvents) = "item.done"
<1>. DEFINE n == Len(scan.calls)  w == AllCallEvents  calls == scan.calls
<1>1. n \in Nat \ {0} /\ DOMAIN calls = 1..n
  OBVIOUS
<1>2. /\ w \in Seq(Events) /\ Len(w) = 4 * n
      /\ \A p \in 1..4 * n : \E k \in 1..n, j \in 1..4 :
            p = 4 * (k - 1) + j /\ w[p].ev = CallKind(j) /\ w[p].call = calls[k].id
  BY AllEvents
<1>3. DOMAIN w = 1..4 * n
  BY <1>2
<1>4. Once(calls)
  OBVIOUS
<1>. HIDE DEF n, w, calls
<1>5. \A k1, k2 \in 1..n, j1, j2 \in 1..4 :
         4 * (k1 - 1) + j1 = 4 * (k2 - 1) + j2 => k1 = k2 /\ j1 = j2
  BY <1>1
<1>6. Linked(w)
  <2>. SUFFICES ASSUME NEW p \in 1..4 * n - 1 PROVE Links(w, p)
    BY <1>2 DEF Linked
  <2>1. p \in 1..4 * n /\ p + 1 \in 1..4 * n
    BY <1>1
  <2>2. PICK k \in 1..n, j \in 1..4 :
           p = 4 * (k - 1) + j /\ w[p].ev = CallKind(j) /\ w[p].call = calls[k].id
    BY <1>2, <2>1
  <2>3. PICK k1 \in 1..n, j1 \in 1..4 :
           /\ p + 1 = 4 * (k1 - 1) + j1 /\ w[p + 1].ev = CallKind(j1)
           /\ w[p + 1].call = calls[k1].id
    BY <1>2, <2>1
  <2>4. CASE j # 4
    <3>1. j + 1 \in 1..4 /\ 4 * (k - 1) + (j + 1) = 4 * (k1 - 1) + j1
      BY <1>1, <2>2, <2>3, <2>4
    <3>2. k1 = k /\ j1 = j + 1
      BY <1>5, <3>1
    <3>3. CallKind(j + 1) \in Follow(CallKind(j))
      <4>1. j = 1 \/ j = 2 \/ j = 3
        BY <2>4
      <4>2. CallKind(2) \in Follow(CallKind(1))
        BY DEF CallKind, Follow
      <4>3. CallKind(3) \in Follow(CallKind(2))
        BY DEF CallKind, Follow
      <4>4. CallKind(4) \in Follow(CallKind(3))
        BY DEF CallKind, Follow
      <4>5. 1 + 1 = 2 /\ 2 + 1 = 3 /\ 3 + 1 = 4
        OBVIOUS
      <4>. QED BY <4>1, <4>2, <4>3, <4>4, <4>5
    <3>. QED BY <2>2, <2>3, <3>2, <3>3 DEF Links
  <2>5. CASE j = 4
    <3>1. k1 \in 1..n /\ 4 * (k - 1) + 5 = 4 * (k1 - 1) + j1
      BY <1>1, <2>2, <2>3, <2>5
    <3>2. j1 = 1
      BY <1>1, <3>1
    <3>3. CallKind(1) \in Follow(CallKind(4)) /\ CallKind(4) \notin CallEvs
      BY DEF CallKind, Follow, CallEvs
    <3>. QED BY <2>2, <2>3, <2>5, <3>2, <3>3 DEF Links, CallEvs
  <2>. QED BY <2>4, <2>5
<1>7. \A p \in Announcements(w) : \E k \in 1..n : p = 4 * (k - 1) + 1 /\ w[p].call = calls[k].id
  <2>. SUFFICES ASSUME NEW p \in Announcements(w)
                PROVE  \E k \in 1..n : p = 4 * (k - 1) + 1 /\ w[p].call = calls[k].id
    OBVIOUS
  <2>1. p \in 1..4 * n /\ w[p].ev = "call.added"
    BY <1>3 DEF Announcements
  <2>2. PICK k \in 1..n, j \in 1..4 :
           p = 4 * (k - 1) + j /\ w[p].ev = CallKind(j) /\ w[p].call = calls[k].id
    BY <1>2, <2>1
  <2>3. j = 1
    BY <2>1, <2>2 DEF CallKind
  <2>. QED BY <2>2, <2>3
<1>8. Apart(w)
  <2>. SUFFICES ASSUME NEW p \in Announcements(w), NEW q \in Announcements(w), w[p].call = w[q].call
                PROVE  p = q
    BY DEF Apart
  <2>1. PICK k \in 1..n : p = 4 * (k - 1) + 1 /\ w[p].call = calls[k].id
    BY <1>7
  <2>2. PICK l \in 1..n : q = 4 * (l - 1) + 1 /\ w[q].call = calls[l].id
    BY <1>7
  <2>3. k = l
    BY <1>1, <1>4, <2>1, <2>2 DEF Once
  <2>. QED BY <2>1, <2>2, <2>3
<1>9. w # <<>>
  <2>1. 4 * n # 0 /\ Len(<<>>) = 0
    BY <1>1
  <2>. QED BY <1>2, <2>1
<1>10. w[1].ev = "call.added"
  <2>1. 1 \in 1..4 * n
    BY <1>1
  <2>2. PICK k \in 1..n, j \in 1..4 : 1 = 4 * (k - 1) + j /\ w[1].ev = CallKind(j)
    BY <1>2, <2>1
  <2>3. j = 1
    BY <1>1, <2>2
  <2>. QED BY <2>2, <2>3 DEF CallKind
<1>11. Last(w) = "item.done"
  <2>1. 4 * n \in 1..4 * n
    BY <1>1
  <2>2. PICK k \in 1..n, j \in 1..4 : 4 * n = 4 * (k - 1) + j /\ w[4 * n].ev = CallKind(j)
    BY <1>2, <2>1
  <2>3. j = 4
    BY <1>1, <2>2
  <2>. QED BY <1>2, <2>2, <2>3 DEF CallKind, Last
<1>. QED BY <1>6, <1>8, <1>9, <1>10, <1>11 DEF w

LEMMA TripleEvents ==
    LET w == <<Event("text.done"), Event("part.done"), Event("msg.done")>> IN
    /\ w \in Seq(Events) /\ w # <<>> /\ Linked(w) /\ Announcements(w) = {}
    /\ Last(w) = "msg.done" /\ w[1].ev = "text.done"
<1>. DEFINE a == Event("text.done")  b == Event("part.done")  c == Event("msg.done")
            w == <<a, b, c>>
<1>1. /\ a \in Events /\ a.ev = "text.done" /\ b \in Events /\ b.ev = "part.done"
      /\ c \in Events /\ c.ev = "msg.done"
  BY EventsOK DEF EventNames
<1>. HIDE DEF a, b, c
<1>2. w \in Seq(Events) /\ Len(w) = 3 /\ DOMAIN w = 1..3 /\ w[1] = a /\ w[2] = b /\ w[3] = c
  BY <1>1
<1>. HIDE DEF w
<1>3. Linked(w)
  <2>1. Links(w, 1)
    BY <1>1, <1>2 DEF Links, Follow
  <2>2. Links(w, 2)
    BY <1>1, <1>2 DEF Links, Follow
  <2>3. \A p \in 1..Len(w) - 1 : p = 1 \/ p = 2
    BY <1>2
  <2>. QED BY <2>1, <2>2, <2>3 DEF Linked
<1>4. Announcements(w) = {}
  <2>1. \A p \in DOMAIN w : p = 1 \/ p = 2 \/ p = 3
    BY <1>2
  <2>. QED BY <1>1, <1>2, <2>1 DEF Announcements
<1>5. Last(w) = "msg.done" /\ w[1].ev = "text.done"
  BY <1>1, <1>2 DEF Last
<1>6. w # <<>>
  <2>1. Len(<<>>) # 3
    OBVIOUS
  <2>. QED BY <1>2, <2>1
<1>. QED BY <1>2, <1>3, <1>4, <1>5, <1>6 DEF w, a, b, c

JoinedOK(v, w) ==
    /\ v \o w \in Seq(Events) /\ v \o w # <<>> /\ Linked(v \o w)
    /\ (v \o w)[1] = v[1] /\ Last(v \o w) = Last(w)
    /\ \A p \in Announcements(v \o w) :
          \/ p \in Announcements(v) /\ (v \o w)[p] = v[p]
          \/ p - Len(v) \in Announcements(w) /\ (v \o w)[p] = w[p - Len(v)] /\ p \in Nat

\* What main writes in the end.
LEMMA FinalOrder ==
    ASSUME Types, Ordered(wire), Shape(wire, scan), Once(scan.calls)
    PROVE  Ordered(wire \o FinalWords)
<1>. DEFINE m == closeMsg  c == AllCallEvents  f == <<Event("completed")>>
            w1 == wire \o m  w2 == w1 \o c  w3 == w2 \o f
<1>1. /\ wire \in Seq(Events) /\ scan.calls \in Seq(CallRecords) /\ scan.started \in BOOLEAN
      /\ scan.texts \in Nat
  BY ScanTypes DEF Types
<1>2. /\ f \in Seq(Events) /\ f # <<>> /\ Linked(f) /\ Announcements(f) = {}
      /\ Last(f) = "completed" /\ f[1].ev = "completed"
  BY Singles DEF EventNames
<1>3. m \in Seq(Events) /\ c \in Seq(Events)
  BY <1>1, CloseMsgOK, AllEvents
<1>4. m = IF scan.texts = 0 THEN <<>>
          ELSE <<Event("text.done"), Event("part.done"), Event("msg.done")>>
  BY DEF closeMsg
<1>5. scan.calls = <<>> => c = <<>>
  <2>. SUFFICES ASSUME scan.calls = <<>> PROVE c = <<>>
    OBVIOUS
  <2>1. Len(scan.calls) = 0
    OBVIOUS
  <2>2. Len(c) = 0
    BY <1>1, <2>1, AllEvents
  <2>. HIDE DEF c
  <2>. QED BY <1>3, <2>2
<1>6. scan.calls # <<>> => /\ Linked(c) /\ Apart(c) /\ c # <<>>
                           /\ c[1].ev = "call.added" /\ Last(c) = "item.done"
  BY <1>1, CallsLinked
<1>7. FinalWords = m \o c \o f
  BY DEF FinalWords
<1>8. f = <<Event("completed")>>
  OBVIOUS
<1>. HIDE DEF m, c, f
<1>9. wire \o (m \o c \o f) = w3
  <2>. DEFINE mc == m \o c
  <2>1. mc \in Seq(Events)
    BY <1>3, ConcatAt
  <2>. HIDE DEF mc
  <2>2. wire \o (mc \o f) = (wire \o mc) \o f
    BY SMTT(30), <1>1, <1>2, <2>1, ConcatTwice
  <2>3. wire \o (m \o c) = w2
    BY <1>1, <1>3, ConcatTwice
  <2>. QED BY <2>2, <2>3 DEF mc
<1>10. CASE ~scan.started
  <2>1. wire = <<>> /\ scan.texts = 0 /\ scan.calls = <<>>
    BY <1>10 DEF Shape
  <2>2. m = <<>> /\ c = <<>>
    BY <1>4, <1>5, <2>1
  <2>3. w3 = f
    BY <1>2, <2>1, <2>2, EmptyConcat
  <2>. HIDE DEF w3
  <2>4. Ordered(f)
    BY <1>2, <1>8 DEF Ordered
  <2>. QED BY <1>7, <1>9, <2>3, <2>4
<1>11. CASE scan.started
  <2>. DEFINE last1 == IF scan.texts = 0 THEN "in_progress" ELSE "msg.done"
              last2 == IF scan.calls = <<>> THEN last1 ELSE "item.done"
  <2>1. Begins(wire, InProgress)
    BY <1>11, Starts
  <2>2. Begins(w1, last1)
    <3>1. CASE scan.texts = 0
      <4>1. w1 = wire
        BY <1>1, <1>4, <3>1, EmptyConcat
      <4>. QED BY <2>1, <3>1, <4>1 DEF InProgress
    <3>2. CASE scan.texts # 0
      <4>1. /\ m # <<>> /\ Linked(m) /\ Announcements(m) = {}
            /\ Last(m) = "msg.done" /\ m[1].ev = "text.done"
        BY <1>4, <3>2, TripleEvents
      <4>2. InProgress = "text.delta"
        BY <3>2 DEF InProgress
      <4>3. "text.done" \in Follow("text.delta") /\ "text.delta" \notin CallEvs
        BY DEF Follow, CallEvs
      <4>4. Begins(w1, "msg.done")
        BY <1>3, <2>1, <4>1, <4>2, <4>3, Extends
      <4>. QED BY <3>2, <4>4
    <3>. QED BY <3>1, <3>2
  <2>3. /\ "call.added" \in Follow(last1) /\ last1 \notin CallEvs
        /\ "completed" \in Follow(last1) /\ "completed" \in Follow("item.done")
        /\ "item.done" \notin CallEvs
    BY DEF Follow, CallEvs
  <2>. HIDE DEF w1, last1
  <2>4. /\ w2 \in Seq(Events) /\ w2 # <<>> /\ Linked(w2) /\ w2[1].ev = "created"
        /\ Last(w2) = last2 /\ Apart(w2)
    <3>1. CASE scan.calls = <<>>
      <4>1. w1 \in Seq(Events)
        BY <2>2 DEF Begins
      <4>2. w2 = w1
        BY <1>5, <3>1, <4>1, EmptyConcat
      <4>. QED BY <2>2, <3>1, <4>2 DEF Begins, Apart
    <3>2. CASE scan.calls # <<>>
      <4>1. /\ w1 \in Seq(Events) /\ w1 # <<>> /\ Linked(w1) /\ w1[1].ev = "created"
            /\ Last(w1) = last1 /\ Announcements(w1) = {}
        BY <2>2 DEF Begins
      <4>2. /\ w2 \in Seq(Events) /\ w2 # <<>> /\ Linked(w2) /\ w2[1] = w1[1]
            /\ Last(w2) = Last(c)
            /\ \A p \in Announcements(w2) :
                  \/ p \in Announcements(w1) /\ w2[p] = w1[p]
                  \/ p - Len(w1) \in Announcements(c) /\ w2[p] = c[p - Len(w1)] /\ p \in Nat
        <5>1. c[1].ev \in Follow(Last(w1)) /\ Last(w1) \notin CallEvs
          BY <1>6, <2>3, <3>2, <4>1
        <5>2. Linked(c) /\ c # <<>>
          BY <1>6, <3>2
        <5>3. JoinedOK(w1, c)
          BY <1>3, <4>1, <5>1, <5>2, JoinLinked DEF JoinedOK
        <5>. QED BY <5>3 DEF JoinedOK
      <4>. HIDE DEF w2
      <4>3. \A p \in Announcements(w2) :
               p - Len(w1) \in Announcements(c) /\ w2[p] = c[p - Len(w1)] /\ p \in Nat
        BY <4>1, <4>2
      <4>4. Len(w1) \in Nat
        BY <4>1
      <4>5. Apart(w2)
        <5>. SUFFICES ASSUME NEW p \in Announcements(w2), NEW q \in Announcements(w2), p # q
                      PROVE  w2[p].call # w2[q].call
          BY DEF Apart
        <5>1. /\ p - Len(w1) \in Announcements(c) /\ w2[p] = c[p - Len(w1)] /\ p \in Nat
              /\ q - Len(w1) \in Announcements(c) /\ w2[q] = c[q - Len(w1)] /\ q \in Nat
          BY <4>3
        <5>2. p - Len(w1) # q - Len(w1)
          BY <4>4, <5>1
        <5>. QED BY <1>6, <3>2, <5>1, <5>2 DEF Apart
      <4>. QED BY <1>6, <3>2, <4>1, <4>2, <4>5
    <3>. QED BY <3>1, <3>2
  <2>. HIDE DEF w2
  <2>5. "completed" \in Follow(last2) /\ last2 \notin CallEvs
    BY <2>3
  <2>. HIDE DEF last2
  <2>6. /\ w3 \in Seq(Events) /\ w3 # <<>> /\ Linked(w3) /\ w3[1] = w2[1]
        /\ \A p \in Announcements(w3) :
              \/ p \in Announcements(w2) /\ w3[p] = w2[p]
              \/ p - Len(w2) \in Announcements(f) /\ w3[p] = f[p - Len(w2)] /\ p \in Nat
    <3>1. f[1].ev \in Follow(Last(w2)) /\ Last(w2) \notin CallEvs
      BY <1>2, <2>4, <2>5
    <3>2. JoinedOK(w2, f)
      BY <1>2, <2>4, <3>1, JoinLinked DEF JoinedOK
    <3>. QED BY <3>2 DEF JoinedOK
  <2>. HIDE DEF w3
  <2>7. Apart(w3)
    BY <1>2, <2>4, <2>6 DEF Apart
  <2>8. Ordered(w3)
    BY <2>4, <2>6, <2>7 DEF Ordered, Apart
  <2>. QED BY <1>7, <1>9, <2>8
<1>. QED BY <1>1, <1>10, <1>11
-------------------------------------------------------------------------------
(* The order of what the caller receives is kept                           *)

\* It is when the caller and the wire are as they were and nobody begins to write.
LEMMA WireStays ==
    ASSUME WireInv, wire' = wire, caller' = caller,
           Composing' => /\ Composing /\ scan'.started = scan.started
                         /\ scan'.texts = scan.texts /\ scan'.calls = scan.calls
    PROVE  WireInv'
<1>1. Ordered(wire') /\ (caller' = "there" /\ Composing' => Shape(wire', scan))
  BY DEF WireInv
<1>2. caller' = "there" /\ Composing' => Shape(wire', scan')
  BY <1>1 DEF Shape
<1>. QED BY <1>1, <1>2 DEF WireInv

LEMMA WireScanner ==
    ASSUME Types, OnceInv, Control, WireInv, Scanner
    PROVE  WireInv'
<1>1. /\ main' = main /\ scan.pc = "scanning" /\ scan.texts \in Nat
      /\ TextRead \/ Begun \/ Skipped \/ Broke \/ Quit
      /\ caller \in {"there", "gone"} /\ wire \in Seq(Events)
  BY ScannerCases, ScanTypes DEF Types
<1>2. caller' = caller
  BY <1>1 DEF TextRead, Begun, Skipped, Broke, Quit, Spoke, link
<1>3. CASE caller = "gone"
  <2>1. wire' = <<>> /\ caller' = "gone"
    BY <1>2, <1>3, ScannerLink
  <2>. QED BY <2>1, NothingOrdered DEF WireInv
<1>4. CASE caller = "there"
  <2>1. Ordered(wire) /\ Shape(wire, scan)
    BY <1>1, <1>4 DEF WireInv, Composing
  <2>2. CASE TextRead
    <3>1. wire' = wire \o (start(scan) \o opening \o <<Event("text.delta")>>)
      BY <1>4, <2>2 DEF TextRead, Spoke
    <3>2. Begins(wire', "text.delta")
      BY <2>1, <3>1, TextBegins
    <3>3. scan'.started /\ scan'.texts # 0
      BY <1>1, <2>2 DEF TextRead
    <3>4. Shape(wire', scan') /\ Ordered(wire')
      BY <3>2, <3>3, BeginsOrdered DEF Shape, Begins
    <3>. QED BY <3>4 DEF WireInv
  <2>3. CASE Begun
    <3>1. wire' = wire \o start(scan)
      BY <1>4, <2>3 DEF Begun, Spoke
    <3>2. Begins(wire', InProgress)
      BY <2>1, <3>1, Starts
    <3>3. scan'.started /\ scan'.texts = scan.texts
      BY <2>3 DEF Begun
    <3>4. Shape(wire', scan') /\ Ordered(wire')
      BY <3>2, <3>3, BeginsOrdered DEF Shape, Begins, InProgress
    <3>. QED BY <3>4 DEF WireInv
  <2>4. CASE Skipped
    <3>1. wire' = wire
      BY <1>1, <1>4, <2>4, EmptyConcat DEF Skipped, Spoke
    <3>. QED BY <1>1, <1>2, <2>4, <3>1, WireStays DEF Skipped, Composing
  <2>5. CASE Broke
    <3>1. wire' = wire \o Append(start(scan), Event("failed"))
      BY <1>4, <2>5 DEF Broke, Spoke
    <3>2. Begins(wire', "failed")
      BY <2>1, <3>1, FailureBegins
    <3>3. Ordered(wire')
      BY <3>2, BeginsOrdered
    <3>4. ~Composing'
      BY <2>5 DEF Broke, Composing
    <3>. QED BY <3>3, <3>4 DEF WireInv
  <2>6. CASE Quit
    <3>1. wire' = wire
      BY <2>6 DEF Quit, link
    <3>. QED BY <1>1, <1>2, <2>6, <3>1, WireStays DEF Quit, Composing
  <2>. QED BY <1>1, <2>2, <2>3, <2>4, <2>5, <2>6
<1>. QED BY <1>1, <1>3, <1>4

LEMMA WireHandler ==
    ASSUME Types, OnceInv, Control, Control', WireInv, Unguarded \/ Handler
    PROVE  WireInv'
<1>1. /\ scan \in Scans /\ wire \in Seq(Events) /\ caller \in {"there", "gone"}
      /\ scan.pc \in {"off", "scanning", "exited"}
  BY ScanTypes DEF Types
<1>2. CASE FirstData
  <2>1. /\ caller' = caller /\ wire' = wire /\ main = "first"
        /\ scan' = [scan EXCEPT !.pc = "scanning"]
    BY <1>2 DEF FirstData, link
  <2>2. scan = IdleScan /\ wire = <<>>
    BY <2>1 DEF Control
  <2>3. ~scan'.started /\ scan'.texts = 0 /\ scan'.calls = <<>>
    BY <2>1, <2>2 DEF IdleScan
  <2>4. Shape(wire', scan')
    BY <2>1, <2>2, <2>3, NothingOrdered DEF Shape
  <2>5. Ordered(wire')
    BY <2>1 DEF WireInv
  <2>. QED BY <2>4, <2>5 DEF WireInv
<1>3. CASE Completed
  <2>1. /\ scan' = scan /\ main = "select" /\ main' = "returned" /\ "done" \in ready
        /\ ready' = ready
    BY <1>3 DEF Completed, Return, scanVars
  <2>2. scan.pc = "exited" /\ "failed" \notin ready
    BY <1>1, <2>1 DEF Control
  <2>3. ~Composing'
    BY <2>1, <2>2 DEF Composing
  <2>4. CASE caller = "there"
    <3>1. Shape(wire, scan) /\ Ordered(wire)
      BY <2>1, <2>2, <2>4 DEF WireInv, Composing
    <3>2. wire' = wire \o FinalWords
      BY <1>3, <2>4, CompletedSpeaks DEF Spoke
    <3>3. Ordered(wire \o FinalWords)
      BY <3>1, FinalOrder DEF OnceInv
    <3>. QED BY <2>3, <3>2, <3>3 DEF WireInv
  <2>5. CASE caller = "gone"
    <3>1. wire' = wire
      BY <1>3, <2>5, CompletedSpeaks DEF Spoke
    <3>2. Ordered(wire')
      BY <3>1 DEF WireInv
    <3>. QED BY <2>3, <3>2 DEF WireInv
  <2>. QED BY <1>1, <2>4, <2>5
<1>4. CASE ~FirstData /\ ~Completed
  <2>1. /\ caller' = caller /\ wire' = wire /\ ready' = ready
        /\ (scan' = scan /\ main' # "select") \/ main \in {"assemble", "assembled"}
    <3>1. CASE Create \/ FormatTold
      BY <3>1 DEF Create, FormatTold, Opened, link, scanVars
    <3>2. CASE FirstReadFails \/ LeftBeforeData \/ Stalled
      BY <3>2 DEF FirstReadFails, LeftBeforeData, Stalled, link, scanVars
    <3>3. CASE Aborted \/ IdleTimeout \/ TooLong
      BY <3>3 DEF Aborted, IdleTimeout, TooLong, Return, link, scanVars
    <3>4. CASE AssembleLine \/ AssembleEnd
      BY <3>4 DEF AssembleLine, AssembleEnd, Assembling, link
    <3>5. CASE Assembled
      BY <3>5 DEF Assembled, Return, link, scanVars
    <3>. QED BY <1>4, <3>1, <3>2, <3>3, <3>4, <3>5 DEF Unguarded, Handler
  <2>2. CASE main \in {"assemble", "assembled"}
    <3>1. setup.caller = "assemble"
      BY <2>2 DEF Control
    <3>2. setup' = setup
      BY <1>4 DEF Unguarded, Handler, Create, FormatTold, Peek, FirstReadFails, LeftBeforeData, Stalled, Aborted, IdleTimeout,
                  TooLong, AssembleLine, AssembleEnd, Assembled, Assembling, Return
    <3>3. scan'.pc = "off"
      BY <3>1, <3>2 DEF Control
    <3>. QED BY <2>1, <3>3, WireStays DEF Composing
  <2>3. CASE scan' = scan /\ main' # "select"
    BY <2>1, <2>3, WireStays DEF Composing
  <2>. QED BY <2>1, <2>2, <2>3
<1>. QED BY <1>2, <1>3, <1>4

LEMMA WireSteps ==
    ASSUME Types, OnceInv, Control, Control', WireInv, [Next]_vars
    PROVE  WireInv'
<1>1. CASE UpstreamStep \/ BridgeStep \/ UNCHANGED vars
  <2>1. wire' = wire /\ caller' = caller /\ scan' = scan /\ ready' = ready /\ main' = main
    BY <1>1 DEF UpstreamStep, BridgeStep, vars, scanVars, link
  <2>. QED BY <2>1, WireStays DEF Composing
<1>2. CASE CallerGoes
  <2>1. wire' = <<>> /\ caller' = "gone"
    BY <1>2 DEF CallerGoes
  <2>. QED BY <2>1, NothingOrdered DEF WireInv
<1>. QED BY <1>1, <1>2, WireScanner, WireHandler DEF Next
-------------------------------------------------------------------------------
(* A truncated chat stream ends in a failure                               *)

Quiet == ChatKinds \ {"finish", "done"}

ChatUnfinished == up.end # "finished" => Kinds(net.queue, Quiet) /\ ~scan.sawDone
ChatReported ==
    scan.pc = "exited" /\ caller = "there" /\ "panic" \notin ready =>
          \/ ready = {"failed"} /\ wire # <<>> /\ Last(wire) = "failed"
          \/ ready = {"done"} /\ up.end = "finished"

LEMMA ChatParts == ChatEnds <=> (setup.format = "chat" => ChatUnfinished /\ ChatReported)
BY DEF ChatEnds, ChatUnfinished, ChatReported, Quiet

LEMMA ChatPartsNext ==
    ASSUME setup' = setup, setup.format = "chat" => ChatUnfinished' /\ ChatReported'
    PROVE  ChatEnds'
BY DEF ChatEnds, ChatUnfinished, ChatReported, Quiet

LEMMA ChatScanner ==
    ASSUME Types, OnceInv, Control, WireInv, ChatEnds, Scanner
    PROVE  ChatEnds'
<1>1. /\ setup' = setup /\ scan.pc = "scanning" /\ ready = {}
      /\ TextRead \/ Begun \/ Skipped \/ Broke \/ Quit
  BY ScannerCases
<1>. SUFFICES ASSUME setup.format = "chat" PROVE ChatUnfinished' /\ ChatReported'
  BY <1>1, ChatPartsNext
<1>2. ChatUnfinished /\ net \in Channels /\ Source = net /\ net.queue \in Seq(Lines)
      /\ caller \in {"there", "gone"}
  BY ChatParts, ChannelTypes DEF Source, Types
<1>3. /\ up' = up
      /\ \/ Source.queue # <<>> /\ net'.queue = Tail(net.queue)
         \/ net'.queue = net.queue
  <2>1. CASE Source.queue # <<>> /\ Take
    BY <1>1, <2>1, TakeCases
  <2>2. CASE UNCHANGED <<up, net, bridge, pipe>>
    BY <2>2
  <2>. QED BY <1>1, <2>1, <2>2 DEF TextRead, Begun, Skipped, Broke, Quit, GoesOn
<1>4. ASSUME up.end # "finished" PROVE Kinds(net'.queue, Quiet)
  BY <1>2, <1>3, <1>4, KindsTail DEF ChatUnfinished
<1>5. ASSUME up.end # "finished", Source.queue # <<>> PROVE Head(Source.queue).kind \in Quiet
  BY <1>2, <1>5, KindsTail DEF ChatUnfinished
<1>6. ASSUME up.end # "finished" PROVE ~scan'.sawDone
  <2>1. ~scan.sawDone
    BY <1>2, <1>6 DEF ChatUnfinished
  <2>2. Source.queue # <<>> => Head(Source.queue).kind # "finish" /\ Head(Source.queue).kind # "done"
    BY <1>5, <1>6 DEF Quiet
  <2>3. CASE TextRead \/ Skipped \/ Broke
    BY <2>1, <2>3 DEF TextRead, Skipped, Broke
  <2>4. CASE Begun
    BY <2>1, <2>2, <2>4 DEF Begun, GoesOn
  <2>5. CASE Quit
    BY <2>1, <2>2, <2>5 DEF Quit
  <2>. QED BY <1>1, <2>3, <2>4, <2>5
<1>7. ChatUnfinished'
  BY <1>3, <1>4, <1>6 DEF ChatUnfinished
<1>8. CASE TextRead \/ Begun \/ Skipped
  <2>1. scan'.pc # "exited"
    BY <1>8 DEF TextRead, Begun, Skipped, GoesOn
  <2>. QED BY <1>7, <2>1 DEF ChatReported
<1>9. CASE Broke
  <2>1. caller' = caller /\ ready' = {"failed"}
    BY <1>9 DEF Broke, Spoke
  <2>2. CASE caller = "there"
    <3>1. Ordered(wire) /\ Shape(wire, scan)
      BY <1>1, <2>2 DEF WireInv, Composing
    <3>2. wire' = wire \o Append(start(scan), Event("failed"))
      BY <1>9, <2>2 DEF Broke, Spoke
    <3>3. wire' # <<>> /\ Last(wire') = "failed"
      BY <3>1, <3>2, FailureBegins DEF Begins
    <3>. QED BY <1>7, <2>1, <3>3 DEF ChatReported
  <2>3. CASE caller = "gone"
    BY <1>7, <2>1, <2>3 DEF ChatReported
  <2>. QED BY <1>2, <2>2, <2>3
<1>10. CASE Quit
  <2>1. caller' = caller
    BY <1>10 DEF Quit, link
  <2>2. ASSUME caller = "there", "panic" \notin ready' PROVE ready' = {"done"} /\ up.end = "finished"
    <3>1. ready' = {"done"}
      BY <1>10, <2>2 DEF Quit
    <3>2. scan.sawDone \/ (Source.queue # <<>> /\ Head(Source.queue).kind = "done")
      BY <1>10, <3>1 DEF Quit
    <3>3. up.end = "finished"
      BY <1>2, <1>5, <3>2 DEF ChatUnfinished, Quiet
    <3>. QED BY <3>1, <3>3
  <2>. QED BY <1>3, <1>7, <2>1, <2>2 DEF ChatReported
<1>. QED BY <1>1, <1>8, <1>9, <1>10

LEMMA ChatUpstream ==
    ASSUME Types, ChatEnds, UpstreamStep
    PROVE  ChatEnds'
<1>1. /\ scan' = scan /\ ready' = ready /\ caller' = caller /\ wire' = wire
      /\ setup' = setup /\ (HungUp \/ \E line \in Lines : Spoken(line))
  BY SpeechCases DEF UpstreamStep, scanVars, link
<1>. SUFFICES ASSUME setup.format = "chat" PROVE ChatUnfinished' /\ ChatReported'
  BY <1>1, ChatPartsNext
<1>2. ChatUnfinished /\ ChatReported /\ net \in Channels /\ net.queue \in Seq(Lines)
  BY ChatParts, ChannelTypes DEF Types
<1>3. CASE HungUp
  <2>1. net'.queue = net.queue
    <3>1. PICK end \in {"open", "eof", "error"} : net' = [net EXCEPT !.end = end]
      BY <1>3 DEF HungUp
    <3>2. [net EXCEPT !.end = end].queue = net.queue
      BY <1>2 DEF Channels
    <3>. QED BY <3>1, <3>2
  <2>2. /\ up.end = "finished" => up'.end = "finished"
        /\ up'.end # "finished" => up.end # "finished"
    BY <1>3 DEF HungUp
  <2>. QED BY <1>1, <1>2, <2>1, <2>2 DEF ChatUnfinished, ChatReported
<1>4. ASSUME NEW line \in Lines, Spoken(line) PROVE ChatUnfinished' /\ ChatReported'
  <2>. DEFINE queue == Append(net.queue, line)
  <2>1. up.end = "no" /\ net' = [net EXCEPT !.queue = queue] /\ LineSaid(line)
    BY <1>4 DEF Spoken
  <2>. HIDE DEF queue
  <2>2. net'.queue = queue
    <3>1. [net EXCEPT !.queue = queue].queue = queue
      BY <1>2 DEF Channels
    <3>. QED BY <2>1, <3>1
  <2>3. ASSUME up'.end # "finished" PROVE line.kind \in Quiet
    <3>1. /\ line.kind \in ChatKinds
          /\ up'.end = IF line.kind \in {"finish", "done", "completed"} THEN "finished"
                       ELSE IF line.kind \in {"error", "failed"} THEN "failed" ELSE "no"
      BY <2>1 DEF LineSaid
    <3>. QED BY <2>3, <3>1 DEF Quiet
  <2>4. ASSUME up'.end # "finished" PROVE Kinds(queue, Quiet)
    <3>1. Kinds(net.queue, Quiet)
      BY <1>2, <2>1 DEF ChatUnfinished
    <3>. QED BY <1>2, <2>3, <2>4, <3>1, KindsAppend DEF queue
  <2>5. ~scan.sawDone
    BY <1>2, <2>1 DEF ChatUnfinished
  <2>6. ChatUnfinished'
    BY <1>1, <2>2, <2>4, <2>5 DEF ChatUnfinished
  <2>7. ChatReported'
    BY <1>1, <1>2, <2>1 DEF ChatReported
  <2>. QED BY <2>6, <2>7
<1>. QED BY <1>1, <1>3, <1>4

\* Steps that say nothing, read nothing and leave the scanner's locals alone.
LEMMA ChatStays ==
    ASSUME Types, ChatEnds, setup' = setup, up' = up, scan' = scan, ready' = ready,
           net'.queue = net.queue \/ net'.queue = <<>>,
           \/ caller' = "gone"
           \/ caller' = caller /\ (wire' = wire \/ "done" \in ready)
    PROVE  ChatEnds'
<1>. SUFFICES ASSUME setup.format = "chat" PROVE ChatUnfinished' /\ ChatReported'
  BY ChatPartsNext
<1>1. ChatUnfinished /\ ChatReported
  BY ChatParts
<1>2. ChatUnfinished'
  BY <1>1, KindsNone DEF ChatUnfinished
<1>3. ChatReported'
  BY <1>1 DEF ChatReported
<1>. QED BY <1>2, <1>3

LEMMA ChatDials ==
    ASSUME Types, ChatEnds, Dial, setup' = setup, scan' = scan, scan = IdleScan
    PROVE  ChatEnds'
<1>1. /\ up' = Silence /\ net'.queue = <<>>
  BY FrontFacts DEF Dial
<1>2. ~scan.sawDone /\ scan.pc = "off"
  BY DEF IdleScan
<1>3. ChatUnfinished' /\ ChatReported'
  BY <1>1, <1>2, KindsNone DEF ChatUnfinished, ChatReported, Silence
<1>. QED BY <1>3, ChatPartsNext

LEMMA ChatAssembles ==
    ASSUME Types, OnceInv, Control, Control', ChatEnds, AssembleLine
    PROVE  ChatEnds'
<1>. DEFINE line == Head(Source.queue)
<1>1. /\ setup' = setup /\ Source.queue # <<>> /\ Take /\ setup.caller = "assemble"
  BY DEF AssembleLine, Assembling, Control
<1>. SUFFICES ASSUME setup.format = "chat" PROVE ChatUnfinished' /\ ChatReported'
  BY <1>1, ChatPartsNext
<1>2. ChatUnfinished /\ net \in Channels /\ Source = net /\ net.queue \in Seq(Lines)
      /\ scan \in Scans
  BY ChatParts, ChannelTypes DEF Source, Types
<1>3. up' = up /\ net'.queue = Tail(net.queue)
  BY <1>1, TakeCases
<1>4. scan'.pc # "exited"
  BY <1>1 DEF Control
<1>5. ASSUME up.end # "finished" PROVE Kinds(net'.queue, Quiet) /\ line.kind \in Quiet
  BY <1>1, <1>2, <1>3, <1>5, KindsTail DEF ChatUnfinished
<1>6. line.kind # "done" => scan'.sawDone = scan.sawDone
  <2>. DEFINE t == scan.texts + 1  c == Append(scan.calls, [id |-> line.call, args |-> line.frags])
              r == line.reason  i == Position(line)  f == line.frags
  <2>1. \/ scan' = [scan EXCEPT !.texts = t]
        \/ scan' = [scan EXCEPT !.calls[i].args = @ \o f]
        \/ scan' = [scan EXCEPT !.calls = c]
        \/ scan' = [scan EXCEPT !.finish = r]
        \/ line.kind = "done"
        \/ scan' = scan
    BY DEF AssembleLine
  <2>. HIDE DEF t, c, r, i, f, line
  <2>. QED BY <1>2, <2>1 DEF Scans
<1>7. ChatUnfinished'
  BY <1>2, <1>3, <1>5, <1>6 DEF ChatUnfinished, Quiet
<1>. QED BY <1>4, <1>7 DEF ChatReported

LEMMA ChatHandler ==
    ASSUME Types, OnceInv, Control, Control', ChatEnds, Unguarded \/ Handler
    PROVE  ChatEnds'
<1>1. CASE Create
  <2>1. /\ setup' = setup /\ scan' = scan /\ ready' = ready /\ caller' = caller /\ wire' = wire
        /\ scan = IdleScan
        /\ Dial \/ UNCHANGED <<up, net, bridge, pipe>>
    BY <1>1 DEF Create, scanVars, link, Control
  <2>2. CASE Dial
    BY <2>1, <2>2, ChatDials
  <2>3. CASE UNCHANGED <<up, net, bridge, pipe>>
    <3>1. up' = up /\ net'.queue = net.queue
      BY <2>3
    <3>. QED BY <2>1, <3>1, ChatStays
  <2>. QED BY <2>1, <2>2, <2>3
<1>2. CASE FirstData
  <2>1. /\ setup' = setup /\ up' = up /\ net' = net /\ main = "first"
        /\ scan' = [scan EXCEPT !.pc = "scanning"] /\ scan \in Scans
    BY <1>2 DEF FirstData, bridgeVars, Types
  <2>2. scan'.pc = "scanning" /\ scan'.sawDone = scan.sawDone
    BY <2>1 DEF Scans
  <2>3. setup.format = "chat" => ChatUnfinished' /\ ChatReported'
    BY <2>1, <2>2, ChatParts DEF ChatUnfinished, ChatReported
  <2>. QED BY <2>1, <2>3, ChatPartsNext
<1>3. CASE AssembleLine
  BY <1>3, ChatAssembles
<1>4. CASE FormatTold
  <2>1. /\ setup' = setup /\ scan' = scan /\ ready' = ready /\ caller' = caller /\ wire' = wire
        /\ up' = up /\ net' = net
    BY <1>4 DEF FormatTold, Peek, scanVars, link
  <2>2. net'.queue = net.queue
    BY <2>1
  <2>. QED BY <2>1, <2>2, ChatStays
<1>5. CASE ~Create /\ ~FormatTold /\ ~FirstData /\ ~AssembleLine
  <2>1. /\ setup' = setup /\ scan' = scan /\ ready' = ready /\ CloseReader
        /\ caller' = caller /\ (wire' = wire \/ "done" \in ready)
    <3>1. CASE FirstReadFails \/ LeftBeforeData \/ Stalled
      BY <3>1 DEF FirstReadFails, LeftBeforeData, Stalled, link, scanVars
    <3>2. CASE Aborted \/ IdleTimeout \/ TooLong
      BY <3>2 DEF Aborted, IdleTimeout, TooLong, Return, link, scanVars
    <3>3. CASE AssembleEnd \/ Assembled
      BY <3>3 DEF AssembleEnd, Assembled, Assembling, Return, link, scanVars
    <3>4. CASE Completed
      BY <3>4 DEF Completed, Return, scanVars, Emit
    <3>. QED BY <1>5, <3>1, <3>2, <3>3, <3>4 DEF Unguarded, Handler
  <2>2. up' = up /\ (net'.queue = net.queue \/ net'.queue = <<>>)
    BY <2>1, CloseCases
  <2>. QED BY <2>1, <2>2, ChatStays
<1>. QED BY <1>1, <1>2, <1>3, <1>4, <1>5

LEMMA ChatSteps ==
    ASSUME Types, OnceInv, Control, Control', WireInv, ChatEnds, [Next]_vars
    PROVE  ChatEnds'
<1>1. CASE BridgeStep
  <2>1. setup.format = "responses" /\ setup' = setup
    BY <1>1, BridgeReadCases, BridgeRestCases DEF BridgeStep, Bridge
  <2>. QED BY <2>1 DEF ChatEnds
<1>2. CASE CallerGoes \/ UNCHANGED vars
  <2>1. /\ setup' = setup /\ up' = up /\ net' = net /\ scan' = scan /\ ready' = ready
        /\ (caller' = caller /\ wire' = wire) \/ caller' = "gone"
    BY <1>2 DEF CallerGoes, vars, bridgeVars, scanVars
  <2>2. net'.queue = net.queue
    BY <2>1
  <2>. QED BY <2>1, <2>2, ChatStays
<1>. QED BY <1>1, <1>2, ChatScanner, ChatUpstream, ChatHandler DEF Next

-------------------------------------------------------------------------------
(* The theorems                                                            *)

LEMMA InitInv == Init => IInv
<1>. SUFFICES ASSUME Init PROVE IInv
  OBVIOUS
<1>1. Types /\ OnceInv /\ Control
  BY InitOnce
<1>2. /\ up = Silence /\ net = Fresh /\ scan = IdleScan /\ wire = <<>>
  BY DEF Init, BridgeInit
<1>3. ~scan.started /\ scan.texts = 0 /\ scan.calls = <<>> /\ scan.pc = "off" /\ ~scan.sawDone
      /\ net.queue = <<>>
  BY <1>1, <1>2, FrontFacts DEF IdleScan
<1>4. WireInv
  BY <1>2, <1>3, NothingOrdered DEF WireInv, Composing
<1>5. ChatUnfinished /\ ChatReported
  BY <1>3, KindsNone DEF ChatUnfinished, ChatReported
<1>. QED BY <1>1, <1>4, <1>5, ChatParts DEF IInv

LEMMA StepsKeepInv == IInv /\ [Next]_vars => IInv'
<1>. SUFFICES ASSUME IInv, [Next]_vars PROVE IInv'
  OBVIOUS
<1>1. Types /\ OnceInv /\ Control /\ WireInv /\ ChatEnds
  BY DEF IInv
<1>2. Types' /\ OnceInv' /\ Control'
  BY <1>1, StepsKeepOnce
<1>3. WireInv'
  BY <1>1, <1>2, WireSteps
<1>4. ChatEnds'
  BY <1>1, <1>2, ChatSteps
<1>. QED BY <1>2, <1>3, <1>4 DEF IInv

\* There are no more calls than names, since no two have the same.
LEMMA CallsBounded ==
    ASSUME Types, OnceInv
    PROVE  Len(scan.calls) <= MaxCalls
<1>. DEFINE n == Len(scan.calls)  f == [i \in 1..n |-> scan.calls[i].id]
<1>1. /\ scan.calls \in Seq(CallRecords) /\ n \in Nat /\ DOMAIN scan.calls = 1..n
      /\ MaxCalls \in Nat /\ Once(scan.calls)
  BY ScanTypes, FrontFacts DEF Types, OnceInv
<1>2. \A i \in 1..n : f[i] \in CallIds
  <2>. SUFFICES ASSUME NEW i \in 1..n PROVE f[i] \in CallIds
    OBVIOUS
  <2>1. scan.calls[i] \in CallRecords
    BY <1>1
  <2>. QED BY <2>1 DEF CallRecords
<1>3. \A i, j \in 1..n : f[i] = f[j] => i = j
  BY <1>1 DEF Once
<1>4. DOMAIN f = 1..n /\ f \in [1..n -> CallIds]
  BY <1>2
<1>. HIDE DEF f, n
<1>5. IsFiniteSet(CallIds) /\ Cardinality(CallIds) = MaxCalls
  <2>1. 1 <= MaxCalls \/ MaxCalls = 0
    BY <1>1
  <2>2. IsFiniteSet(1..MaxCalls) /\ Cardinality(1..MaxCalls) = MaxCalls
    BY <1>1, <2>1, FS_Interval
  <2>. QED BY <2>2 DEF CallIds
<1>6. IsFiniteSet(1..n) /\ Cardinality(1..n) = n
  <2>1. 1 <= n \/ n = 0
    BY <1>1
  <2>. QED BY <1>1, <2>1, FS_Interval
<1>7. f \in Injection(1..n, CallIds)
  BY <1>3, <1>4 DEF Injection, IsInjective
<1>8. Cardinality(1..n) <= Cardinality(CallIds)
  BY <1>5, <1>6, <1>7, FS_Injection
<1>. QED BY <1>5, <1>6, <1>8 DEF n

\* The type invariant of the model, and its bounds.
LEMMA InvTypes == IInv => TypeOK
<1>. SUFFICES ASSUME Types, OnceInv PROVE TypeOK
  BY DEF IInv
<1>1. /\ net \in Channels /\ pipe \in Channels /\ scan \in Scans /\ MaxInFlight \in Nat \ {0}
      /\ Len(net.queue) <= MaxInFlight /\ Len(pipe.queue) <= 1 /\ wire \in Seq(Events)
      /\ Len(pipe.queue) \in Nat
  BY FrontFacts, ChannelTypes DEF Types
<1>2. Len(pipe.queue) <= MaxInFlight
  BY <1>1
<1>3. \A ch \in {net, pipe} : /\ ch.end \in {"open", "eof", "error"} /\ ch.closed \in BOOLEAN
                              /\ Len(ch.queue) <= MaxInFlight
  BY <1>1, <1>2 DEF Channels
<1>4. /\ scan.pc \in {"off", "scanning", "exited"} /\ scan.calls \in Seq(CallRecords)
      /\ scan.malformed \in 0..MaxMalformed + 1
  BY <1>1, ScanTypes
<1>5. \A p \in DOMAIN wire : wire[p].ev \in EventNames
  <2>1. \A p \in DOMAIN wire : wire[p] \in Events
    BY <1>1
  <2>. QED BY <2>1 DEF Events
<1>. QED BY <1>3, <1>4, <1>5, CallsBounded DEF Types, TypeOK

LEMMA InvOrder == IInv => WireOrder
<1>. SUFFICES ASSUME IInv PROVE WireOrder
  OBVIOUS
<1>1. TypeOK /\ Ordered(wire)
  BY InvTypes DEF IInv, WireInv
<1>. QED BY <1>1 DEF WireOrder, Ordered, Linked, Links, Announcements

LEMMA InvReports == IInv => CutIsReported
<1>. SUFFICES ASSUME ChatEnds PROVE CutIsReported
  BY DEF IInv
<1>. QED BY DEF ChatEnds, CutIsReported

LEMMA Invariant == Spec => []IInv
<1>. QED BY InitInv, StepsKeepInv, PTL DEF Spec

\* Whoever writes, and however the stream ends, the caller receives its events
\* in the order of the Responses protocol: items opened, filled and closed, each
\* call announced once, one final event and nothing after it.
THEOREM EventsInOrder == Spec => []WireOrder
<1>. QED BY Invariant, InvOrder, PTL

\* A chat upstream that hangs up or fails before its answer is complete is
\* reported to a caller that is still there, by response.failed.
THEOREM CutsReported == Spec => []CutIsReported
<1>. QED BY Invariant, InvReports, PTL
===============================================================================
