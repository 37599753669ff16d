--------------------------- MODULE SSEStream_proofs ---------------------------
(* The proofs that the stream of a client that stays reaches its end, that     *)
(* what a client reads is well formed although two goroutines write it, and    *)
(* that the arguments of a tool call reach the client as they come.            *)
EXTENDS SSEStream, FiniteSetTheorems, SequenceTheorems, WellFoundedInduction, TLAPS

-------------------------------------------------------------------------------
(* Sequences of anything                                                       *)

IsSeq(s) == \E S : s \in Seq(S)

LEMMA AppendFacts ==
    ASSUME NEW s, NEW e, IsSeq(s)
    PROVE  /\ IsSeq(Append(s, e))
           /\ DOMAIN s = 1 .. Len(s) /\ Len(s) \in Nat
           /\ DOMAIN Append(s, e) = 1 .. Len(s) + 1
           /\ \A p \in DOMAIN s : Append(s, e)[p] = s[p]
           /\ Append(s, e)[Len(s) + 1] = e
<1>1. PICK S : s \in Seq(S)
  BY DEF IsSeq
<1>2. s \in Seq(S \union {e})
  BY <1>1
<1>3. Append(s, e) \in Seq(S \union {e})
  BY <1>2
<1>. QED BY <1>2, <1>3 DEF IsSeq

\* What is left of a list after its first item, with more in that item's place.
LEMMA RestFacts ==
    ASSUME NEW S, NEW s \in Seq(S), s # <<>>, NEW more \in Seq(S)
    PROVE  /\ more \o Tail(s) \in Seq(S)
           /\ Len(more \o Tail(s)) = Len(more) + Len(s) - 1
           /\ Len(more) \in Nat /\ Len(s) \in Nat \ {0} /\ s[1] = Head(s)
           /\ DOMAIN s = 1 .. Len(s)
           /\ DOMAIN (more \o Tail(s)) = 1 .. Len(more) + Len(s) - 1
           /\ \A n \in 1 .. Len(more) : (more \o Tail(s))[n] = more[n]
           /\ \A n \in 2 .. Len(s) : (more \o Tail(s))[Len(more) + n - 1] = s[n]
<1>1. Tail(s) \in Seq(S) /\ Len(Tail(s)) = Len(s) - 1 /\ Len(s) \in Nat \ {0}
  OBVIOUS
<1>2. \A n \in 2 .. Len(s) : Tail(s)[n - 1] = s[n] /\ n - 1 \in 1 .. Len(Tail(s))
  BY <1>1
<1>. DEFINE t == Tail(s)
<1>3. more \o t \in Seq(S) /\ Len(more \o t) = Len(more) + Len(t) /\ Len(more) \in Nat
  BY <1>1
<1>4. \A n \in 1 .. Len(more) : (more \o t)[n] = more[n]
  BY <1>1
<1>5. \A n \in 1 .. Len(t) : (more \o t)[Len(more) + n] = t[n]
  BY <1>1
<1>. HIDE DEF t
<1>6. \A n \in 2 .. Len(s) : (more \o t)[Len(more) + n - 1] = s[n]
  <2>. TAKE n \in 2 .. Len(s)
  <2>1. n - 1 \in 1 .. Len(t) /\ t[n - 1] = s[n]
    BY <1>2 DEF t
  <2>2. (more \o t)[Len(more) + (n - 1)] = t[n - 1]
    BY <1>5, <2>1
  <2>3. Len(more) + (n - 1) = Len(more) + n - 1
    BY <1>1, <1>3
  <2>. QED BY <2>1, <2>2, <2>3
<1>7. DOMAIN (more \o t) = 1 .. Len(more) + Len(s) - 1
  BY <1>1, <1>3 DEF t
<1>. QED BY <1>1, <1>3, <1>4, <1>6, <1>7 DEF t

-------------------------------------------------------------------------------
(* The invariant                                                               *)

Stays == client = "there"

DeltaSent == Positions("message_delta") # {}
NoStop    == Positions("message_stop") = {}
OneStop   == \E p : Positions("message_stop") = {p}

\* A list of main's that will write message_stop, as the last of its events.
OwesStop(s) ==
    /\ s # <<>> /\ s[Len(s)] = "messageStop"
    /\ \A n \in 1 .. Len(s) - 1 : s[n] # "messageStop"

OwesDelta(s) == \E n \in DOMAIN s : s[n] \in {"lastDelta", "finalDelta"}

\* The scanner notes a message_delta after it has written it.
NotedOnceSent ==
    \A n \in DOMAIN todo["scanner"] :
        todo["scanner"][n] = "markDelta"
            => DeltaSent \/ \E m \in 1 .. n - 1 : todo["scanner"][m] = "messageDelta"

Lists ==
    /\ IsSeq(wire)
    /\ todo \in [{"scanner", "main"} -> Seq(Items)]

\* While the client is there nothing has failed and main ends for no other
\* reason than the upstream's.
Unbroken ==
    /\ ready \subseteq {"done", "error", "disconnected", "cancelled"}
    /\ Stays => /\ ~closed /\ ~cancelled
                /\ ready \subseteq {"done", "error"}
                /\ main \notin {"cancelled", "disconnected", "dropped"}

Before == main \notin {"ending", "returned"}

Owing ==
    /\ Before \/ main = "returned" => todo["main"] = <<>>
    /\ Stays /\ Before => NoStop
    /\ Stays /\ ~Before =>
         \/ todo["main"] = <<>> /\ OneStop /\ DeltaSent
         \/ OwesStop(todo["main"]) /\ NoStop /\ (DeltaSent \/ OwesDelta(todo["main"]))

Noting == Stays => NotedOnceSent /\ (deltaSent => DeltaSent)

EndInv == Lists /\ Unbroken /\ Owing /\ Noting

LEMMA EndInit == Init => EndInv
<1>. SUFFICES ASSUME Init PROVE EndInv
  OBVIOUS
<1>1. /\ wire = <<>> /\ todo = [g \in {"scanner", "main"} |-> <<>>]
      /\ main = "connecting" /\ ready = {} /\ deltaSent = FALSE
      /\ client = "there" /\ closed = FALSE /\ cancelled = FALSE
  BY Zenon DEF Init
<1>2. Lists
  <2>1. wire \in Seq({})
    BY <1>1
  <2>. QED BY <1>1, <2>1 DEF Lists, IsSeq
<1>3. NoStop
  BY <1>1 DEF NoStop, Positions
<1>4. Unbroken /\ Owing
  BY <1>1, <1>3 DEF Unbroken, Owing, Before
<1>5. Noting
  BY <1>1 DEF Noting, NotedOnceSent
<1>. QED BY <1>2, <1>4, <1>5 DEF EndInv

-------------------------------------------------------------------------------
(* What a step leaves of the wire                                              *)

\* The client was there before if it is there afterwards, and what it has
\* received stays; only MessageStop adds a message_stop.
LEMMA WireKept ==
    ASSUME Lists, NEW e,
           \/ wire' = wire
           \/ \E x : x.event # e /\ wire' = Append(wire, x)
    PROVE  Positions(e)' = Positions(e)
<1>1. CASE wire' = wire
  BY <1>1 DEF Positions
<1>2. CASE \E x : x.event # e /\ wire' = Append(wire, x)
  <2>1. PICK x : x.event # e /\ wire' = Append(wire, x)
    BY <1>2
  <2>2. /\ DOMAIN wire = 1 .. Len(wire) /\ Len(wire) \in Nat
        /\ DOMAIN wire' = 1 .. Len(wire) + 1
        /\ \A p \in DOMAIN wire : wire'[p] = wire[p]
        /\ wire'[Len(wire) + 1] = x
    BY <2>1, AppendFacts DEF Lists
  <2>3. \A p \in DOMAIN wire' : p \in DOMAIN wire \/ p = Len(wire) + 1
    BY <2>2
  <2>4. \A p \in DOMAIN wire : p \in DOMAIN wire'
    BY <2>2
  <2>5. \A p : p \in Positions(e)' <=> p \in Positions(e)
    BY <2>1, <2>2, <2>3, <2>4 DEF Positions
  <2>. QED BY <2>5
<1>. QED BY <1>1, <1>2

LEMMA WireGrows ==
    ASSUME Lists, NEW x, wire' = Append(wire, x)
    PROVE  /\ IsSeq(wire')
           /\ Positions(x.event)' = Positions(x.event) \union {Len(wire) + 1}
           /\ \A e : Positions(e) \subseteq Positions(e)'
<1>1. /\ IsSeq(wire')
      /\ DOMAIN wire = 1 .. Len(wire) /\ Len(wire) \in Nat
      /\ DOMAIN wire' = 1 .. Len(wire) + 1
      /\ \A p \in DOMAIN wire : wire'[p] = wire[p]
      /\ wire'[Len(wire) + 1] = x
  BY AppendFacts DEF Lists
<1>2. \A p \in DOMAIN wire' : p \in DOMAIN wire \/ p = Len(wire) + 1
  BY <1>1
<1>3. \A p \in DOMAIN wire : p \in DOMAIN wire'
  BY <1>1
<1>4. Len(wire) + 1 \in DOMAIN wire'
  BY <1>1
<1>. QED BY <1>1, <1>2, <1>3, <1>4 DEF Positions

-------------------------------------------------------------------------------
(* A step writes one event at most                                             *)

Emission == UNCHANGED out \/ \E e : e.event # "message_stop" /\ Write(e)

SendsDelta == \E e : e.event = "message_delta" /\ Write(e)

LEMMA WriteFacts ==
    ASSUME Lists, Unbroken, NEW e, Write(e), client' = client
    PROVE  /\ IsSeq(wire')
           /\ Stays' => wire' = Append(wire, e) /\ ~closed'
<1>1. CASE Stays
  <2>1. wire' = Append(wire, e) /\ closed' = closed
    BY <1>1 DEF Write, Connection, Unbroken, Stays
  <2>. QED BY <1>1, <2>1, WireGrows DEF Unbroken
<1>2. CASE ~Stays
  <2>1. wire' = wire
    BY <1>2 DEF Write, Stays
  <2>. QED BY <1>2, <2>1 DEF Lists, Stays
<1>. QED BY <1>1, <1>2

LEMMA EmissionFacts ==
    ASSUME Lists, Unbroken, Emission, client' = client
    PROVE  /\ IsSeq(wire')
           /\ Stays' => /\ ~closed'
                        /\ Positions("message_stop")' = Positions("message_stop")
                        /\ DeltaSent => DeltaSent'
                        /\ SendsDelta => DeltaSent'
<1>0. SendsDelta => (Stays' => DeltaSent')
  <2>. SUFFICES ASSUME SendsDelta, Stays' PROVE DeltaSent'
    OBVIOUS
  <2>1. PICK e : e.event = "message_delta" /\ Write(e)
    BY DEF SendsDelta
  <2>2. wire' = Append(wire, e)
    BY <2>1, WriteFacts
  <2>. QED BY <2>1, <2>2, WireGrows DEF DeltaSent
<1>1. CASE UNCHANGED out
  BY <1>0, <1>1 DEF out, Lists, Unbroken, Stays, Positions, DeltaSent
<1>2. CASE \E e : e.event # "message_stop" /\ Write(e)
  <2>1. PICK e : e.event # "message_stop" /\ Write(e)
    BY <1>2
  <2>2. IsSeq(wire') /\ (Stays' => wire' = Append(wire, e) /\ ~closed')
    BY <2>1, WriteFacts
  <2>3. ASSUME Stays' PROVE Positions("message_stop")' = Positions("message_stop")
    BY <2>1, <2>2, <2>3, WireKept
  <2>4. ASSUME Stays' PROVE DeltaSent => DeltaSent'
    BY <2>2, <2>4, WireGrows DEF DeltaSent
  <2>. QED BY <1>0, <2>2, <2>3, <2>4
<1>. QED BY <1>1, <1>2 DEF Emission

LEMMA UnbrokenKept ==
    ASSUME Lists, Unbroken, UNCHANGED <<fate, link>>, Stays => ~closed'
    PROVE  Unbroken'
BY DEF Unbroken, fate, link, Stays

-------------------------------------------------------------------------------
(* A step of a goroutine's list                                                *)

LEMMA ListStep ==
    ASSUME Lists, NEW g \in {"scanner", "main"}, NEW item, NEW more \in Seq(Items),
           Doing(g, item), Then(g, more), IsSeq(wire')
    PROVE  /\ Lists'
           /\ todo[g] \in Seq(Items) /\ todo[g] # <<>> /\ Head(todo[g]) = item
           /\ todo'[g] = more \o Tail(todo[g])
           /\ \A h \in {"scanner", "main"} : h # g => todo'[h] = todo[h]
<1>1. todo[g] \in Seq(Items) /\ todo[g] # <<>> /\ Head(todo[g]) = item
  BY DEF Lists, Doing
<1>2. more \o Tail(todo[g]) \in Seq(Items)
  BY <1>1, RestFacts
<1>3. todo' = [todo EXCEPT ![g] = more \o Tail(todo[g])]
  BY DEF Then
<1>. QED BY <1>1, <1>2, <1>3 DEF Lists

\* Main goes on with its list: what it owes it still owes, or has sent.
LEMMA MainItem ==
    ASSUME EndInv, NEW item, NEW more \in Seq(Items \ {"messageStop"}),
           Doing("main", item), Then("main", more), item # "messageStop",
           UNCHANGED <<fate, link>>, Emission,
           deltaSent' => deltaSent \/ SendsDelta,
           item \in {"lastDelta", "finalDelta"} => deltaSent \/ SendsDelta
    PROVE  EndInv'
<1>. DEFINE s == todo["main"]
            t == more \o Tail(s)
<1>0. client' = client /\ main' = main
  BY DEF fate, link
<1>1. /\ IsSeq(wire')
      /\ Stays' => /\ ~closed'
                   /\ Positions("message_stop")' = Positions("message_stop")
                   /\ DeltaSent => DeltaSent'
                   /\ SendsDelta => DeltaSent'
  BY <1>0, EmissionFacts DEF EndInv
<1>2. more \in Seq(Items)
  OBVIOUS
<1>3. /\ Lists' /\ s \in Seq(Items) /\ s # <<>> /\ Head(s) = item
      /\ todo'["main"] = t /\ todo'["scanner"] = todo["scanner"]
  BY <1>1, <1>2, ListStep DEF EndInv
<1>4. /\ Len(t) = Len(more) + Len(s) - 1
      /\ Len(more) \in Nat /\ Len(s) \in Nat \ {0} /\ s[1] = item
      /\ DOMAIN s = 1 .. Len(s) /\ DOMAIN t = 1 .. Len(more) + Len(s) - 1
      /\ \A n \in 1 .. Len(more) : t[n] = more[n]
      /\ \A n \in 2 .. Len(s) : t[Len(more) + n - 1] = s[n]
      /\ t \in Seq(Items)
  BY <1>2, <1>3, RestFacts
<1>5. \A n \in 1 .. Len(more) : more[n] # "messageStop"
  OBVIOUS
<1>. HIDE DEF s, t
<1>6. Unbroken'
  BY <1>0, <1>1, UnbrokenKept DEF EndInv, Stays
<1>7. main = "ending"
  BY <1>3 DEF EndInv, Owing, Before, s
<1>8. Stays' /\ Stays => OwesStop(s) /\ NoStop /\ (DeltaSent \/ OwesDelta(s))
  BY <1>3, <1>7 DEF EndInv, Owing, Before, s
<1>9. ASSUME OwesStop(s) PROVE OwesStop(t)
  <2>1. Len(s) # 1 /\ s[Len(s)] = "messageStop"
    BY <1>4, <1>9 DEF OwesStop
  <2>2. t[Len(t)] = "messageStop" /\ Len(t) \in Nat \ {0}
    BY <1>4, <2>1
  <2>3. ASSUME NEW n \in 1 .. Len(t) - 1 PROVE t[n] # "messageStop"
    <3>1. CASE n \in 1 .. Len(more)
      BY <1>4, <1>5, <3>1
    <3>2. CASE n \notin 1 .. Len(more)
      <4>. DEFINE k == n - Len(more) + 1
      <4>1. k \in 2 .. Len(s) /\ k \in 1 .. Len(s) - 1 /\ n = Len(more) + k - 1
        BY <1>4, <3>2
      <4>2. t[Len(more) + k - 1] = s[k]
        BY <1>4, <4>1
      <4>. HIDE DEF k
      <4>. QED BY <1>9, <4>1, <4>2 DEF OwesStop
    <3>. QED BY <3>1, <3>2
  <2>. QED BY <2>2, <2>3, <1>4 DEF OwesStop
<1>10. ASSUME Stays', OwesDelta(s) PROVE DeltaSent' \/ OwesDelta(t)
  <2>1. PICK n \in DOMAIN s : s[n] \in {"lastDelta", "finalDelta"}
    BY <1>10 DEF OwesDelta
  <2>2. CASE n = 1
    <3>1. deltaSent \/ SendsDelta
      BY <1>4, <2>1, <2>2
    <3>. QED BY <1>0, <1>1, <1>10, <3>1 DEF EndInv, Noting, Stays
  <2>3. CASE n # 1
    <3>1. n \in 2 .. Len(s) /\ Len(more) + n - 1 \in DOMAIN t
      BY <1>4, <2>3
    <3>. QED BY <1>4, <2>1, <3>1 DEF OwesDelta
  <2>. QED BY <2>2, <2>3
<1>11. Owing'
  <2>1. ASSUME Stays'
        PROVE  OwesStop(t) /\ NoStop' /\ (DeltaSent' \/ OwesDelta(t))
    BY <1>0, <1>1, <1>8, <1>9, <1>10, <2>1 DEF Stays, NoStop
  <2>. QED BY <1>0, <1>3, <1>7, <2>1 DEF Owing, Before
<1>12. Noting'
  BY <1>0, <1>1, <1>3 DEF EndInv, Noting, NotedOnceSent, Stays
<1>. QED BY <1>3, <1>6, <1>11, <1>12 DEF EndInv

\* The scanner goes on with its list.
LEMMA ScannerItem ==
    ASSUME EndInv, NEW item, NEW more \in Seq(Items),
           Doing("scanner", item), Then("scanner", more),
           UNCHANGED <<fate, link>>, Emission,
           deltaSent' => deltaSent \/ item = "markDelta",
           item = "messageDelta" => SendsDelta,
           \A n \in DOMAIN more : more[n] = "markDelta"
              => \E m \in 1 .. n - 1 : more[m] = "messageDelta"
    PROVE  EndInv'
<1>. DEFINE s == todo["scanner"]
            t == more \o Tail(s)
<1>0. client' = client /\ main' = main
  BY DEF fate, link
<1>1. /\ IsSeq(wire')
      /\ Stays' => /\ ~closed'
                   /\ Positions("message_stop")' = Positions("message_stop")
                   /\ DeltaSent => DeltaSent'
                   /\ SendsDelta => DeltaSent'
  BY <1>0, EmissionFacts DEF EndInv
<1>3. /\ Lists' /\ s \in Seq(Items) /\ s # <<>> /\ Head(s) = item
      /\ todo'["scanner"] = t /\ todo'["main"] = todo["main"]
  BY <1>1, ListStep DEF EndInv
<1>4. /\ Len(t) = Len(more) + Len(s) - 1
      /\ Len(more) \in Nat /\ Len(s) \in Nat \ {0} /\ s[1] = item
      /\ DOMAIN s = 1 .. Len(s) /\ DOMAIN t = 1 .. Len(more) + Len(s) - 1
      /\ \A n \in 1 .. Len(more) : t[n] = more[n]
      /\ \A n \in 2 .. Len(s) : t[Len(more) + n - 1] = s[n]
  BY <1>3, RestFacts
<1>5. DOMAIN more = 1 .. Len(more)
  OBVIOUS
<1>. HIDE DEF s, t
<1>6. Unbroken'
  BY <1>0, <1>1, UnbrokenKept DEF EndInv, Stays
<1>7. Owing'
  BY <1>0, <1>1, <1>3 DEF EndInv, Owing, Before, Stays, NoStop, OneStop
<1>8. ASSUME Stays' PROVE deltaSent' => DeltaSent'
  <2>1. item = "markDelta" => DeltaSent
    BY <1>0, <1>4, <1>8 DEF EndInv, Noting, NotedOnceSent, Stays, s
  <2>. QED BY <1>0, <1>1, <1>8, <2>1 DEF EndInv, Noting, Stays
<1>9. ASSUME Stays', ~DeltaSent', NEW n \in DOMAIN t, t[n] = "markDelta"
      PROVE  \E m \in 1 .. n - 1 : t[m] = "messageDelta"
  <2>1. CASE n \in 1 .. Len(more)
    <3>1. PICK m \in 1 .. n - 1 : more[m] = "messageDelta"
      BY <1>4, <1>5, <1>9, <2>1
    <3>2. m \in 1 .. Len(more)
      BY <1>4, <2>1, <3>1
    <3>. QED BY <1>4, <3>1, <3>2
  <2>2. CASE n \notin 1 .. Len(more)
    <3>. DEFINE k == n - Len(more) + 1
    <3>1. k \in 2 .. Len(s) /\ n = Len(more) + k - 1 /\ k \in Int
      BY <1>4, <1>9, <2>2
    <3>2. s[k] = "markDelta" /\ k \in DOMAIN s
      BY <1>4, <1>9, <3>1
    <3>. HIDE DEF k
    <3>3. ~DeltaSent
      BY <1>1, <1>9
    <3>4. PICK m \in 1 .. k - 1 : s[m] = "messageDelta"
      BY <1>0, <1>9, <3>2, <3>3 DEF EndInv, Noting, NotedOnceSent, Stays, s
    <3>5. m # 1
      BY <1>1, <1>4, <1>9, <3>4
    <3>6. m \in 2 .. Len(s) /\ Len(more) + m - 1 \in 1 .. n - 1
      BY <1>4, <3>1, <3>4, <3>5
    <3>7. t[Len(more) + m - 1] = s[m]
      BY <1>4, <3>6
    <3>. QED BY <3>4, <3>6, <3>7
  <2>. QED BY <2>1, <2>2
<1>10. Noting'
  BY <1>3, <1>8, <1>9 DEF Noting, NotedOnceSent
<1>. QED BY <1>3, <1>6, <1>7, <1>10 DEF EndInv

\* Nothing is written, and no list goes on.
LEMMA FateStep ==
    ASSUME EndInv, UNCHANGED <<todo, wire, deltaSent>>, Stays' => Stays,
           main' = main \/ (Before /\ Before'), Unbroken'
    PROVE  EndInv'
<1>1. Lists'
  BY DEF EndInv, Lists
<1>2. Positions("message_stop")' = Positions("message_stop") /\ (DeltaSent' <=> DeltaSent)
  BY DEF DeltaSent, Positions
<1>3. Noting'
  BY <1>2 DEF EndInv, Noting, NotedOnceSent
<1>4. Owing'
  BY <1>2 DEF EndInv, Owing, Before, NoStop, OneStop
<1>. QED BY <1>1, <1>3, <1>4 DEF EndInv

-------------------------------------------------------------------------------
(* The steps of the scanner                                                    *)

LEMMA DeliverFacts ==
    ASSUME NEW e \in {"done", "error", "disconnected", "cancelled"}, Unbroken, Deliver(e),
           UNCHANGED <<client, cancelled, closed>>,
           Stays => e \in {"done", "error"}
    PROVE  Unbroken' /\ (main' = main \/ (Before /\ Before'))
<1>1. CASE main = "waiting"
  BY <1>1 DEF Deliver, EndsWith, Unbroken, Before, Stays
<1>2. CASE main # "waiting"
  BY <1>2 DEF Deliver, Unbroken, Before, Stays, fate
<1>. QED BY <1>1, <1>2

LEMMA ReadLastStep ==
    ASSUME EndInv, NEW reason \in {"none", "error", "disconnected"}, ReadLast(reason)
    PROVE  EndInv'
<1>1. /\ UNCHANGED out /\ UNCHANGED <<todo, state, link>>
      /\ IF reason = "none" THEN UNCHANGED fate ELSE Deliver(reason)
      /\ reason = "disconnected" => cancelled \/ closed
  BY Zenon DEF ReadLast, Silent
<1>2. UNCHANGED <<todo, wire, deltaSent, client, cancelled, closed>>
  BY <1>1 DEF out, state, link
<1>3. CASE UNCHANGED fate
  BY <1>2, <1>3, FateStep DEF fate, Stays, EndInv, Unbroken
<1>4. CASE reason \in {"error", "disconnected"} /\ Deliver(reason)
  <2>1. Stays => reason = "error"
    BY <1>1, <1>4 DEF EndInv, Unbroken
  <2>2. reason \in {"done", "error", "disconnected", "cancelled"}
    BY <1>4
  <2>3. Unbroken' /\ (main' = main \/ (Before /\ Before'))
    BY <1>2, <1>4, <2>1, <2>2, DeliverFacts DEF EndInv
  <2>. QED BY <1>2, <2>3, FateStep DEF Stays
<1>. QED BY <1>1, <1>3, <1>4, Zenon

LEMMA ScannerEndsSteps ==
    ASSUME EndInv, ReadMalformed \/ Panic \/ ScannerFinish \/ CloseDone
    PROVE  EndInv'
<1>1. CASE ReadMalformed \/ ScannerFinish
  <2>1. UNCHANGED <<fate, todo, state, link, out>>
    BY <1>1, Zenon DEF ReadMalformed, ScannerFinish, Silent
  <2>. QED BY <2>1, FateStep DEF fate, state, link, out, Stays, EndInv, Unbroken
<1>2. CASE Panic \/ CloseDone
  <2>1. PICK e \in {"done", "error"} : Deliver(e)
    BY <1>2, Zenon DEF Panic, CloseDone
  <2>2. UNCHANGED <<todo, state, link, out>>
    BY <1>2, Zenon DEF Panic, CloseDone, Silent
  <2>3. UNCHANGED <<todo, wire, deltaSent, client, cancelled, closed>>
    BY <2>2 DEF out, state, link
  <2>4. Unbroken' /\ (main' = main \/ (Before /\ Before'))
    BY <2>1, <2>3, DeliverFacts DEF EndInv
  <2>. QED BY <2>3, <2>4, FateStep DEF Stays
<1>. QED BY <1>1, <1>2

LEMMA ShortLists ==
    ASSUME NEW S, NEW a \in S, NEW b \in S, NEW c \in S
    PROVE  <<>> \in Seq(S) /\ <<a>> \in Seq(S) /\ <<a, b>> \in Seq(S) /\ <<a, b, c>> \in Seq(S)
OBVIOUS

LEMMA Concats == ASSUME NEW S, NEW s \in Seq(S), NEW t \in Seq(S) PROVE s \o t \in Seq(S)
OBVIOUS

LEMMA PlanFacts ==
    ASSUME NEW k
    PROVE  Plan(k) \in Seq(Items \ {"markDelta"})
<1>. DEFINE opening == IF NextBlock(k) = <<>> THEN <<>>
                       ELSE IF block.started THEN <<"emptyArgs", "stopBlock", "openNext">>
                       ELSE <<"openFirst", "markStarted">>
            body == IF HasContent(k) THEN opening \o <<"deliver">> ELSE <<>>
            end  == IF k.finish # "none" THEN <<"finish">> ELSE <<>>
<1>1. Plan(k) = body \o end
  BY Zenon DEF Plan
<1>2. end = <<"finish">> \/ end = <<>>
  BY Zenon
<1>0. {"finish", "emptyArgs", "stopBlock", "openNext", "openFirst", "markStarted", "deliver"}
        \subseteq Items \ {"markDelta"}
  BY DEF Items
<1>3. end \in Seq(Items \ {"markDelta"})
  <2>. HIDE DEF end
  <2>. QED BY ZenonT(40), <1>0, <1>2, ShortLists
<1>4. opening \in Seq(Items \ {"markDelta"})
  <2>1. opening \in {<<>>, <<"emptyArgs", "stopBlock", "openNext">>,
                     <<"openFirst", "markStarted">>}
    BY Zenon
  <2>. HIDE DEF opening
  <2>2. <<"emptyArgs", "stopBlock", "openNext">> \in Seq(Items \ {"markDelta"})
    BY <1>0, ShortLists
  <2>3. <<"openFirst", "markStarted">> \in Seq(Items \ {"markDelta"})
    BY <1>0, ShortLists
  <2>4. <<>> \in Seq(Items \ {"markDelta"})
    BY <1>0, ShortLists
  <2>. QED BY <2>1, <2>2, <2>3, <2>4
<1>5. body \in Seq(Items \ {"markDelta"})
  <2>1. body = opening \o <<"deliver">> \/ body = <<>>
    BY Zenon
  <2>2. <<"deliver">> \in Seq(Items \ {"markDelta"})
    BY <1>0, ShortLists
  <2>3. <<>> \in Seq(Items \ {"markDelta"})
    BY <1>0, ShortLists
  <2>. HIDE DEF body, opening
  <2>4. opening \o <<"deliver">> \in Seq(Items \ {"markDelta"})
    BY <1>4, <2>2, Concats
  <2>. QED BY <2>1, <2>3, <2>4
<1>. HIDE DEF body, end
<1>. QED BY <1>1, <1>3, <1>5

LEMMA ReadChunkStep ==
    ASSUME EndInv, NEW k, ReadChunk(k)
    PROVE  EndInv'
<1>1. /\ Read(k, Plan(k)) /\ UNCHANGED out
      /\ UNCHANGED <<fate, stopReason, deltaSent, link>>
  BY Zenon DEF ReadChunk, Silent
<1>2. todo' = [todo EXCEPT !["scanner"] = Plan(k)]
  BY <1>1, Zenon DEF Read, Schedule
<1>3. Plan(k) \in Seq(Items \ {"markDelta"}) /\ Plan(k) \in Seq(Items)
  BY PlanFacts
<1>4. /\ Lists' /\ todo'["main"] = todo["main"] /\ todo'["scanner"] = Plan(k)
  BY <1>1, <1>2, <1>3 DEF EndInv, Lists, out
<1>5. UNCHANGED <<main, ready, client, cancelled, closed, wire, deltaSent>>
  BY <1>1 DEF fate, link, out
<1>6. Positions("message_stop")' = Positions("message_stop") /\ (DeltaSent' <=> DeltaSent)
  BY <1>5 DEF DeltaSent, Positions
<1>7. Noting'
  <2>1. \A n \in DOMAIN Plan(k) : Plan(k)[n] # "markDelta"
    BY <1>3
  <2>. QED BY <1>4, <1>5, <1>6, <2>1 DEF EndInv, Noting, NotedOnceSent, Stays
<1>8. Owing'
  BY <1>4, <1>5, <1>6 DEF EndInv, Owing, Before, Stays, NoStop, OneStop
<1>9. Unbroken'
  BY <1>5 DEF EndInv, Unbroken, Stays
<1>. QED BY <1>4, <1>7, <1>8, <1>9 DEF EndInv

\* An event other than message_stop is an emission.
LEMMA Emits ==
    ASSUME NEW e, NEW b, NEW d, Write(Event(e, b, d)), e # "message_stop"
    PROVE  Emission /\ (e = "message_delta" => SendsDelta)
<1>1. Event(e, b, d).event = e
  BY DEF Event
<1>. QED BY <1>1 DEF Emission, SendsDelta

LEMMA SharedFacts ==
    ASSUME NEW g, Shared(g)
    PROVE  /\ \E item \in {"emptyArgs", "stopBlock", "markFinished"} : Doing(g, item)
           /\ Then(g, <<>>) /\ Emission
           /\ UNCHANGED <<fate, link, deltaSent>>
<1>1. CASE EmitEmptyToolArgs(g)
  <2>1. \/ UNCHANGED out
        \/ Write(Event("delta", block, <<"noArgs">>))
    BY <1>1, Zenon DEF EmitEmptyToolArgs, Silent
  <2>2. Emission
    BY <2>1, Emits DEF Emission
  <2>. QED BY <1>1, <2>2 DEF EmitEmptyToolArgs, Done
<1>2. CASE StopBlock(g)
  BY <1>2, Emits DEF StopBlock, Done, state
<1>3. CASE MarkFinished(g)
  BY <1>3 DEF MarkFinished, Done, Silent, Emission
<1>. QED BY <1>1, <1>2, <1>3 DEF Shared

LEMMA EmitSteps ==
    ASSUME EndInv, Open \/ MarkStarted \/ DeliverContent \/ Shared("scanner")
    PROVE  EndInv'
<1>1. PICK item \in Items \ {"markDelta", "messageDelta"} : Doing("scanner", item)
  BY SharedFacts DEF Open, MarkStarted, DeliverContent, Items
<1>2. Then("scanner", <<>>) /\ UNCHANGED <<fate, link, deltaSent>>
  BY SharedFacts DEF Open, MarkStarted, DeliverContent, Done
<1>3. Emission
  <2>1. CASE Open
    BY <2>1, Emits DEF Open, OpenBlock
  <2>2. CASE MarkStarted
    BY <2>2 DEF MarkStarted, Silent, Emission
  <2>3. CASE DeliverContent
    <3>1. UNCHANGED out \/ \E d : Write(Event("delta", block, d))
      BY <2>3 DEF DeliverContent, DeliverText, DeliverThinking, FlushToolCallArgs, Silent
    <3>. QED BY <3>1, Emits DEF Emission
  <2>4. CASE Shared("scanner")
    BY <2>4, SharedFacts
  <2>. QED BY <2>1, <2>2, <2>3, <2>4
<1>4. <<>> \in Seq(Items) /\ \A n \in DOMAIN <<>> : FALSE
  OBVIOUS
<1>. QED BY <1>1, <1>2, <1>3, <1>4, ScannerItem

LEMMA FinishSteps ==
    ASSUME EndInv, FinishReason \/ MessageDelta \/ MarkDelta
    PROVE  EndInv'
<1>0. <<>> \in Seq(Items) /\ \A n \in DOMAIN <<>> : FALSE
  OBVIOUS
<1>1. CASE FinishReason
  <2>. DEFINE long == <<"emptyArgs", "markFinished", "stopBlock", "messageDelta", "markDelta">>
              short == <<"messageDelta", "markDelta">>
              more == IF CloseIfOpen THEN long ELSE short
  <2>1. /\ Doing("scanner", "finish") /\ Then("scanner", more)
        /\ UNCHANGED out /\ UNCHANGED <<fate, link, deltaSent>>
    BY <1>1, Zenon DEF FinishReason, Silent
  <2>2. long \in Seq(Items) /\ short \in Seq(Items)
    BY DEF Items
  <2>3. /\ \A n \in DOMAIN long : long[n] = "markDelta"
              => \E m \in 1 .. n - 1 : long[m] = "messageDelta"
        /\ \A n \in DOMAIN short : short[n] = "markDelta"
              => \E m \in 1 .. n - 1 : short[m] = "messageDelta"
    <3>1. DOMAIN long = 1 .. 5 /\ DOMAIN short = 1 .. 2 /\ long[4] = "messageDelta"
          /\ short[1] = "messageDelta" /\ \A n \in 1 .. 4 : long[n] # "markDelta"
      OBVIOUS
    <3>. HIDE DEF long, short
    <3>. QED BY <3>1
  <2>. HIDE DEF long, short
  <2>. QED BY <2>1, <2>2, <2>3, ScannerItem DEF Emission
<1>2. CASE MessageDelta
  <2>1. /\ Doing("scanner", "messageDelta") /\ Then("scanner", <<>>)
        /\ UNCHANGED <<fate, link, deltaSent>>
        /\ Write(Event("message_delta", block, <<stopReason>>))
    BY <1>2 DEF MessageDelta, Done, state
  <2>2. Emission /\ SendsDelta
    BY <2>1, Emits
  <2>. QED BY <1>0, <2>1, <2>2, ScannerItem
<1>3. CASE MarkDelta
  <2>1. /\ Doing("scanner", "markDelta") /\ Then("scanner", <<>>)
        /\ UNCHANGED <<fate, link>> /\ UNCHANGED out
    BY <1>3 DEF MarkDelta, Done, Silent
  <2>. QED BY <1>0, <2>1, ScannerItem DEF Emission
<1>. QED BY <1>1, <1>2, <1>3

-------------------------------------------------------------------------------
(* The steps of main                                                           *)

LEMMA OpeningSteps ==
    ASSUME EndInv, Connect \/ FirstData \/ Stalled \/ CheckFails \/ Select \/ TimeOut
    PROVE  EndInv'
<1>1. /\ UNCHANGED <<todo, wire, deltaSent, client, cancelled, closed>>
      /\ UNCHANGED ready
      /\ main \in {"connecting", "checking", "starting", "waiting"}
  BY Zenon DEF Connect, FirstData, Stalled, CheckFails, Select, TimeOut, Silent, out, state,
               link, Goes, EndsWith
<1>2. \/ main' \in {"connecting", "checking", "starting", "waiting", "failed", "timedOut"}
      \/ main' = "dropped" /\ cancelled
      \/ main' \in ready
  <2>1. CASE Connect
    BY <2>1 DEF Connect, Goes, EndsWith
  <2>2. CASE FirstData
    BY <2>2 DEF FirstData
  <2>3. CASE Stalled
    BY <2>3 DEF Stalled, EndsWith
  <2>4. CASE CheckFails
    BY <2>4 DEF CheckFails, EndsWith
  <2>5. CASE Select
    BY <2>5 DEF Select, Goes, EndsWith
  <2>6. CASE TimeOut
    BY <2>6 DEF TimeOut, EndsWith
  <2>. QED BY <2>1, <2>2, <2>3, <2>4, <2>5, <2>6
<1>3. Before /\ Before' /\ Unbroken'
  BY <1>1, <1>2 DEF EndInv, Unbroken, Before, Stays
<1>. QED BY <1>1, <1>3, FateStep DEF Stays

LEMMA CatFacts ==
    ASSUME NEW S, NEW s \in Seq(S), NEW t \in Seq(S)
    PROVE  /\ s \o t \in Seq(S) /\ Len(s \o t) = Len(s) + Len(t)
           /\ Len(s) \in Nat /\ Len(t) \in Nat
           /\ DOMAIN t = 1 .. Len(t) /\ DOMAIN (s \o t) = 1 .. Len(s \o t)
           /\ \A n \in 1 .. Len(s) : (s \o t)[n] = s[n]
           /\ \A n \in 1 .. Len(t) : (s \o t)[Len(s) + n] = t[n]
OBVIOUS

LEMMA HeartbeatKnown ==
    /\ HeartbeatStop \in Seq(Items)
    /\ \A n \in 1 .. Len(HeartbeatStop) : HeartbeatStop[n] # "messageStop"
<1>1. {"stopHeartbeat", "awaitHeartbeat"} \subseteq Items
  BY DEF Items
<1>. QED BY <1>1, ShortLists DEF HeartbeatStop

\* What a list owes it still owes after other items.
LEMMA OwedLater ==
    ASSUME NEW h \in Seq(Items), NEW t \in Seq(Items),
           \A n \in 1 .. Len(h) : h[n] # "messageStop"
    PROVE  /\ h \o t \in Seq(Items)
           /\ OwesStop(t) => OwesStop(h \o t)
           /\ OwesDelta(t) => OwesDelta(h \o t)
<1>. DEFINE s == h \o t
<1>1. /\ s \in Seq(Items) /\ Len(s) = Len(h) + Len(t)
      /\ Len(h) \in Nat /\ Len(t) \in Nat
      /\ DOMAIN t = 1 .. Len(t) /\ DOMAIN s = 1 .. Len(s)
      /\ \A n \in 1 .. Len(h) : s[n] = h[n]
      /\ \A n \in 1 .. Len(t) : s[Len(h) + n] = t[n]
  BY CatFacts
<1>. HIDE DEF s
<1>2. ASSUME OwesStop(t) PROVE OwesStop(s)
  <2>1. Len(t) \in Nat \ {0} /\ t[Len(t)] = "messageStop"
    BY <1>1, <1>2, EmptySeq DEF OwesStop
  <2>2. s # <<>> /\ s[Len(s)] = "messageStop"
    BY <1>1, <2>1, EmptySeq
  <2>3. ASSUME NEW n \in 1 .. Len(s) - 1 PROVE s[n] # "messageStop"
    <3>1. CASE n \in 1 .. Len(h)
      BY <1>1, <3>1
    <3>2. CASE n \notin 1 .. Len(h)
      <4>. DEFINE k == n - Len(h)
      <4>1. k \in 1 .. Len(t) - 1 /\ k \in 1 .. Len(t) /\ n = Len(h) + k
        BY <1>1, <3>2
      <4>. HIDE DEF k
      <4>2. s[Len(h) + k] = t[k]
        BY <1>1, <4>1
      <4>. QED BY <1>2, <4>1, <4>2 DEF OwesStop
    <3>. QED BY <3>1, <3>2
  <2>. QED BY <2>2, <2>3 DEF OwesStop
<1>3. ASSUME OwesDelta(t) PROVE OwesDelta(s)
  <2>1. PICK n \in DOMAIN t : t[n] \in {"lastDelta", "finalDelta"}
    BY <1>3 DEF OwesDelta
  <2>2. Len(h) + n \in DOMAIN s /\ s[Len(h) + n] = t[n]
    BY <1>1
  <2>. QED BY <2>1, <2>2 DEF OwesDelta
<1>. QED BY <1>1, <1>2, <1>3 DEF s

LEMMA EndingFacts ==
    ASSUME NEW e \in Events
    PROVE  /\ Ending(e) \in Seq(Items)
           /\ e \notin {"cancelled", "disconnected", "dropped"}
                => OwesStop(Ending(e)) /\ OwesDelta(Ending(e))
<1>1. CASE e = "done"
  <2>. DEFINE t == <<"judge", "closeBlock", "defaultReason", "lastDelta", "messageStop">>
  <2>1. Ending(e) = HeartbeatStop \o t
    BY <1>1, Zenon DEF Ending
  <2>2. t \in Seq(Items)
    BY DEF Items
  <2>3. OwesStop(t) /\ OwesDelta(t)
    BY DEF OwesStop, OwesDelta
  <2>. QED BY <1>1, <2>1, <2>2, <2>3, HeartbeatKnown, OwedLater
<1>2. CASE e \in {"error", "timedOut", "failed"}
  <2>. DEFINE t == <<"closeBlock", "error", "finalDelta", "messageStop">>
  <2>1. Ending(e) = HeartbeatStop \o t
    <3>1. Ending(e) = Abort
      BY <1>2 DEF Ending
    <3>. QED BY <3>1 DEF Abort
  <2>2. t \in Seq(Items)
    BY DEF Items
  <2>3. OwesStop(t) /\ OwesDelta(t)
    BY DEF OwesStop, OwesDelta
  <2>. QED BY <1>2, <2>1, <2>2, <2>3, HeartbeatKnown, OwedLater
<1>3. CASE e \in {"cancelled", "disconnected", "dropped"}
  <2>1. Ending(e) \in {<<"error">> \o HeartbeatStop, HeartbeatStop}
    BY <1>3 DEF Ending
  <2>2. HeartbeatStop \in Seq(Items) /\ <<"error">> \in Seq(Items)
    BY DEF HeartbeatStop, Items
  <2>3. <<"error">> \o HeartbeatStop \in Seq(Items)
    BY <2>2, Concats
  <2>. QED BY <1>3, <2>1, <2>2, <2>3
<1>. QED BY <1>1, <1>2, <1>3 DEF Events

LEMMA BeginEndingStep ==
    ASSUME EndInv, BeginEnding
    PROVE  EndInv'
<1>1. /\ main \in Events /\ main' = "ending" /\ UNCHANGED ready
      /\ todo' = [todo EXCEPT !["main"] = Ending(main)]
      /\ UNCHANGED <<wire, deltaSent, client, cancelled, closed>>
  BY DEF BeginEnding, Goes, Schedule, Silent, out, state, link
<1>2. Ending(main) \in Seq(Items)
  BY <1>1, EndingFacts
<1>3. Lists' /\ todo'["main"] = Ending(main) /\ todo'["scanner"] = todo["scanner"]
  BY <1>1, <1>2 DEF EndInv, Lists
<1>4. Positions("message_stop")' = Positions("message_stop") /\ (DeltaSent' <=> DeltaSent)
  BY <1>1 DEF DeltaSent, Positions
<1>5. Unbroken'
  BY <1>1 DEF EndInv, Unbroken, Stays
<1>6. Noting'
  BY <1>1, <1>3, <1>4 DEF EndInv, Noting, NotedOnceSent, Stays
<1>7. ASSUME Stays PROVE OwesStop(Ending(main)) /\ OwesDelta(Ending(main)) /\ NoStop
  <2>1. Before /\ main \notin {"cancelled", "disconnected", "dropped"}
    BY <1>1, <1>7 DEF EndInv, Unbroken, Before, Events
  <2>. QED BY <1>1, <1>7, <2>1, EndingFacts DEF EndInv, Owing
<1>8. Owing'
  BY <1>1, <1>3, <1>4, <1>7 DEF Owing, Before, Stays, NoStop
<1>. QED BY <1>3, <1>5, <1>6, <1>8 DEF EndInv

LEMMA EndingSteps ==
    ASSUME EndInv,
           StopHeartbeat \/ AwaitHeartbeat \/ Judge \/ CloseBlock \/ SendError
             \/ DefaultReason \/ LastDelta \/ FinalDelta \/ Shared("main")
    PROVE  EndInv'
<1>0. <<>> \in Seq(Items \ {"messageStop"})
  OBVIOUS
<1>1. CASE StopHeartbeat \/ AwaitHeartbeat \/ DefaultReason
  <2>1. PICK item \in {"stopHeartbeat", "awaitHeartbeat", "defaultReason"} :
           Doing("main", item)
    BY <1>1, Zenon DEF StopHeartbeat, AwaitHeartbeat, DefaultReason
  <2>2. Then("main", <<>>) /\ UNCHANGED <<fate, link, deltaSent>> /\ UNCHANGED out
    BY <1>1, Zenon DEF StopHeartbeat, AwaitHeartbeat, DefaultReason, Done, Silent, state
  <2>. QED BY <1>0, <2>1, <2>2, MainItem DEF Emission
<1>2. CASE Judge \/ SendError
  <2>1. PICK item \in {"judge", "error"} : Doing("main", item)
    BY <1>2 DEF Judge, SendError
  <2>2. /\ Then("main", <<>>) /\ UNCHANGED <<fate, link, deltaSent>>
        /\ UNCHANGED out \/ Write(Event("error", block, <<>>))
    BY <1>2 DEF Judge, SendError, Done, Silent, state
  <2>3. Emission
    BY <2>2, Emits DEF Emission
  <2>. QED BY <1>0, <2>1, <2>2, <2>3, MainItem
<1>3. CASE CloseBlock
  <2>. DEFINE more == IF CloseIfOpen THEN <<"emptyArgs", "stopBlock", "markFinished">> ELSE <<>>
  <2>1. /\ Doing("main", "closeBlock") /\ Then("main", more)
        /\ UNCHANGED <<fate, link, deltaSent>> /\ UNCHANGED out
    BY <1>3, Zenon DEF CloseBlock, Silent, state
  <2>2. more \in Seq(Items \ {"messageStop"})
    <3>1. {"emptyArgs", "markFinished", "stopBlock"} \subseteq Items \ {"messageStop"}
      BY DEF Items
    <3>. QED BY <1>0, <3>1, ShortLists
  <2>. HIDE DEF more
  <2>. QED BY <2>1, <2>2, MainItem DEF Emission
<1>4. CASE LastDelta
  <2>1. /\ Doing("main", "lastDelta") /\ Then("main", <<>>)
        /\ UNCHANGED <<fate, link, deltaSent>>
        /\ \/ deltaSent /\ UNCHANGED out
           \/ Write(Event("message_delta", block, <<stopReason>>))
    BY <1>4, Zenon DEF LastDelta, Done, Silent, state
  <2>2. Emission /\ (deltaSent \/ SendsDelta)
    BY <2>1, Emits DEF Emission
  <2>. QED BY <1>0, <2>1, <2>2, MainItem
<1>5. CASE FinalDelta
  <2>1. PICK d : Write(Event("message_delta", block, d))
    BY <1>5, Zenon DEF FinalDelta
  <2>2. /\ Doing("main", "finalDelta") /\ Then("main", <<>>) /\ UNCHANGED <<fate, link>>
    BY <1>5, Zenon DEF FinalDelta, Done
  <2>3. Emission /\ SendsDelta
    BY <2>1, Emits
  <2>. QED BY <1>0, <2>2, <2>3, MainItem
<1>6. CASE Shared("main")
  <2>1. PICK item \in {"emptyArgs", "stopBlock", "markFinished"} : Doing("main", item)
    BY <1>6, SharedFacts
  <2>2. Then("main", <<>>) /\ Emission /\ UNCHANGED <<fate, link, deltaSent>>
    BY <1>6, SharedFacts
  <2>. QED BY <1>0, <2>1, <2>2, MainItem
<1>. QED BY <1>1, <1>2, <1>3, <1>4, <1>5, <1>6

\* The last item of main's list is the only one that sends message_stop.
LEMMA MessageStopStep ==
    ASSUME EndInv, MessageStop
    PROVE  EndInv'
<1>. DEFINE s == todo["main"]
<1>1. /\ Doing("main", "messageStop") /\ Then("main", <<>>)
      /\ UNCHANGED <<main, ready, client, cancelled, deltaSent>>
      /\ Write(Event("message_stop", block, <<>>))
  BY DEF MessageStop, Done, fate, link, state
<1>2. Event("message_stop", block, <<>>).event = "message_stop"
  BY DEF Event
<1>3. IsSeq(wire') /\ (Stays' => wire' = Append(wire, Event("message_stop", block, <<>>)) /\ ~closed')
  BY <1>1, WriteFacts DEF EndInv
<1>4. <<>> \in Seq(Items)
  OBVIOUS
<1>5. /\ Lists' /\ s \in Seq(Items) /\ s # <<>> /\ Head(s) = "messageStop"
      /\ todo'["main"] = <<>> \o Tail(s) /\ todo'["scanner"] = todo["scanner"]
  BY <1>1, <1>3, <1>4, ListStep DEF EndInv
<1>6. todo'["main"] = Tail(s) /\ s[1] = "messageStop" /\ Len(s) \in Nat \ {0}
  BY <1>5
<1>. HIDE DEF s
<1>7. main = "ending"
  BY <1>5 DEF EndInv, Owing, Before, s
<1>8. ASSUME Stays PROVE OwesStop(s) /\ NoStop /\ (DeltaSent \/ OwesDelta(s))
  BY <1>5, <1>7, <1>8 DEF EndInv, Owing, Before, s
<1>9. ASSUME Stays PROVE Len(s) = 1
  <2>1. \A n \in 1 .. Len(s) - 1 : s[n] # "messageStop"
    BY <1>8, <1>9 DEF OwesStop
  <2>2. 1 \notin 1 .. Len(s) - 1
    BY <1>6, <2>1
  <2>3. Len(s) \in Nat /\ Len(s) # 0
    BY <1>6
  <2>. QED BY <2>2, <2>3
<1>10. ASSUME Stays PROVE todo'["main"] = <<>> /\ DeltaSent
  <2>1. Tail(s) = <<>>
    <3>1. Tail(s) \in Seq(Items) /\ Len(Tail(s)) = 0
      BY <1>5, <1>9, <1>10
    <3>. QED BY <3>1, EmptySeq
  <2>2. \A n \in DOMAIN s : s[n] = "messageStop"
    BY <1>5, <1>6, <1>9, <1>10
  <2>. QED BY <1>6, <1>8, <1>10, <2>1, <2>2 DEF OwesDelta
<1>11. ASSUME Stays' PROVE OneStop' /\ (DeltaSent => DeltaSent')
  <2>1. Positions("message_stop")' = Positions("message_stop") \union {Len(wire) + 1}
    BY <1>2, <1>3, <1>11, WireGrows DEF EndInv
  <2>2. Positions("message_stop") = {}
    BY <1>1, <1>8, <1>11 DEF NoStop, Stays
  <2>3. OneStop'
    BY <2>1, <2>2 DEF OneStop
  <2>4. DeltaSent => DeltaSent'
    BY <1>3, <1>11, WireGrows DEF EndInv, DeltaSent
  <2>. QED BY <2>3, <2>4
<1>12. Owing'
  BY <1>1, <1>7, <1>10, <1>11 DEF Owing, Before, Stays
<1>13. Noting'
  BY <1>1, <1>5, <1>11 DEF EndInv, Noting, NotedOnceSent, Stays
<1>14. Unbroken'
  BY <1>1, <1>3 DEF EndInv, Unbroken, Stays
<1>. QED BY <1>5, <1>12, <1>13, <1>14 DEF EndInv

LEMMA ReturnStep ==
    ASSUME EndInv, ReturnFromHandler
    PROVE  EndInv'
<1>1. /\ main = "ending" /\ todo["main"] = <<>> /\ main' = "returned"
      /\ UNCHANGED <<todo, wire, deltaSent, client, cancelled, closed, ready>>
  BY DEF ReturnFromHandler, Goes, Silent, out, state, link
<1>2. Positions("message_stop")' = Positions("message_stop") /\ (DeltaSent' <=> DeltaSent)
  BY <1>1 DEF DeltaSent, Positions
<1>3. Lists'
  BY <1>1 DEF EndInv, Lists
<1>4. Unbroken'
  BY <1>1 DEF EndInv, Unbroken, Stays
<1>5. Noting'
  BY <1>1, <1>2 DEF EndInv, Noting, NotedOnceSent, Stays
<1>6. ~OwesStop(todo["main"])
  BY <1>1 DEF OwesStop
<1>7. Owing'
  BY <1>1, <1>2, <1>6 DEF EndInv, Owing, Before, Stays, OneStop
<1>. QED BY <1>3, <1>4, <1>5, <1>7 DEF EndInv

-------------------------------------------------------------------------------
(* The heartbeat and the client                                                *)

LEMMA SurroundingSteps ==
    ASSUME EndInv, Ping \/ HeartbeatExits \/ ClientGoes \/ ContextDone
    PROVE  EndInv'
<1>1. CASE Ping \/ HeartbeatExits
  <2>1. /\ UNCHANGED <<fate, todo, state, link, wire>>
        /\ Connection \/ closed' = closed
    BY <1>1, Zenon DEF Ping, HeartbeatExits, Silent, out
  <2>2. UNCHANGED <<main, ready, todo, deltaSent, wire, client, cancelled>>
    BY <2>1 DEF fate, state, link
  <2>3. Stays => closed' = closed
    BY <2>1 DEF Connection, Stays
  <2>4. Unbroken'
    BY <2>2, <2>3 DEF EndInv, Unbroken, Stays
  <2>. QED BY <2>2, <2>4, FateStep DEF Stays
<1>2. CASE ClientGoes
  <2>1. client' = "gone" /\ wire' = <<>> /\ UNCHANGED <<main, ready, todo, deltaSent>>
    BY <1>2 DEF ClientGoes, fate, state
  <2>2. IsSeq(wire')
    <3>1. <<>> \in Seq({})
      OBVIOUS
    <3>. QED BY <2>1, <3>1 DEF IsSeq
  <2>. QED BY <2>1, <2>2 DEF EndInv, Lists, Unbroken, Owing, Noting, Stays, Before
<1>3. CASE ContextDone
  <2>1. /\ client = "gone" /\ client' = client /\ Deliver("cancelled")
        /\ UNCHANGED <<todo, state>> /\ UNCHANGED out
    BY <1>3, Zenon DEF ContextDone, Silent
  <2>2. UNCHANGED <<todo, wire, deltaSent>> /\ ~Stays /\ ~Stays'
    BY <2>1 DEF state, out, Stays
  <2>3. Unbroken' /\ (main' = main \/ (Before /\ Before'))
    <3>1. CASE main = "waiting"
      BY <2>1, <2>2, <3>1 DEF Deliver, EndsWith, Unbroken, Before, EndInv
    <3>2. CASE main # "waiting"
      BY <2>1, <2>2, <3>2 DEF Deliver, Unbroken, Before, EndInv, fate
    <3>. QED BY <3>1, <3>2
  <2>. QED BY <2>2, <2>3, FateStep
<1>. QED BY <1>1, <1>2, <1>3

LEMMA EndStep ==
    ASSUME EndInv, [Next]_vars
    PROVE  EndInv'
<1>1. CASE UNCHANGED vars
  <2>1. UNCHANGED <<main, ready, todo, deltaSent, wire, client, cancelled, closed>>
    BY <1>1 DEF vars
  <2>2. Unbroken'
    BY <2>1 DEF EndInv, Unbroken, Stays
  <2>. QED BY <2>1, <2>2, FateStep DEF Stays
<1>2. CASE MainStep
  BY <1>2, OpeningSteps, BeginEndingStep, EndingSteps, MessageStopStep, ReturnStep DEF MainStep
<1>3. CASE ScannerStep
  <2>1. CASE \E reason \in {"none", "error", "disconnected"} : ReadLast(reason)
    BY <2>1, ReadLastStep, Zenon
  <2>2. CASE \E k \in Chunks : ReadChunk(k)
    BY <2>2, ReadChunkStep
  <2>. QED BY <1>3, <2>1, <2>2, ScannerEndsSteps, EmitSteps, FinishSteps, Zenon
           DEF ScannerStep
<1>. QED BY <1>1, <1>2, <1>3, SurroundingSteps DEF Next

-------------------------------------------------------------------------------
\* The stream of a client that stays is brought to its end, with message_delta
\* and a single message_stop, whatever the upstream sends and wherever it breaks
\* off (finishAbortedStream and the end of ConsumeSSEStream in
\* response_converter.go).
THEOREM StreamsReachTheirEnd == Spec => []StreamsComplete
<1>1. EndInv /\ [Next]_vars => EndInv'
  BY EndStep
<1>2. EndInv => StreamsComplete
  <2>. SUFFICES ASSUME EndInv, main = "returned", Stays
                PROVE  /\ Cardinality(Positions("message_delta")) >= 1
                       /\ Cardinality(Positions("message_stop")) = 1
    BY DEF StreamsComplete, Stays
  <2>1. todo["main"] = <<>> /\ OneStop /\ DeltaSent
    BY DEF EndInv, Owing, Before, OwesStop
  <2>2. Cardinality(Positions("message_stop")) = 1
    <3>1. PICK p : Positions("message_stop") = {p}
      BY <2>1 DEF OneStop
    <3>. QED BY <3>1, FS_Singleton
  <2>3. Cardinality(Positions("message_delta")) >= 1
    <3>1. DOMAIN wire = 1 .. Len(wire) /\ Len(wire) \in Nat
      BY AppendFacts DEF EndInv, Lists
    <3>2. IsFiniteSet(1 .. Len(wire))
      BY <3>1, FS_Interval
    <3>3. IsFiniteSet(Positions("message_delta"))
      BY <3>1, <3>2, FS_Subset DEF Positions
    <3>4. /\ Cardinality(Positions("message_delta")) \in Nat
          /\ Cardinality(Positions("message_delta")) # 0
      BY <2>1, <3>3, FS_CardinalityType, FS_EmptySet DEF DeltaSent
    <3>. QED BY <3>4
  <2>. QED BY <2>2, <2>3
<1>. QED BY <1>1, <1>2, EndInit, PTL DEF Spec

-------------------------------------------------------------------------------
(* What the wire holds                                                         *)

\* The types of the records, and what the scanner may rely on: the block it
\* is about to open is there, and has a number within the lines read.

Wanted == [type : BlockTypes, id : Ids, owner : Calls \union {0}]
Blocks == [type : BlockTypes, index : Nat, id : Ids, owner : Calls \union {0},
           started : BOOLEAN, finished : BOOLEAN]
ToolCalls == [known : BOOLEAN, id : Ids, named : BOOLEAN,
              buffer : Seq({"args", "noArgs"}), emitted : Nat]
Inputs == [chunk : Chunks \union {NoChunk}, next : Seq(Wanted), lines : Nat,
           errors : Nat, given : [Calls -> Nat]]

OfCall(b) == b.type = "tool_use" => b.owner \in Calls

Opening ==
    /\ todo["scanner"] # <<>> /\ stopReason = "none"
    /\ Head(todo["scanner"]) \in {"emptyArgs", "stopBlock", "openNext", "openFirst"}

InputTypes ==
    /\ input \in Inputs
    /\ input.lines <= MaxChunks /\ input.errors <= MaxChunkErrors + 1
    /\ scanner \in {"off", "running"} => input.errors <= MaxChunkErrors
    /\ Len(input.next) \in 0 .. 1
    /\ input.next # <<>> => OfCall(input.next[1])

BlockTypesHold ==
    /\ block \in Blocks /\ OfCall(block)
    /\ block.index <= input.lines
    /\ Opening => input.next # <<>> /\ block.index < input.lines

ToolTypes ==
    /\ tools \in [Calls -> ToolCalls]
    /\ \A i \in Calls : tools[i].emitted <= Len(tools[i].buffer)

PlainTypes ==
    /\ main \in Events \union {"connecting", "checking", "starting", "waiting",
                               "ending", "returned"}
    /\ outcome \in Events \union {"none"}
    /\ stalls \in 0 .. MaxStallRetries
    /\ ready \subseteq {"done", "error", "disconnected", "cancelled"}
    /\ scanner \in {"off", "running", "returning", "exited"}
    /\ collected \subseteq {"blank", "text", "markers"}
    /\ stopReason \in {"none", "end_turn", "max_tokens", "tool_use"}
    /\ heartbeat \in {"on", "stopping", "off"}
    /\ {orphanPing, deltaSent, cancelled, closed} \subseteq BOOLEAN
    /\ client \in {"there", "gone"}

\* A list each item of which is followed by one that may follow it, up to the
\* one item that may end it.
Chained(s, steps, last) ==
    \A n \in DOMAIN s : IF n = Len(s) THEN s[n] = last ELSE <<s[n], s[n + 1]>> \in steps

ReadingSteps ==
    {<<"emptyArgs", "stopBlock">>, <<"stopBlock", "openNext">>, <<"openNext", "deliver">>,
     <<"openFirst", "markStarted">>, <<"markStarted", "deliver">>, <<"deliver", "finish">>}
FinishingSteps ==
    {<<"emptyArgs", "markFinished">>, <<"markFinished", "stopBlock">>,
     <<"stopBlock", "messageDelta">>, <<"messageDelta", "markDelta">>}

\* The scanner finishes a chunk once it has noted the reason of the finish.
ScannersList ==
    IF scanner # "running" THEN todo["scanner"] = <<>> /\ (scanner = "off" => stopReason = "none")
    ELSE IF stopReason = "none"
    THEN Chained(todo["scanner"], ReadingSteps,
                 IF input.chunk.finish = "none" THEN "deliver" ELSE "finish")
    ELSE /\ Chained(todo["scanner"], FinishingSteps, "markDelta")
         /\ input.chunk.finish # "none"

\* Which event main may get, and what has become of the scanner then.
Phases ==
    /\ main \in {"connecting", "checking"} => scanner = "off"
    /\ main \in {"connecting", "checking", "starting", "waiting"} => outcome = "none"
    /\ main \in Events => outcome = main
    /\ main \in {"ending", "returned"} => outcome \in Events
    /\ ("done" \in ready /\ Before) \/ outcome = "done" => scanner = "exited"
    /\ ("error" \in ready /\ Before) \/ outcome = "error"
         => scanner \in {"returning", "exited"}
    /\ outcome = "failed" => scanner = "off"
    /\ \A n \in DOMAIN todo["main"] :
         todo["main"][n] \in {"judge", "defaultReason", "lastDelta"} => outcome = "done"

\* main stops the heartbeat before it writes message_stop.
Hushed ==
    /\ Positions("message_stop") # {} => heartbeat = "off"
    /\ \A n \in DOMAIN todo["main"] :
         todo["main"][n] = "messageStop"
           => heartbeat = "off" \/ \E m \in 1 .. n - 1 : todo["main"][m] = "awaitHeartbeat"
    /\ ~orphanPing

\* The wire of a client that has gone is forgotten.
Forgotten == ~Stays => wire = <<>>

Sound == PlainTypes /\ InputTypes /\ BlockTypesHold /\ ToolTypes
         /\ ScannersList /\ Phases /\ Hushed /\ Forgotten

\* The rest is about a client that is there, and a scanner that main has not
\* left behind: one of the two writes at a time.
Calm == Stays /\ outcome # "timedOut"

Begun == Cardinality(Positions("block_start"))
Ended == Cardinality(Positions("block_stop"))

InBlock == Begun = block.index + 1 /\ Ended = block.index
Between == Begun = Ended
Fresh   == Begun = 0 /\ Ended = 0 /\ block.index = 0

\* The scanner has nothing to do: it may read, or main may bring the stream
\* to its end.
Quiet ==
    IF stopReason = "none"
    THEN /\ ~block.finished /\ ~DeltaSent /\ ~deltaSent
         /\ IF block.started THEN InBlock ELSE Fresh
    ELSE /\ ~CloseIfOpen /\ Between /\ DeltaSent /\ deltaSent

\* The scanner is about to do an item.
ScannerAt(item) ==
    /\ ~deltaSent
    /\ item # "markDelta" => ~DeltaSent
    /\ stopReason = "none" =>
         /\ ~block.finished
         /\ item \in {"emptyArgs", "stopBlock", "deliver"} => block.started /\ InBlock
         /\ item = "openNext" => block.started /\ Begun = block.index + 1 /\ Between
         /\ item = "openFirst" => ~block.started /\ Fresh
         /\ item = "markStarted" => InBlock
         /\ item = "finish" => IF block.started THEN InBlock ELSE Fresh
    /\ stopReason # "none" =>
         /\ item \in {"emptyArgs", "markFinished"} => InBlock
         /\ item = "stopBlock" => InBlock /\ ~CloseIfOpen
         /\ item \in {"messageDelta", "markDelta"} => Between /\ ~CloseIfOpen
         /\ item = "markDelta" => DeltaSent

\* main is about to do an item.
MainAt(item) ==
    /\ item \in {"stopHeartbeat", "awaitHeartbeat", "judge", "closeBlock"}
         => Quiet /\ (outcome # "done" => stopReason = "none")
    /\ item \in {"emptyArgs", "stopBlock"} => InBlock /\ ~DeltaSent /\ ~deltaSent
    /\ item \in {"markFinished", "defaultReason", "lastDelta", "error", "finalDelta"}
         => Between /\ (DeltaSent <=> deltaSent) /\ (outcome # "done" => ~DeltaSent)
    /\ item = "messageStop" => Between /\ DeltaSent

DoneSteps ==
    {<<"stopHeartbeat", "awaitHeartbeat">>, <<"awaitHeartbeat", "judge">>,
     <<"judge", "closeBlock">>, <<"closeBlock", "defaultReason">>,
     <<"emptyArgs", "stopBlock">>, <<"stopBlock", "markFinished">>,
     <<"markFinished", "defaultReason">>, <<"defaultReason", "lastDelta">>,
     <<"lastDelta", "messageStop">>}
AbortSteps ==
    {<<"stopHeartbeat", "awaitHeartbeat">>, <<"awaitHeartbeat", "closeBlock">>,
     <<"closeBlock", "error">>,
     <<"emptyArgs", "stopBlock">>, <<"stopBlock", "markFinished">>,
     <<"markFinished", "error">>, <<"error", "finalDelta">>,
     <<"finalDelta", "messageStop">>}

MainsList ==
    Chained(todo["main"], IF outcome = "done" THEN DoneSteps ELSE AbortSteps, "messageStop")

Course ==
    /\ outcome \notin {"cancelled", "disconnected", "dropped"}
    /\ Before /\ todo["scanner"] = <<>> =>
         /\ Quiet
         /\ "error" \in ready \/ outcome = "error" => stopReason = "none"
    /\ Before /\ todo["scanner"] # <<>> => ScannerAt(Head(todo["scanner"]))
    /\ ~Before => MainsList
    /\ ~Before /\ todo["main"] # <<>> => MainAt(Head(todo["main"]))

WireInv == EndInv /\ Sound /\ (Calm => Course /\ Protocol)

-------------------------------------------------------------------------------
(* Which steps change what                                                     *)

Streaming == [Next]_vars

LEMMA InputChanges ==
    ASSUME Streaming
    PROVE  \/ input' = input
           \/ ReadMalformed
           \/ \E k \in Chunks : ReadChunk(k)
<1>1. CASE UNCHANGED vars
  BY <1>1 DEF vars
<1>2. CASE MainStep
  BY <1>2 DEF MainStep, Connect, FirstData, Stalled, CheckFails, Select, TimeOut, BeginEnding,
     StopHeartbeat, AwaitHeartbeat, Judge, CloseBlock, SendError, DefaultReason, LastDelta,
     FinalDelta, MessageStop, Shared, EmitEmptyToolArgs, StopBlock, MarkFinished,
     ReturnFromHandler, upstream
<1>3. CASE ScannerStep
  BY <1>3 DEF ScannerStep, Panic, ScannerFinish, CloseDone, ReadLast, Open, MarkStarted,
     DeliverContent, FinishReason, MessageDelta, MarkDelta, Shared, EmitEmptyToolArgs,
     StopBlock, MarkFinished, upstream
<1>4. CASE Ping \/ HeartbeatExits \/ ClientGoes \/ ContextDone
  BY <1>4 DEF Ping, HeartbeatExits, ClientGoes, ContextDone, upstream
<1>. QED BY <1>1, <1>2, <1>3, <1>4 DEF Streaming, Next

LEMMA BlockChanges ==
    ASSUME Streaming
    PROVE  block' = block \/ Open \/ MarkStarted \/ \E g \in {"scanner", "main"} : MarkFinished(g)
<1>1. CASE UNCHANGED vars
  BY <1>1 DEF vars
<1>2. CASE MainStep
  BY <1>2 DEF MainStep, Connect, FirstData, Stalled, CheckFails, Select, TimeOut, BeginEnding,
     StopHeartbeat, AwaitHeartbeat, Judge, CloseBlock, SendError, DefaultReason, LastDelta,
     FinalDelta, MessageStop, Shared, EmitEmptyToolArgs, StopBlock,
     ReturnFromHandler, state
<1>3. CASE ScannerStep
  BY <1>3 DEF ScannerStep, Panic, ScannerFinish, CloseDone, ReadLast, ReadChunk, ReadMalformed,
     DeliverContent, FinishReason, MessageDelta, MarkDelta, Shared, EmitEmptyToolArgs,
     StopBlock, state
<1>4. CASE Ping \/ HeartbeatExits \/ ClientGoes \/ ContextDone
  BY <1>4 DEF Ping, HeartbeatExits, ClientGoes, ContextDone, state
<1>. QED BY <1>1, <1>2, <1>3, <1>4 DEF Streaming, Next

LEMMA ToolsChange ==
    ASSUME Streaming
    PROVE  \/ tools' = tools \/ Open \/ DeliverContent
           \/ \E k \in Chunks : ReadChunk(k)
           \/ \E g \in {"scanner", "main"} : EmitEmptyToolArgs(g)
<1>1. CASE UNCHANGED vars
  BY <1>1 DEF vars
<1>2. CASE MainStep
  BY <1>2 DEF MainStep, Connect, FirstData, Stalled, CheckFails, Select, TimeOut, BeginEnding,
     StopHeartbeat, AwaitHeartbeat, Judge, CloseBlock, SendError, DefaultReason, LastDelta,
     FinalDelta, MessageStop, Shared, MarkFinished, StopBlock,
     ReturnFromHandler, state
<1>3. CASE ScannerStep
  BY <1>3 DEF ScannerStep, Panic, ScannerFinish, CloseDone, ReadLast, ReadMalformed,
     MarkStarted, FinishReason, MessageDelta, MarkDelta, Shared, MarkFinished,
     StopBlock, state
<1>4. CASE Ping \/ HeartbeatExits \/ ClientGoes \/ ContextDone
  BY <1>4 DEF Ping, HeartbeatExits, ClientGoes, ContextDone, state
<1>. QED BY <1>1, <1>2, <1>3, <1>4 DEF Streaming, Next

LEMMA ReasonChanges ==
    ASSUME Streaming
    PROVE  stopReason' = stopReason \/ FinishReason \/ DefaultReason
<1>1. CASE UNCHANGED vars
  BY <1>1 DEF vars
<1>2. CASE MainStep
  BY <1>2 DEF MainStep, Connect, FirstData, Stalled, CheckFails, Select, TimeOut, BeginEnding,
     StopHeartbeat, AwaitHeartbeat, Judge, CloseBlock, SendError, LastDelta,
     FinalDelta, MessageStop, Shared, EmitEmptyToolArgs, MarkFinished, StopBlock,
     ReturnFromHandler, state
<1>3. CASE ScannerStep
  BY <1>3 DEF ScannerStep, Panic, ScannerFinish, CloseDone, ReadLast, ReadChunk, ReadMalformed,
     Open, DeliverContent, MarkStarted, MessageDelta, MarkDelta, Shared, EmitEmptyToolArgs,
     MarkFinished, StopBlock, state
<1>4. CASE Ping \/ HeartbeatExits \/ ClientGoes \/ ContextDone
  BY <1>4 DEF Ping, HeartbeatExits, ClientGoes, ContextDone, state
<1>. QED BY <1>1, <1>2, <1>3, <1>4 DEF Streaming, Next

LEMMA ScannerChanges ==
    ASSUME Streaming
    PROVE  \/ scanner' = scanner
           \/ FirstData
           \/ /\ Reading \/ ScannerFinish \/ scanner = "returning"
              /\ scanner' \in {"running", "returning", "exited"}
              /\ scanner' = "running" => scanner = "running"
<1>1. CASE UNCHANGED vars
  BY <1>1 DEF vars
<1>2. CASE MainStep
  BY <1>2 DEF MainStep, Connect, Stalled, CheckFails, Select, TimeOut, BeginEnding,
     StopHeartbeat, AwaitHeartbeat, Judge, CloseBlock, SendError, DefaultReason, LastDelta,
     FinalDelta, MessageStop, Shared, EmitEmptyToolArgs, MarkFinished, StopBlock,
     ReturnFromHandler, upstream
<1>3. CASE ScannerStep
  BY <1>3 DEF ScannerStep, Panic, ScannerFinish, CloseDone, ReadLast, ReadChunk, ReadMalformed,
     Open, DeliverContent, FinishReason, MarkStarted, MessageDelta, MarkDelta, Shared,
     EmitEmptyToolArgs, MarkFinished, StopBlock, upstream, Reading
<1>4. CASE Ping \/ HeartbeatExits \/ ClientGoes \/ ContextDone
  BY <1>4 DEF Ping, HeartbeatExits, ClientGoes, ContextDone, upstream
<1>. QED BY <1>1, <1>2, <1>3, <1>4 DEF Streaming, Next

-------------------------------------------------------------------------------
(* Types                                                                       *)

LEMMA DeliverTypes ==
    ASSUME PlainTypes, NEW e \in {"done", "error", "disconnected", "cancelled"}, Deliver(e)
    PROVE  /\ main' = main \/ main' = e
           /\ outcome' = outcome \/ outcome' = e
           /\ stalls' = stalls
           /\ ready' \subseteq {"done", "error", "disconnected", "cancelled"}
BY DEF PlainTypes, Deliver, EndsWith, fate

LEMMA PlainStep ==
    ASSUME PlainTypes, Streaming
    PROVE  PlainTypes'
<1>. USE StreamAssumption DEF PlainTypes
<1>1. CASE UNCHANGED vars
  BY <1>1 DEF vars
<1>2. CASE Connect \/ FirstData \/ Stalled \/ CheckFails \/ Select \/ TimeOut \/ BeginEnding
             \/ ReturnFromHandler
  <2>1. /\ UNCHANGED <<collected, state, pinging, link, out, ready>>
        /\ scanner' \in {scanner, "running"}
    BY <1>2 DEF Connect, FirstData, Stalled, CheckFails, Select, TimeOut, BeginEnding,
       ReturnFromHandler, Goes, EndsWith, Silent
  <2>2. \A e \in ready : e \in Events
    BY DEF Events
  <2>3. /\ main' \in Events \union {"connecting", "checking", "starting", "waiting",
                                    "ending", "returned"}
        /\ outcome' \in Events \union {"none"}
        /\ stalls' \in 0 .. MaxStallRetries
    <3>1. CASE Connect \/ FirstData \/ TimeOut \/ BeginEnding \/ ReturnFromHandler
      BY <3>1 DEF Connect, FirstData, TimeOut, BeginEnding, ReturnFromHandler, Goes,
         EndsWith, Events
    <3>2. CASE Stalled \/ CheckFails
      BY <3>2 DEF Stalled, CheckFails, EndsWith, Events
    <3>3. CASE Select
      BY <2>2, <3>3 DEF Select, Goes, EndsWith
    <3>. QED BY <1>2, <3>1, <3>2, <3>3
  <2>. QED BY <2>1, <2>3 DEF state, pinging, link, out
<1>3. CASE StopHeartbeat \/ AwaitHeartbeat \/ CloseBlock \/ DefaultReason
  BY ZenonT(40), <1>3 DEF StopHeartbeat, AwaitHeartbeat, CloseBlock, DefaultReason,
     fate, upstream, state, pinging, link, out, Silent
<1>4. CASE Judge \/ SendError \/ LastDelta \/ FinalDelta \/ MessageStop \/ MessageDelta
  BY ZenonT(40), <1>4 DEF Judge, SendError, LastDelta, FinalDelta, MessageStop, MessageDelta,
     Write, Connection, fate, upstream, state, pinging, link, out, Silent
<1>5. ASSUME NEW g, Shared(g) PROVE PlainTypes'
  BY ZenonT(40), <1>5 DEF Shared, EmitEmptyToolArgs, StopBlock, MarkFinished,
     Write, Connection, fate, upstream, state, pinging, link, out, Silent
<1>6. CASE ReadMalformed \/ ScannerFinish \/ \E k \in Chunks : ReadChunk(k)
  BY <1>6 DEF ReadMalformed, ScannerFinish, ReadChunk,
     fate, upstream, state, pinging, link, out, Silent
<1>7. CASE Panic \/ CloseDone \/ ContextDone
             \/ \E reason \in {"none", "error", "disconnected"} : ReadLast(reason)
  <2>1. UNCHANGED fate \/ \E e \in {"done", "error", "disconnected", "cancelled"} : Deliver(e)
    BY <1>7 DEF Panic, CloseDone, ContextDone, ReadLast
  <2>2. /\ main' = main \/ main' \in Events
        /\ outcome' = outcome \/ outcome' \in Events
        /\ stalls' = stalls
        /\ ready' \subseteq {"done", "error", "disconnected", "cancelled"}
    BY <2>1, DeliverTypes DEF fate, Events
  <2>3. /\ scanner' = scanner \/ scanner' \in {"returning", "exited"}
        /\ client' = client /\ (cancelled' = cancelled \/ cancelled' = TRUE)
        /\ UNCHANGED <<collected, state, pinging, out>>
    BY <1>7 DEF Panic, CloseDone, ContextDone, ReadLast, upstream, link, Silent
  <2>. QED BY ZenonT(40), <2>2, <2>3 DEF state, pinging, out
<1>8. CASE Open \/ MarkStarted \/ FinishReason \/ MarkDelta
  <2>1. /\ UNCHANGED <<fate, scanner, collected, pinging, link>>
        /\ deltaSent' = deltaSent \/ deltaSent' = TRUE
        /\ Silent \/ \E e : Write(e)
    BY <1>8 DEF Open, OpenBlock, MarkStarted, FinishReason, MarkDelta, upstream
  <2>2. stopReason' \in {stopReason, "end_turn", "max_tokens", "tool_use"}
    BY <1>8 DEF Open, MarkStarted, FinishReason, MarkDelta, TranslateFinishReason
  <2>3. closed' = closed \/ closed' = TRUE
    BY <2>1 DEF Write, Connection, Silent, out
  <2>. QED BY ZenonT(90), <2>1, <2>2, <2>3 DEF fate, pinging, link
<1>9. CASE DeliverContent
  BY ZenonT(40), <1>9 DEF DeliverContent, DeliverText, DeliverThinking, FlushToolCallArgs, HasText,
     Write, Connection, fate, pinging, link, out, Silent
<1>10. CASE Ping \/ HeartbeatExits \/ ClientGoes
  BY ZenonT(40), <1>10 DEF Ping, HeartbeatExits, ClientGoes, Connection, fate, upstream, state, pinging,
     link, out, Silent
<1>. QED BY <1>1, <1>2, <1>3, <1>4, <1>5, <1>6, <1>7, <1>8, <1>9, <1>10
         DEF Streaming, Next, MainStep, ScannerStep

LEMMA CallDeltasTyped ==
    ASSUME NEW k \in Chunks \union {NoChunk}
    PROVE  /\ k \in [content : Contents, thinking : BOOLEAN,
                     calls : Seq(CallDeltas), finish : Finishes]
           /\ k.calls \in Seq(CallDeltas)
           /\ \A n \in DOMAIN k.calls : k.calls[n] \in CallDeltas
<1>1. <<>> \in Seq(CallDeltas)
  OBVIOUS
<1>2. k \in [content : Contents, thinking : BOOLEAN, calls : Seq(CallDeltas), finish : Finishes]
  <2>1. CASE k \in Chunks
    BY <2>1, StreamAssumption
  <2>2. CASE k = NoChunk
    BY <1>1, <2>2 DEF NoChunk, Contents, Finishes
  <2>. QED BY <2>1, <2>2
<1>. QED BY <1>2

LEMMA LeastNumber ==
    ASSUME NEW S \in SUBSET Nat, S # {}
    PROVE  \E n \in S : \A m \in S : n <= m
<1>1. IsWellFoundedOn(OpToRel(<, Nat), Nat)
  BY NatLessThanWellFounded
<1>2. PICK n \in S : \A m \in S : ~(<<m, n>> \in OpToRel(<, Nat))
  BY <1>1, WFMin
<1>3. \A m \in S : ~(m < n)
  BY <1>2 DEF OpToRel
<1>. QED BY <1>3

LEMMA Bounds == MaxChunkErrors \in Nat /\ MaxStallRetries \in Nat /\ MaxChunks \in Nat
BY StreamAssumption

\* What a chunk asks for is a block.
LEMMA NextBlockTypes ==
    ASSUME NEW k \in Chunks, block \in Blocks, OfCall(block)
    PROVE  /\ NextBlock(k) \in Seq(Wanted) /\ Len(NextBlock(k)) \in 0 .. 1
           /\ NextBlock(k) # <<>> => OfCall(NextBlock(k)[1])
<1>. DEFINE Good(w) == w \in Wanted /\ OfCall(w)
<1>1. k.calls \in Seq(CallDeltas) /\ \A n \in DOMAIN k.calls : k.calls[n] \in CallDeltas
  BY CallDeltasTyped
<1>2. \A d \in CallDeltas : Good(AskedByCall(d))
  <2>. SUFFICES ASSUME NEW d \in CallDeltas PROVE Good(AskedByCall(d))
    OBVIOUS
  <2>1. d.index \in Calls
    BY DEF CallDeltas
  <2>2. NoId \in Ids /\ Own(d.index) \in Ids
    BY <2>1 DEF Ids
  <2>. QED BY <2>1, <2>2 DEF AskedByCall, Asked, Wanted, OfCall, BlockTypes
<1>3. Good(Unchanged)
  BY DEF Unchanged, Asked, Wanted, OfCall, Blocks
<1>4. Good(DetectBlockType(k))
  <2>1. k.calls # <<>> => k.calls[1] \in CallDeltas
    BY <1>1
  <2>2. NoId \in Ids /\ block.owner \in Calls \union {0}
    BY DEF Ids, Blocks
  <2>3. Good(Asked("thinking", NoId, block.owner)) /\ Good(Asked("text", NoId, block.owner))
    BY <2>2 DEF Asked, Wanted, OfCall, BlockTypes
  <2>. HIDE DEF Good
  <2>. QED BY <1>2, <1>3, <2>1, <2>3 DEF DetectBlockType
<1>. DEFINE named == {n \in DOMAIN k.calls : k.calls[n].name}
            first == CHOOSE n \in named : \A m \in named : n <= m
<1>5. ASSUME named # {} PROVE Good(AskedByCall(k.calls[first]))
  <2>1. named \in SUBSET Nat
    BY <1>1
  <2>2. first \in named
    BY <1>5, <2>1, LeastNumber
  <2>. QED BY <1>1, <1>2, <2>2
<1>6. k.calls # <<>> => Good(AskedByCall(k.calls[1]))
  BY <1>1, <1>2
<1>. DEFINE Fine(s) == s = <<>> \/ \E w : Good(w) /\ s = <<w>>
<1>7. Fine(ShouldStartNewBlock(k))
  <2>. HIDE DEF Good
  <2>. QED BY <1>4, <1>5, <1>6 DEF ShouldStartNewBlock
<1>8. Fine(NextBlock(k))
  <2>. HIDE DEF Good
  <2>. QED BY <1>4, <1>7 DEF NextBlock
<1>9. CASE NextBlock(k) = <<>>
  BY <1>9
<1>10. ASSUME NEW w, Good(w), NextBlock(k) = <<w>> PROVE NextBlock(k) \in Seq(Wanted)
         /\ Len(NextBlock(k)) = 1 /\ NextBlock(k)[1] = w
  BY <1>10
<1>. HIDE DEF Good
<1>11. ASSUME NEW w, Good(w), NextBlock(k) = <<w>>
       PROVE  /\ NextBlock(k) \in Seq(Wanted) /\ Len(NextBlock(k)) \in 0 .. 1
              /\ OfCall(NextBlock(k)[1])
  BY <1>10, <1>11 DEF Good
<1>. QED BY <1>8, <1>9, <1>11

LEMMA InputCounts ==
    ASSUME NEW i \in Inputs, NEW l \in Nat, NEW e \in Nat
    PROVE  [i EXCEPT !.lines = l, !.errors = e] \in Inputs
BY DEF Inputs

LEMMA InputReads ==
    ASSUME NEW i \in Inputs, NEW k \in Chunks, NEW n \in Seq(Wanted), NEW l \in Nat,
           NEW g \in [Calls -> Nat]
    PROVE  [i EXCEPT !.chunk = k, !.next = n, !.lines = l, !.given = g] \in Inputs
BY DEF Inputs

LEMMA ReadFacts ==
    ASSUME InputTypes, block \in Blocks, OfCall(block), NEW k \in Chunks, ReadChunk(k)
    PROVE  /\ input' \in Inputs /\ input'.chunk = k /\ input'.next = NextBlock(k)
           /\ input'.lines = input.lines + 1 /\ input'.errors = input.errors
           /\ input.lines \in Nat /\ input.lines < MaxChunks
<1>1. /\ input' = [input EXCEPT !.chunk = k, !.next = NextBlock(k), !.lines = @ + 1,
                      !.given = [i \in Calls |-> @[i] + Cardinality(Fragments(k.calls, i))]]
      /\ input.lines < MaxChunks
  BY DEF ReadChunk, Read
<1>2. NextBlock(k) \in Seq(Wanted)
  BY NextBlockTypes
<1>3. \A i \in Calls : Cardinality(Fragments(k.calls, i)) \in Nat
  <2>1. k.calls \in Seq(CallDeltas)
    BY CallDeltasTyped
  <2>2. DOMAIN k.calls = 1 .. Len(k.calls) /\ Len(k.calls) \in Nat
    BY <2>1
  <2>3. IsFiniteSet(DOMAIN k.calls)
    BY <2>2, FS_Interval
  <2>4. \A i \in Calls : Fragments(k.calls, i) \subseteq DOMAIN k.calls
    BY DEF Fragments
  <2>. QED BY <2>3, <2>4, FS_Subset, FS_CardinalityType
<1>. DEFINE given == [i \in Calls |-> input.given[i] + Cardinality(Fragments(k.calls, i))]
<1>4. given \in [Calls -> Nat]
  BY <1>3 DEF InputTypes, Inputs
<1>5. input' = [input EXCEPT !.chunk = k, !.next = NextBlock(k), !.lines = @ + 1,
                             !.given = given]
  BY <1>1
<1>. HIDE DEF given
<1>6. /\ input.lines \in Nat /\ input'.next = NextBlock(k) /\ input'.chunk = k
      /\ input'.lines = input.lines + 1 /\ input'.errors = input.errors
  BY <1>5 DEF InputTypes, Inputs
<1>7. input' \in Inputs
  <2>. DEFINE l == input.lines + 1
  <2>1. l \in Nat /\ input' = [input EXCEPT !.chunk = k, !.next = NextBlock(k), !.lines = l,
                                           !.given = given]
    BY <1>5, <1>6
  <2>. HIDE DEF l
  <2>. QED BY <1>2, <1>4, <2>1, InputReads DEF InputTypes
<1>. QED BY <1>1, <1>6, <1>7

LEMMA InputStep ==
    ASSUME InputTypes, BlockTypesHold, PlainTypes, Phases, Streaming
    PROVE  InputTypes'
<1>1. CASE input' = input
  <2>1. scanner' \in {"off", "running"} => scanner \in {"off", "running"}
    BY ScannerChanges DEF FirstData, Phases, PlainTypes
  <2>. QED BY <1>1, <2>1 DEF InputTypes
<1>2. CASE ReadMalformed
  <2>1. /\ input' = [input EXCEPT !.lines = @ + 1, !.errors = @ + 1]
        /\ input.lines < MaxChunks /\ scanner = "running"
        /\ scanner' = IF input.errors < MaxChunkErrors THEN "running" ELSE "returning"
    BY <1>2 DEF ReadMalformed, Reading
  <2>2. /\ input'.next = input.next
        /\ input'.lines = input.lines + 1 /\ input'.errors = input.errors + 1
        /\ input.lines \in Nat /\ input.errors \in Nat
    BY <2>1 DEF InputTypes, Inputs
  <2>3. input' \in Inputs
    <3>. DEFINE l == input.lines + 1
                e == input.errors + 1
    <3>1. l \in Nat /\ e \in Nat /\ input' = [input EXCEPT !.lines = l, !.errors = e]
      BY <2>1, <2>2
    <3>. HIDE DEF l, e
    <3>. QED BY <3>1, InputCounts DEF InputTypes
  <2>. QED BY <2>1, <2>2, <2>3, Bounds DEF InputTypes
<1>3. ASSUME NEW k \in Chunks, ReadChunk(k) PROVE InputTypes'
  <2>1. block \in Blocks /\ OfCall(block) /\ scanner' = scanner
    BY <1>3 DEF BlockTypesHold, ReadChunk
  <2>2. /\ Len(NextBlock(k)) \in 0 .. 1
        /\ NextBlock(k) # <<>> => OfCall(NextBlock(k)[1])
    BY <2>1, NextBlockTypes
  <2>3. /\ input' \in Inputs /\ input'.next = NextBlock(k)
        /\ input'.lines = input.lines + 1 /\ input'.errors = input.errors
        /\ input.lines \in Nat /\ input.lines < MaxChunks
    BY <1>3, <2>1, ReadFacts
  <2>. QED BY <2>1, <2>2, <2>3, Bounds DEF InputTypes
<1>. QED BY <1>1, <1>2, <1>3, InputChanges

-------------------------------------------------------------------------------
(* Lists in which an item is followed by one that may follow it                *)

Links(s, steps, last) ==
    \A n \in 1 .. Len(s) : IF n = Len(s) THEN s[n] = last ELSE <<s[n], s[n + 1]>> \in steps

LEMMA ChainLinks ==
    ASSUME NEW s, DOMAIN s = 1 .. Len(s), NEW steps, NEW last
    PROVE  Chained(s, steps, last) <=> Links(s, steps, last)
BY Zenon DEF Chained, Links

LEMMA Shorter ==
    \A l \in Nat \ {0} : \A n \in 1 .. l - 1 :
        /\ n + 1 \in 1 .. l /\ (n = l - 1 <=> n + 1 = l)
        /\ n # l - 1 => n + 1 \in 1 .. l - 1 /\ n + 1 + 1 = n + 2
OBVIOUS

LEMMA ChainRest ==
    ASSUME NEW s \in Seq(Items), s # <<>>, NEW steps, NEW last, Chained(s, steps, last),
           NEW t, t = <<>> \o Tail(s)
    PROVE  /\ t \in Seq(Items) /\ Chained(t, steps, last)
           /\ t = <<>> => Head(s) = last
           /\ t # <<>> => <<Head(s), Head(t)>> \in steps
<1>1. <<>> \in Seq(Items)
  OBVIOUS
<1>2. /\ t \in Seq(Items) /\ Len(s) \in Nat \ {0} /\ Len(t) = Len(s) - 1
      /\ DOMAIN s = 1 .. Len(s) /\ DOMAIN t = 1 .. Len(s) - 1 /\ s[1] = Head(s)
  BY <1>1, RestFacts
<1>3. \A n \in 1 .. Len(s) - 1 : t[n] = s[n + 1]
  BY <1>2
<1>4. Links(s, steps, last) /\ Len(s) \in Nat \ {0} /\ Len(t) = Len(s) - 1
  BY <1>2, ChainLinks
<1>5. Chained(t, steps, last)
  <2>. SUFFICES ASSUME NEW n \in 1 .. Len(s) - 1
                PROVE  IF n = Len(t) THEN t[n] = last ELSE <<t[n], t[n + 1]>> \in steps
    BY <1>2 DEF Chained
  <2>1. n + 1 \in 1 .. Len(s) /\ (n = Len(t) <=> n + 1 = Len(s))
        /\ (n # Len(t) => n + 1 \in 1 .. Len(s) - 1 /\ n + 1 + 1 = n + 2)
    BY <1>4, Shorter
  <2>2. t[n] = s[n + 1] /\ (n # Len(t) => t[n + 1] = s[n + 1 + 1])
    BY <1>3, <2>1
  <2>3. IF n + 1 = Len(s) THEN s[n + 1] = last ELSE <<s[n + 1], s[n + 1 + 1]>> \in steps
    BY <1>4, <2>1 DEF Links
  <2>. QED BY <2>1, <2>2, <2>3
<1>6. t = <<>> => Head(s) = last
  <2>1. t = <<>> => Len(s) = 1 /\ 1 \in 1 .. Len(s)
    BY SMTT(30), <1>2
  <2>. QED BY <1>2, <1>4, <2>1 DEF Links
<1>7. ASSUME t # <<>> PROVE <<Head(s), Head(t)>> \in steps
  <2>1. Len(s) # 1 /\ 1 \in 1 .. Len(s) /\ 1 \in 1 .. Len(s) - 1 /\ Head(t) = t[1] /\ 1 + 1 = 2
    BY <1>2, <1>7
  <2>2. t[1] = s[2]
    BY <1>3, <2>1
  <2>3. <<s[1], s[1 + 1]>> \in steps
    BY <1>4, <2>1 DEF Links
  <2>. QED BY <1>2, <2>1, <2>2, <2>3
<1>. QED BY <1>2, <1>5, <1>6, <1>7

LEMMA ChainCat ==
    ASSUME NEW s \in Seq(Items), NEW t \in Seq(Items), NEW steps, NEW a, NEW b,
           Chained(s, steps, a), Chained(t, steps, b), t # <<>>,
           s # <<>> => <<a, Head(t)>> \in steps
    PROVE  s \o t \in Seq(Items) /\ s \o t # <<>> /\ Chained(s \o t, steps, b)
           /\ Head(s \o t) = IF s = <<>> THEN Head(t) ELSE Head(s)
<1>. DEFINE c == s \o t
<1>1. /\ c \in Seq(Items) /\ Len(c) = Len(s) + Len(t)
      /\ Len(s) \in Nat /\ Len(t) \in Nat \ {0}
      /\ DOMAIN s = 1 .. Len(s) /\ DOMAIN t = 1 .. Len(t) /\ DOMAIN c = 1 .. Len(c)
      /\ \A n \in 1 .. Len(s) : c[n] = s[n]
      /\ \A n \in 1 .. Len(t) : c[Len(s) + n] = t[n]
  BY CatFacts
<1>2. Head(t) = t[1] /\ (s # <<>> => Head(s) = s[1] /\ Len(s) > 0) /\ Head(c) = c[1] /\ c # <<>>
  BY <1>1
<1>. HIDE DEF c
<1>3. /\ Links(s, steps, a) /\ Links(t, steps, b)
      /\ Len(s) \in Nat /\ Len(t) \in Nat /\ Len(t) # 0 /\ Len(c) = Len(s) + Len(t)
  BY <1>1, ChainLinks
<1>4. Chained(c, steps, b)
  <2>. SUFFICES ASSUME NEW n \in 1 .. Len(c)
                PROVE  IF n = Len(c) THEN c[n] = b ELSE <<c[n], c[n + 1]>> \in steps
    BY <1>1, ChainLinks DEF Links
  <2>1. CASE n < Len(s)
    <3>1. n \in 1 .. Len(s) /\ n + 1 \in 1 .. Len(s) /\ n # Len(s) /\ n # Len(c)
      BY <1>3, <2>1
    <3>2. c[n] = s[n] /\ c[n + 1] = s[n + 1]
      BY <1>1, <3>1
    <3>3. <<s[n], s[n + 1]>> \in steps
      BY <1>3, <3>1 DEF Links
    <3>. QED BY <3>1, <3>2, <3>3
  <2>2. CASE n = Len(s)
    <3>1. n \in 1 .. Len(s) /\ n # Len(c) /\ 1 \in 1 .. Len(t)
      BY <1>3, <2>2
    <3>2. c[n] = s[n] /\ c[Len(s) + 1] = t[1]
      BY <1>1, <3>1
    <3>4. s # <<>>
      BY <2>2, <3>1
    <3>3. s[n] = a
      BY <1>3, <2>2, <3>1 DEF Links
    <3>. QED BY <1>2, <2>2, <3>1, <3>2, <3>3, <3>4
  <2>3. CASE n > Len(s)
    <3>. DEFINE m == n - Len(s)
    <3>1. /\ m \in 1 .. Len(t) /\ n = Len(s) + m /\ (n = Len(c) <=> m = Len(t))
          /\ n # Len(c) => m + 1 \in 1 .. Len(t) /\ n + 1 = Len(s) + (m + 1)
      BY SMTT(30), <1>3, <2>3
    <3>. HIDE DEF m
    <3>2. c[n] = t[m] /\ (n # Len(c) => c[n + 1] = t[m + 1])
      BY <1>1, <3>1
    <3>3. IF m = Len(t) THEN t[m] = b ELSE <<t[m], t[m + 1]>> \in steps
      BY <1>3, <3>1 DEF Links
    <3>. QED BY <3>1, <3>2, <3>3
  <2>. QED BY <1>3, <2>1, <2>2, <2>3
<1>5. Head(c) = IF s = <<>> THEN Head(t) ELSE Head(s)
  <2>1. CASE s = <<>>
    <3>1. Len(s) = 0 /\ 1 \in 1 .. Len(t)
      BY <1>1, <2>1
    <3>2. c[0 + 1] = t[1]
      BY <1>1, <3>1
    <3>. QED BY <1>2, <2>1, <3>2
  <2>2. CASE s # <<>>
    BY <1>1, <1>2, <2>2
  <2>. QED BY <2>1, <2>2
<1>. QED BY <1>1, <1>2, <1>4, <1>5 DEF c

LEMMA NoItems == ASSUME NEW steps, NEW last PROVE Chained(<<>>, steps, last) /\ <<>> \in Seq(Items)
BY DEF Chained

\* What a chunk is planned to become, and that its block is then known.
LEMMA PlanChain ==
    ASSUME NEW k
    PROVE  /\ Plan(k) \in Seq(Items)
           /\ Chained(Plan(k), ReadingSteps, IF k.finish = "none" THEN "deliver" ELSE "finish")
           /\ Plan(k) = <<>> => k.finish = "none"
           /\ Plan(k) # <<>> =>
                LET h == Head(Plan(k))
                IN  \/ h = "emptyArgs" /\ NextBlock(k) # <<>> /\ block.started
                    \/ h = "openFirst" /\ NextBlock(k) # <<>> /\ ~block.started
                    \/ h = "deliver" /\ HasContent(k) /\ NextBlock(k) = <<>>
                    \/ h = "finish"
<1>. DEFINE opening == IF NextBlock(k) = <<>> THEN <<>>
                       ELSE IF block.started THEN <<"emptyArgs", "stopBlock", "openNext">>
                       ELSE <<"openFirst", "markStarted">>
            body == IF HasContent(k) THEN opening \o <<"deliver">> ELSE <<>>
            end  == IF k.finish # "none" THEN <<"finish">> ELSE <<>>
<1>1. Plan(k) = body \o end
  BY DEF Plan
<1>2. /\ <<>> \in Seq(Items) /\ <<"emptyArgs", "stopBlock", "openNext">> \in Seq(Items)
      /\ <<"openFirst", "markStarted">> \in Seq(Items) /\ <<"deliver">> \in Seq(Items)
      /\ <<"finish">> \in Seq(Items)
  BY DEF Items
<1>3. /\ Chained(<<"emptyArgs", "stopBlock", "openNext">>, ReadingSteps, "openNext")
      /\ Chained(<<"openFirst", "markStarted">>, ReadingSteps, "markStarted")
      /\ Chained(<<"deliver">>, ReadingSteps, "deliver")
      /\ Chained(<<"finish">>, ReadingSteps, "finish")
  BY DEF Chained, ReadingSteps
<1>4. <<"deliver">> # <<>> /\ Head(<<"deliver">>) = "deliver" /\ <<"finish">> # <<>>
      /\ Head(<<"finish">>) = "finish"
      /\ Head(<<"emptyArgs", "stopBlock", "openNext">>) = "emptyArgs"
      /\ Head(<<"openFirst", "markStarted">>) = "openFirst"
      /\ <<"emptyArgs", "stopBlock", "openNext">> # <<>> /\ <<"openFirst", "markStarted">> # <<>>
  OBVIOUS
<1>5. /\ <<"openNext", "deliver">> \in ReadingSteps /\ <<"markStarted", "deliver">> \in ReadingSteps
      /\ <<"deliver", "finish">> \in ReadingSteps
  BY DEF ReadingSteps
<1>. DEFINE l == IF block.started THEN "openNext" ELSE "markStarted"
<1>6. /\ opening \in Seq(Items) /\ Chained(opening, ReadingSteps, l)
      /\ <<l, "deliver">> \in ReadingSteps
      /\ opening = <<>> <=> NextBlock(k) = <<>>
      /\ opening # <<>> => Head(opening) = IF block.started THEN "emptyArgs" ELSE "openFirst"
  BY <1>2, <1>3, <1>4, <1>5, NoItems
<1>. HIDE DEF opening, l
<1>7. /\ opening \o <<"deliver">> \in Seq(Items) /\ opening \o <<"deliver">> # <<>>
      /\ Chained(opening \o <<"deliver">>, ReadingSteps, "deliver")
      /\ Head(opening \o <<"deliver">>) = IF opening = <<>> THEN "deliver" ELSE Head(opening)
  BY <1>2, <1>3, <1>4, <1>6, ChainCat
<1>8. /\ body \in Seq(Items) /\ Chained(body, ReadingSteps, "deliver")
      /\ HasContent(k) => body # <<>>
                          /\ Head(body) = IF opening = <<>> THEN "deliver" ELSE Head(opening)
      /\ ~HasContent(k) => body = <<>>
  BY <1>7, NoItems
<1>. HIDE DEF body
<1>9. CASE k.finish = "none"
  <2>1. Plan(k) = body
    BY <1>1, <1>8, <1>9
  <2>. QED BY <1>6, <1>8, <1>9, <2>1
<1>10. CASE k.finish # "none"
  <2>1. Plan(k) = body \o <<"finish">>
    BY <1>1, <1>10
  <2>. DEFINE c == body \o <<"finish">>
  <2>2. /\ c \in Seq(Items) /\ c # <<>> /\ Chained(c, ReadingSteps, "finish")
        /\ Head(c) = IF body = <<>> THEN Head(<<"finish">>) ELSE Head(body)
    BY <1>2, <1>3, <1>4, <1>5, <1>8, ChainCat, Zenon
  <2>. HIDE DEF c
  <2>3. /\ Plan(k) = c /\ Head(c) = IF body = <<>> THEN "finish" ELSE Head(body)
    BY <1>4, <2>1, <2>2 DEF c
  <2>. QED BY <1>6, <1>8, <1>10, <2>2, <2>3
<1>. QED BY <1>9, <1>10

-------------------------------------------------------------------------------
(* The scanner's list                                                          *)

\* A step of the scanner's that does one item and puts nothing in its place.
ScannerDoes(item) ==
    /\ Doing("scanner", item) /\ Done("scanner")
    /\ UNCHANGED <<main, outcome, stalls, ready, scanner, input, stopReason, client, cancelled,
                   heartbeat, orphanPing>>

LEMMA ScannerSteps ==
    ASSUME Open \/ MarkStarted \/ DeliverContent \/ MessageDelta \/ MarkDelta \/ Shared("scanner")
    PROVE  \E item : ScannerDoes(item) /\ (item = "deliver" => DeliverContent)
<1>1. CASE Open \/ MarkStarted \/ MessageDelta \/ MarkDelta
  <2>1. CASE Open
    <3>1. ScannerDoes("openFirst") \/ ScannerDoes("openNext")
      BY <2>1 DEF Open, ScannerDoes, fate, upstream, pinging, link
    <3>. QED BY <3>1
  <2>2. CASE MarkStarted
    <3>1. ScannerDoes("markStarted")
      BY <2>2 DEF MarkStarted, ScannerDoes, fate, upstream, pinging, link
    <3>. QED BY <3>1
  <2>3. CASE MessageDelta \/ MarkDelta
    <3>1. ScannerDoes("messageDelta") \/ ScannerDoes("markDelta")
      BY <2>3 DEF MessageDelta, MarkDelta, ScannerDoes, fate, upstream, state, pinging, link
    <3>. QED BY <3>1
  <2>. QED BY <1>1, <2>1, <2>2, <2>3
<1>2. CASE DeliverContent
  BY <1>2 DEF DeliverContent, ScannerDoes, fate, pinging, link
<1>3. CASE Shared("scanner")
  BY <1>3 DEF Shared, EmitEmptyToolArgs, StopBlock, MarkFinished, ScannerDoes, fate, upstream,
     state, pinging, link
<1>. QED BY <1>1, <1>2, <1>3

LEMMA ScannersListChanges ==
    ASSUME Lists, Streaming
    PROVE  \/ todo'["scanner"] = todo["scanner"] /\ ~FinishReason
           \/ \E k \in Chunks : ReadChunk(k)
           \/ FinishReason
           \/ \E item : ScannerDoes(item) /\ (item = "deliver" => DeliverContent)
<1>0. ASSUME NEW more, Then("main", more) PROVE todo'["scanner"] = todo["scanner"]
  BY <1>0 DEF Then, Lists
<1>1. CASE UNCHANGED vars
  BY <1>1 DEF vars
<1>2. CASE MainStep
  <2>1. CASE BeginEnding
    BY <2>1 DEF BeginEnding, Schedule, Lists
  <2>2. CASE Connect \/ FirstData \/ Stalled \/ CheckFails \/ Select \/ TimeOut \/ ReturnFromHandler
    BY <2>2 DEF Connect, FirstData, Stalled, CheckFails, Select, TimeOut, ReturnFromHandler
  <2>3. CASE \/ StopHeartbeat \/ AwaitHeartbeat \/ Judge \/ CloseBlock \/ SendError
             \/ DefaultReason \/ LastDelta \/ FinalDelta \/ MessageStop \/ Shared("main")
    <3>1. \E more : Then("main", more)
      BY <2>3 DEF StopHeartbeat, AwaitHeartbeat, Judge, CloseBlock, SendError, DefaultReason,
         LastDelta, FinalDelta, MessageStop, Shared, EmitEmptyToolArgs, StopBlock, MarkFinished,
         Done
    <3>. QED BY <1>0, <3>1
  <2>. QED BY <1>2, <2>1, <2>2, <2>3 DEF MainStep
<1>3. CASE ReadMalformed \/ Panic \/ ScannerFinish \/ CloseDone
             \/ \E reason \in {"none", "error", "disconnected"} : ReadLast(reason)
  BY <1>3 DEF ReadMalformed, Panic, ScannerFinish, CloseDone, ReadLast
<1>4. CASE Ping \/ HeartbeatExits \/ ClientGoes \/ ContextDone
  BY <1>4 DEF Ping, HeartbeatExits, ClientGoes, ContextDone
<1>. QED BY <1>1, <1>2, <1>3, <1>4, ScannerSteps DEF Streaming, Next, ScannerStep

\* What doing an item of either goroutine leaves of its list.
LEMMA RestOfList ==
    ASSUME Lists, NEW g \in {"scanner", "main"}, NEW item, Doing(g, item), Done(g),
           NEW steps, NEW last, Chained(todo[g], steps, last)
    PROVE  /\ Chained(todo'[g], steps, last)
           /\ todo'[g] = <<>> => item = last
           /\ todo'[g] # <<>> => <<item, Head(todo'[g])>> \in steps
<1>1. todo[g] \in Seq(Items) /\ todo[g] # <<>> /\ Head(todo[g]) = item
      /\ todo'[g] = <<>> \o Tail(todo[g])
  BY DEF Lists, Doing, Done, Then
<1>. QED BY <1>1, ChainRest

LEMMA HeadItem ==
    ASSUME Lists, NEW g \in {"scanner", "main"}, NEW item, Doing(g, item)
    PROVE  /\ 1 \in DOMAIN todo[g] /\ todo[g][1] = item /\ todo[g] # <<>>
           /\ Head(todo[g]) = item
<1>1. todo[g] \in Seq(Items) /\ todo[g] # <<>> /\ Head(todo[g]) = item
  BY DEF Lists, Doing
<1>. QED BY <1>1

LEMMA OneItem ==
    ASSUME NEW s \in Seq(Items), s # <<>>, NEW t, t = <<>> \o Tail(s), t = <<>>
    PROVE  Tail(s) = <<>>
<1>1. Tail(s) \in Seq(Items)
  OBVIOUS
<1>. DEFINE u == Tail(s)
<1>2. u \in Seq(Items) /\ t = <<>> \o u
  BY <1>1
<1>. HIDE DEF u
<1>3. <<>> \o u = u
  BY <1>2
<1>. QED BY <1>2, <1>3 DEF u

LEMMA FinishesAChunk ==
    ASSUME Lists, ScannersList, FinishReason
    PROVE  /\ scanner = "running" /\ stopReason = "none" /\ input.chunk.finish # "none"
           /\ todo["scanner"] # <<>> /\ Head(todo["scanner"]) = "finish"
           /\ stopReason' # "none"
           /\ todo'["scanner"] = IF CloseIfOpen
                THEN <<"emptyArgs", "markFinished", "stopBlock", "messageDelta", "markDelta">>
                ELSE <<"messageDelta", "markDelta">>
<1>1. Doing("scanner", "finish") /\ stopReason' # "none"
  BY DEF FinishReason, TranslateFinishReason
<1>2. todo["scanner"] \in Seq(Items) /\ todo["scanner"] # <<>> /\ Head(todo["scanner"]) = "finish"
  BY <1>1 DEF Lists, Doing
<1>3. scanner = "running"
  BY <1>2 DEF ScannersList
<1>. DEFINE s == todo["scanner"]
            t == <<>> \o Tail(s)
<1>4. s \in Seq(Items) /\ s # <<>> /\ Head(s) = "finish" /\ t = <<>> \o Tail(s)
  BY <1>2
<1>5. \A steps, last : Chained(s, steps, last)
        => (t = <<>> => "finish" = last) /\ (t # <<>> => <<"finish", Head(t)>> \in steps)
  <2>. HIDE DEF s, t
  <2>. SUFFICES ASSUME NEW steps, NEW last, Chained(s, steps, last)
                PROVE  (t = <<>> => "finish" = last) /\ (t # <<>> => <<"finish", Head(t)>> \in steps)
    OBVIOUS
  <2>1. (t = <<>> => Head(s) = last) /\ (t # <<>> => <<Head(s), Head(t)>> \in steps)
    BY <1>4, ChainRest
  <2>. QED BY <1>4, <2>1
<1>6. stopReason = "none" /\ t = <<>> /\ input.chunk.finish # "none"
  <2>1. CASE stopReason # "none"
    <3>1. Chained(s, FinishingSteps, "markDelta")
      BY <1>3, <2>1 DEF ScannersList
    <3>2. \A x : <<"finish", x>> \notin FinishingSteps
      BY DEF FinishingSteps
    <3>. QED BY <1>5, <3>1, <3>2
  <2>2. CASE stopReason = "none"
    <3>. DEFINE last == IF input.chunk.finish = "none" THEN "deliver" ELSE "finish"
    <3>1. Chained(s, ReadingSteps, last)
      BY <1>3, <2>2 DEF ScannersList
    <3>2. \A x : <<"finish", x>> \notin ReadingSteps
      BY DEF ReadingSteps
    <3>3. t = <<>> /\ "finish" = last
      BY <1>5, <3>1, <3>2
    <3>. QED BY <2>2, <3>3
  <2>. QED BY <2>1, <2>2
<1>7. Tail(s) = <<>>
  <2>. HIDE DEF s, t
  <2>. QED BY <1>4, <1>6, OneItem
<1>. DEFINE long == <<"emptyArgs", "markFinished", "stopBlock", "messageDelta", "markDelta">>
            short == <<"messageDelta", "markDelta">>
<1>8. todo'["scanner"] = (IF CloseIfOpen THEN long ELSE short) \o Tail(s)
  BY DEF FinishReason, Then, Lists
<1>9. long \o <<>> = long /\ short \o <<>> = short
  OBVIOUS
<1>10. todo'["scanner"] = IF CloseIfOpen THEN long ELSE short
  <2>. HIDE DEF s, long, short
  <2>. QED BY <1>7, <1>8, <1>9
<1>. QED BY <1>1, <1>2, <1>3, <1>6, <1>10

LEMMA FinishChain ==
    /\ Chained(<<"emptyArgs", "markFinished", "stopBlock", "messageDelta", "markDelta">>,
               FinishingSteps, "markDelta")
    /\ Chained(<<"messageDelta", "markDelta">>, FinishingSteps, "markDelta")
    /\ <<"emptyArgs", "markFinished", "stopBlock", "messageDelta", "markDelta">> # <<>>
    /\ Head(<<"emptyArgs", "markFinished", "stopBlock", "messageDelta", "markDelta">>) = "emptyArgs"
    /\ <<"messageDelta", "markDelta">> # <<>> /\ Head(<<"messageDelta", "markDelta">>) = "messageDelta"
BY DEF Chained, FinishingSteps

\* While the scanner reads, the reason of the finish is not known yet.
LEMMA ReadsUnfinished ==
    ASSUME ScannersList, Reading
    PROVE  stopReason = "none" /\ todo["scanner"] = <<>> /\ scanner = "running"
BY DEF ScannersList, Reading

LEMMA ScannersListStep ==
    ASSUME Lists, InputTypes, BlockTypesHold, ScannersList, Phases, Streaming
    PROVE  ScannersList'
<1>1. CASE \E k \in Chunks : ReadChunk(k)
  <2>1. PICK k \in Chunks : ReadChunk(k)
    BY <1>1
  <2>2. /\ todo'["scanner"] = Plan(k) /\ scanner' = "running" /\ stopReason' = "none"
        /\ input'.chunk = k
    <3>1. input'.chunk = k
      BY <2>1, ReadFacts DEF BlockTypesHold
    <3>. QED BY <2>1, <3>1, ReadsUnfinished DEF ReadChunk, Read, Schedule, Reading, Lists
  <2>. QED BY <2>2, PlanChain DEF ScannersList
<1>2. CASE FinishReason
  <2>1. scanner' = scanner /\ input' = input
    BY <1>2 DEF FinishReason, upstream
  <2>. QED BY <1>2, <2>1, FinishesAChunk, FinishChain DEF ScannersList
<1>3. ASSUME NEW item, ScannerDoes(item) PROVE ScannersList'
  <2>1. Doing("scanner", item) /\ Done("scanner") /\ UNCHANGED <<scanner, input, stopReason>>
    BY <1>3 DEF ScannerDoes
  <2>2. scanner = "running"
    BY <2>1 DEF ScannersList, Doing
  <2>3. ASSUME NEW steps, NEW last, Chained(todo["scanner"], steps, last)
        PROVE  Chained(todo'["scanner"], steps, last)
    BY <2>1, <2>3, RestOfList
  <2>. QED BY <2>1, <2>2, <2>3 DEF ScannersList
<1>4. CASE todo'["scanner"] = todo["scanner"] /\ ~FinishReason
           /\ ~ \E k \in Chunks : ReadChunk(k)
  <2>1. input'.chunk = input.chunk
    <3>1. CASE ReadMalformed
      BY <3>1 DEF ReadMalformed, InputTypes, Inputs
    <3>. QED BY <1>4, <3>1, InputChanges
  <2>2. CASE DefaultReason
    <3>1. outcome = "done" /\ scanner' = scanner
      BY <2>2, HeadItem DEF DefaultReason, Phases, upstream
    <3>. QED BY <1>4, <3>1 DEF Phases, ScannersList
  <2>3. CASE stopReason' = stopReason
    <3>1. CASE scanner' = scanner
      BY <1>4, <2>1, <2>3, <3>1 DEF ScannersList
    <3>2. CASE FirstData
      <4>1. scanner = "off" /\ scanner' = "running"
        BY <3>2 DEF FirstData, Phases
      <4>. QED BY <1>4, <2>3, <4>1, NoItems DEF ScannersList
    <3>3. CASE /\ Reading \/ ScannerFinish \/ scanner = "returning"
               /\ scanner' \in {"running", "returning", "exited"}
               /\ scanner' = "running" => scanner = "running"
      <4>1. todo["scanner"] = <<>>
        BY <3>3 DEF Reading, ScannerFinish, ScannersList
      <4>. QED BY <1>4, <2>1, <2>3, <3>3, <4>1 DEF ScannersList
    <3>. QED BY <3>1, <3>2, <3>3, ScannerChanges
  <2>. QED BY <1>4, <2>2, <2>3, ReasonChanges
<1>. QED BY <1>1, <1>2, <1>3, <1>4, ScannersListChanges

-------------------------------------------------------------------------------
(* The block the scanner is about to open                                      *)

\* Doing an item of a list the scanner reads with leads to the items that may
\* follow it.
LEMMA NextItem ==
    ASSUME Lists, ScannersList, NEW item, Doing("scanner", item), Done("scanner"),
           stopReason' = stopReason
    PROVE  /\ scanner = "running"
           /\ stopReason = "none" /\ todo'["scanner"] # <<>>
                => <<item, Head(todo'["scanner"])>> \in ReadingSteps
           /\ stopReason # "none" /\ todo'["scanner"] # <<>>
                => <<item, Head(todo'["scanner"])>> \in FinishingSteps
           /\ stopReason = "none" /\ todo'["scanner"] = <<>>
                => item = IF input.chunk.finish = "none" THEN "deliver" ELSE "finish"
           /\ stopReason # "none" /\ todo'["scanner"] = <<>> => item = "markDelta"
<1>1. scanner = "running"
  BY DEF ScannersList, Doing
<1>2. ASSUME NEW steps, NEW last, Chained(todo["scanner"], steps, last)
      PROVE  /\ todo'["scanner"] = <<>> => item = last
             /\ todo'["scanner"] # <<>> => <<item, Head(todo'["scanner"])>> \in steps
  BY <1>2, RestOfList
<1>3. CASE stopReason = "none"
  <2>. DEFINE last == IF input.chunk.finish = "none" THEN "deliver" ELSE "finish"
  <2>1. Chained(todo["scanner"], ReadingSteps, last)
    BY <1>1, <1>3 DEF ScannersList
  <2>2. /\ todo'["scanner"] = <<>> => item = last
        /\ todo'["scanner"] # <<>> => <<item, Head(todo'["scanner"])>> \in ReadingSteps
    <3>. HIDE DEF last
    <3>. QED BY <1>2, <2>1
  <2>. QED BY <1>1, <1>3, <2>2
<1>4. CASE stopReason # "none"
  <2>1. Chained(todo["scanner"], FinishingSteps, "markDelta")
    BY <1>1, <1>4 DEF ScannersList
  <2>2. /\ todo'["scanner"] = <<>> => item = "markDelta"
        /\ todo'["scanner"] # <<>> => <<item, Head(todo'["scanner"])>> \in FinishingSteps
    BY <1>2, <2>1
  <2>. QED BY <1>1, <1>4, <2>2
<1>. QED BY <1>3, <1>4

LEMMA OpeningKept ==
    ASSUME Lists, ScannersList, Streaming, ~ \E k \in Chunks : ReadChunk(k), Opening'
    PROVE  Opening /\ ~Open
<1>1. stopReason' = "none" /\ stopReason = "none" /\ ~FinishReason
  BY ReasonChanges DEF Opening, FinishReason, DefaultReason, TranslateFinishReason
<1>2. ASSUME NEW item, Doing("scanner", item), Done("scanner")
      PROVE  item \in {"emptyArgs", "stopBlock"} /\ Opening
  <2>1. <<item, Head(todo'["scanner"])>> \in ReadingSteps
    BY <1>1, <1>2, NextItem DEF Opening
  <2>2. item \in {"emptyArgs", "stopBlock"}
    BY <2>1 DEF ReadingSteps, Opening
  <2>. QED BY <1>1, <1>2, <2>2 DEF Opening, Doing
<1>3. ~Open
  <2>1. ~(Doing("scanner", "openFirst") /\ Done("scanner"))
    BY <1>2
  <2>2. ~(Doing("scanner", "openNext") /\ Done("scanner"))
    BY <1>2
  <2>. QED BY <2>1, <2>2 DEF Open
<1>4. CASE todo'["scanner"] = todo["scanner"]
  BY <1>1, <1>3, <1>4 DEF Opening
<1>5. CASE \E item : ScannerDoes(item)
  BY <1>2, <1>3, <1>5 DEF ScannerDoes
<1>. QED BY <1>1, <1>4, <1>5, ScannersListChanges

LEMMA InputKept ==
    ASSUME InputTypes, Streaming, ~ \E k \in Chunks : ReadChunk(k)
    PROVE  /\ input'.next = input.next /\ input'.chunk = input.chunk
           /\ input.lines \in Nat /\ input'.lines \in Nat /\ input.lines <= input'.lines
<1>1. CASE ReadMalformed
  BY <1>1 DEF ReadMalformed, InputTypes, Inputs
<1>2. CASE input' = input
  BY <1>2 DEF InputTypes, Inputs
<1>. QED BY <1>1, <1>2, InputChanges

\* The item that opens a block, the block's number and whether it is noted as
\* started at once.
LEMMA OpenFacts ==
    ASSUME Lists, ScannersList, InputTypes, BlockTypesHold, Open
    PROVE  \E n \in 0 .. MaxChunks, s \in BOOLEAN :
             /\ OpenBlock(n, s) /\ n <= input.lines
             /\ \/ Doing("scanner", "openFirst") /\ n = block.index /\ s = FALSE
                \/ Doing("scanner", "openNext") /\ n = block.index + 1 /\ s = TRUE
             /\ Done("scanner") /\ stopReason' = stopReason /\ stopReason = "none"
             /\ input' = input /\ Len(input.next) = 1
             /\ block.index \in Nat /\ input.lines \in Nat /\ input.lines <= MaxChunks
             /\ input.next[1] \in Wanted /\ OfCall(input.next[1])
<1>1. PICK item \in {"openFirst", "openNext"} :
        /\ Doing("scanner", item)
        /\ item = "openFirst" => OpenBlock(block.index, FALSE)
        /\ item = "openNext" => OpenBlock(block.index + 1, TRUE)
  BY DEF Open
<1>2. Done("scanner") /\ stopReason' = stopReason /\ input' = input
  BY DEF Open, upstream
<1>3. stopReason = "none"
  <2>1. CASE stopReason # "none"
    <3>1. \A x : <<"openFirst", x>> \notin FinishingSteps /\ <<"openNext", x>> \notin FinishingSteps
      BY DEF FinishingSteps
    <3>. QED BY <1>1, <1>2, <2>1, <3>1, NextItem
  <2>. QED BY <2>1
<1>4. Opening
  BY <1>1, <1>3, HeadItem DEF Opening
<1>5. /\ input.next # <<>> /\ block.index < input.lines
      /\ block.index \in Nat /\ input.lines \in Nat /\ input.lines <= MaxChunks
  BY <1>4 DEF BlockTypesHold, InputTypes, Inputs, Blocks
<1>6. Len(input.next) = 1 /\ input.next[1] \in Wanted /\ OfCall(input.next[1])
  <2>1. input.next \in Seq(Wanted) /\ Len(input.next) \in 0 .. 1
    BY DEF InputTypes, Inputs
  <2>. QED BY <1>5, <2>1 DEF InputTypes
<1>7. CASE item = "openFirst"
  <2>1. block.index \in 0 .. MaxChunks /\ block.index <= input.lines
    BY <1>5, Bounds
  <2>. QED BY <1>1, <1>2, <1>3, <1>5, <1>6, <1>7, <2>1
<1>8. CASE item = "openNext"
  <2>1. block.index + 1 \in 0 .. MaxChunks /\ block.index + 1 <= input.lines
    BY <1>5, Bounds
  <2>. QED BY <1>1, <1>2, <1>3, <1>5, <1>6, <1>8, <2>1
<1>. QED BY <1>1, <1>7, <1>8

LEMMA OpenBlockFacts ==
    ASSUME block \in Blocks, Len(input.next) = 1, input.next[1] \in Wanted,
           NEW n \in 0 .. MaxChunks, NEW s \in BOOLEAN, OpenBlock(n, s)
    PROVE  /\ block' \in Blocks /\ block'.index = n /\ block'.type = input.next[1].type
           /\ block'.owner = input.next[1].owner /\ block'.started = s
           /\ block'.finished = block.finished /\ block'.id \in Ids
<1>. DEFINE w == input.next[1]
            i == IF w.type = "tool_use" /\ w.id = NoId THEN Gen(n) ELSE w.id
<1>1. i \in Ids /\ n \in Nat
  BY Bounds DEF Ids, Wanted
<1>2. block' = [block EXCEPT !.type = w.type, !.index = n, !.id = i, !.owner = w.owner,
                             !.started = s]
  BY DEF OpenBlock
<1>3. w \in Wanted
  OBVIOUS
<1>. HIDE DEF w, i
<1>4. PICK b \in Blocks : b = block
  OBVIOUS
<1>5. PICK c : c = block' /\ c = [b EXCEPT !.type = w.type, !.index = n, !.id = i,
                                          !.owner = w.owner, !.started = s]
  BY <1>2, <1>4
<1>6. /\ c \in Blocks /\ c.index = n /\ c.type = w.type /\ c.owner = w.owner
      /\ c.started = s /\ c.finished = b.finished /\ c.id = i
  BY <1>1, <1>3, <1>5 DEF Blocks, Wanted
<1>. QED BY <1>1, <1>4, <1>5, <1>6 DEF w

LEMMA BlockFlags ==
    ASSUME block \in Blocks, MarkStarted \/ \E g \in {"scanner", "main"} : MarkFinished(g)
    PROVE  /\ block' \in Blocks /\ block'.index = block.index /\ block'.type = block.type
           /\ block'.owner = block.owner /\ block'.id = block.id
<1>1. \/ block' = [block EXCEPT !.started = TRUE]
      \/ block' = [block EXCEPT !.finished = TRUE]
  BY DEF MarkStarted, MarkFinished
<1>. QED BY <1>1 DEF Blocks

LEMMA BlockStep ==
    ASSUME Lists, InputTypes, BlockTypesHold, ScannersList, Streaming
    PROVE  BlockTypesHold'
<1>0. block \in Blocks /\ OfCall(block) /\ block.index \in Nat /\ block.index <= input.lines
  BY DEF BlockTypesHold, Blocks
<1>1. CASE \E k \in Chunks : ReadChunk(k)
  <2>1. PICK k \in Chunks : ReadChunk(k)
    BY <1>1
  <2>2. block' = block /\ todo'["scanner"] = Plan(k)
    BY <2>1 DEF ReadChunk, Read, Schedule, Lists
  <2>3. input'.next = NextBlock(k) /\ input'.lines = input.lines + 1 /\ input.lines \in Nat
    BY <1>0, <2>1, ReadFacts
  <2>4. Opening' => NextBlock(k) # <<>>
    <3>1. PICK p : p = Plan(k)
      OBVIOUS
    <3>2. p # <<>> => NextBlock(k) # <<>> \/ Head(p) \in {"deliver", "finish"}
      BY <3>1, PlanChain
    <3>. QED BY <2>2, <3>1, <3>2 DEF Opening
  <2>. QED BY <1>0, <2>2, <2>3, <2>4 DEF BlockTypesHold, OfCall
<1>2. CASE Open
  <2>1. PICK n \in 0 .. MaxChunks, s \in BOOLEAN :
          /\ OpenBlock(n, s) /\ n <= input.lines /\ input' = input
          /\ Len(input.next) = 1 /\ input.next[1] \in Wanted /\ OfCall(input.next[1])
    BY <1>2, OpenFacts
  <2>2. /\ block' \in Blocks /\ block'.index = n /\ block'.type = input.next[1].type
        /\ block'.owner = input.next[1].owner
    BY <1>0, <2>1, OpenBlockFacts
  <2>3. ~ \E k \in Chunks : ReadChunk(k)
    BY <1>2 DEF Open, Doing, ReadChunk, Reading
  <2>4. ~Opening'
    BY <1>2, <2>3, OpeningKept
  <2>. QED BY <2>1, <2>2, <2>4 DEF BlockTypesHold, OfCall
<1>3. CASE ~Open /\ ~ \E k \in Chunks : ReadChunk(k)
  <2>1. Opening' => Opening
    BY <1>3, OpeningKept
  <2>2. /\ input'.next = input.next
        /\ input.lines \in Nat /\ input'.lines \in Nat /\ input.lines <= input'.lines
    BY <1>3, InputKept
  <2>3. /\ block' \in Blocks /\ block'.index = block.index /\ block'.type = block.type
        /\ block'.owner = block.owner
    BY <1>0, <1>3, BlockChanges, BlockFlags
  <2>. QED BY <1>0, <2>1, <2>2, <2>3 DEF BlockTypesHold, OfCall
<1>. QED BY <1>1, <1>2, <1>3

-------------------------------------------------------------------------------
(* The tool calls                                                              *)

LEMMA Appended ==
    ASSUME NEW b \in Seq({"args", "noArgs"}), NEW n \in Nat
    PROVE  /\ b \o [m \in 1 .. n |-> "args"] \in Seq({"args", "noArgs"})
           /\ Len(b \o [m \in 1 .. n |-> "args"]) >= Len(b)
<1>. DEFINE s == [m \in 1 .. n |-> "args"]
<1>1. s \in Seq({"args", "noArgs"})
  OBVIOUS
<1>. HIDE DEF s
<1>2. b \o s \in Seq({"args", "noArgs"}) /\ Len(b \o s) >= Len(b)
  BY <1>1
<1>. QED BY <1>2 DEF s

LEMMA FragmentsFinite ==
    ASSUME NEW calls \in Seq(CallDeltas), NEW i
    PROVE  Cardinality(Fragments(calls, i)) \in Nat
<1>1. DOMAIN calls = 1 .. Len(calls) /\ Len(calls) \in Nat
  OBVIOUS
<1>2. IsFiniteSet(1 .. Len(calls))
  BY <1>1, FS_Interval
<1>3. Fragments(calls, i) \subseteq 1 .. Len(calls)
  BY <1>1 DEF Fragments
<1>. QED BY <1>2, <1>3, FS_Subset, FS_CardinalityType

LEMMA ToolsAccumulated ==
    ASSUME ToolTypes, NEW k \in Chunks, tools' = Accumulated(k.calls)
    PROVE  ToolTypes'
<1>1. k.calls \in Seq(CallDeltas)
  BY CallDeltasTyped
<1>. SUFFICES ASSUME NEW i \in Calls
              PROVE  tools'[i] \in ToolCalls /\ tools'[i].emitted <= Len(tools'[i].buffer)
  <2>1. tools' = [i \in Calls |-> Accumulated(k.calls)[i]]
    BY DEF Accumulated
  <2>. DEFINE a(i) == Accumulated(k.calls)[i]
  <2>. HIDE DEF a
  <2>2. tools' = [i \in Calls |-> a(i)]
    BY <2>1 DEF a
  <2>. QED BY <2>2 DEF ToolTypes
<1>. DEFINE f == InOrder(Fragments(k.calls, i))
            b == tools[i].buffer \o f
            kn == tools[i].known \/ \E n \in DOMAIN k.calls : k.calls[n].index = i /\ TRUE
            d == IF \E n \in DOMAIN k.calls : k.calls[n].index = i /\ k.calls[n].id
                 THEN Own(i) ELSE tools[i].id
            nm == tools[i].named \/ \E n \in DOMAIN k.calls : k.calls[n].index = i /\ k.calls[n].name
<1>2. tools'[i] = [known |-> kn, id |-> d, named |-> nm, buffer |-> b,
                   emitted |-> tools[i].emitted]
  BY DEF Accumulated
<1>3. tools[i] \in ToolCalls /\ tools[i].emitted <= Len(tools[i].buffer)
      /\ tools[i].buffer \in Seq({"args", "noArgs"}) /\ tools[i].emitted \in Nat
  BY DEF ToolTypes, ToolCalls
<1>4. b \in Seq({"args", "noArgs"}) /\ Len(b) >= Len(tools[i].buffer)
  BY <1>1, <1>3, FragmentsFinite, Appended DEF InOrder
<1>5. d \in Ids
  BY <1>3 DEF Ids, ToolCalls
<1>6. kn \in BOOLEAN /\ nm \in BOOLEAN
  OBVIOUS
<1>. HIDE DEF f, b, kn, d, nm
<1>7. tools'[i].emitted = tools[i].emitted /\ tools'[i].buffer = b
  BY <1>2
<1>8. tools'[i] \in ToolCalls
  BY <1>2, <1>3, <1>4, <1>5, <1>6 DEF ToolCalls
<1>9. tools[i].emitted <= Len(b)
  <2>1. Len(b) \in Nat /\ Len(tools[i].buffer) \in Nat
    BY <1>3, <1>4
  <2>. QED BY <1>3, <1>4, <2>1
<1>. QED BY <1>7, <1>8, <1>9

LEMMA ToolStep ==
    ASSUME Lists, InputTypes, BlockTypesHold, ScannersList, ToolTypes, Streaming
    PROVE  ToolTypes'
<1>1. CASE UNCHANGED tools
  BY <1>1 DEF ToolTypes
<1>2. ASSUME NEW k \in Chunks, ReadChunk(k) PROVE ToolTypes'
  BY <1>2, ToolsAccumulated DEF ReadChunk
<1>3. CASE Open
  <2>1. PICK n \in 0 .. MaxChunks, s \in BOOLEAN :
          /\ OpenBlock(n, s) /\ Len(input.next) = 1 /\ input.next[1] \in Wanted
          /\ OfCall(input.next[1])
    BY <1>3, OpenFacts
  <2>. DEFINE w == input.next[1]
              i == IF w.type = "tool_use" /\ w.id = NoId THEN Gen(n) ELSE w.id
  <2>2. i \in Ids /\ w.type = "tool_use" => i \in Ids /\ w.owner \in Calls
    BY <2>1 DEF Ids, Wanted, OfCall
  <2>3. i \in Ids
    BY <2>1 DEF Ids, Wanted
  <2>4. tools' = IF w.type = "tool_use" /\ tools[w.owner].id = NoId
                 THEN [tools EXCEPT ![w.owner] = [tools[w.owner] EXCEPT !.id = i]] ELSE tools
    BY <2>1 DEF OpenBlock
  <2>. HIDE DEF w, i
  <2>5. CASE w.type = "tool_use"
    <3>1. PICK q : q = tools[w.owner]
      OBVIOUS
    <3>2. PICK t : t = [q EXCEPT !.id = i]
      OBVIOUS
    <3>3. q \in ToolCalls /\ q.emitted <= Len(q.buffer)
      BY <2>2, <2>3, <2>5, <3>1 DEF ToolTypes
    <3>4. t \in ToolCalls /\ t.emitted = q.emitted /\ t.buffer = q.buffer
      BY <2>3, <3>2, <3>3 DEF ToolCalls
    <3>5. tools' = IF tools[w.owner].id = NoId THEN [tools EXCEPT ![w.owner] = t] ELSE tools
      BY <2>4, <2>5, <3>1, <3>2
    <3>. QED BY <2>2, <2>3, <2>5, <3>3, <3>4, <3>5 DEF ToolTypes
  <2>. QED BY <2>4, <2>5 DEF ToolTypes
<1>4. CASE FlushToolCallArgs
  <2>. DEFINE o == block.owner
              l == Len(tools[o].buffer)
  <2>1. o \in Calls
    BY <1>4 DEF FlushToolCallArgs, BlockTypesHold, OfCall
  <2>2. tools' = [tools EXCEPT ![o] = [tools[o] EXCEPT !.emitted = l]]
    BY <1>4 DEF FlushToolCallArgs
  <2>3. tools[o] \in ToolCalls /\ l \in Nat
    BY <2>1 DEF ToolTypes, ToolCalls
  <2>4. PICK q \in ToolCalls : q = tools[o]
    BY <2>3
  <2>. HIDE DEF o, l
  <2>5. PICK t : t = [q EXCEPT !.emitted = l]
    OBVIOUS
  <2>6. t \in ToolCalls /\ t.emitted = l /\ t.buffer = q.buffer
    BY <2>3, <2>4, <2>5 DEF ToolCalls
  <2>7. tools' = [tools EXCEPT ![o] = t]
    BY <2>2, <2>4, <2>5
  <2>8. t.emitted <= Len(t.buffer)
    BY <2>3, <2>4, <2>6 DEF l
  <2>. QED BY <2>1, <2>6, <2>7, <2>8 DEF ToolTypes
<1>5. CASE DeliverContent
  BY <1>1, <1>4, <1>5 DEF DeliverContent, DeliverText, DeliverThinking
<1>6. ASSUME NEW g, EmitEmptyToolArgs(g) PROVE ToolTypes'
  <2>. DEFINE own == {i \in Calls : tools[i].known /\ tools[i].id = block.id}
  <2>1. CASE tools' = tools
    BY <1>1, <2>1
  <2>2. CASE /\ \A i \in own : tools[i].buffer = <<>>
             /\ tools' = [i \in Calls |-> IF i \in own THEN [tools[i] EXCEPT !.buffer = <<"noArgs">>]
                                          ELSE tools[i]]
    <3>. SUFFICES ASSUME NEW i \in Calls
                  PROVE  tools'[i] \in ToolCalls /\ tools'[i].emitted <= Len(tools'[i].buffer)
      <4>. HIDE DEF own
      <4>. QED BY <2>2 DEF ToolTypes
    <3>1. tools[i] \in ToolCalls /\ tools[i].emitted <= Len(tools[i].buffer)
          /\ tools[i].emitted \in Nat
      BY DEF ToolTypes, ToolCalls
    <3>2. tools'[i] = IF i \in own THEN [tools[i] EXCEPT !.buffer = <<"noArgs">>] ELSE tools[i]
      BY <2>2
    <3>3. CASE i \in own
      <4>1. tools[i].emitted <= 0
        BY <2>2, <3>1, <3>3
      <4>2. <<"noArgs">> \in Seq({"args", "noArgs"}) /\ Len(<<"noArgs">>) = 1
        OBVIOUS
      <4>3. tools'[i] \in ToolCalls /\ tools'[i].emitted = tools[i].emitted
            /\ tools'[i].buffer = <<"noArgs">>
        BY <3>1, <3>2, <3>3, <4>2 DEF ToolCalls
      <4>. QED BY <3>1, <4>1, <4>2, <4>3
    <3>4. CASE i \notin own
      BY <3>1, <3>2, <3>4
    <3>. QED BY <3>3, <3>4
  <2>. QED BY <1>6, <2>1, <2>2 DEF EmitEmptyToolArgs
<1>. QED BY <1>1, <1>2, <1>3, <1>5, <1>6, ToolsChange

-------------------------------------------------------------------------------
(* The list of main                                                            *)

DoneTail  == <<"judge", "closeBlock", "defaultReason", "lastDelta", "messageStop">>
AbortTail == <<"closeBlock", "error", "finalDelta", "messageStop">>

Judging == {"judge", "defaultReason", "lastDelta"}
Closing == {"emptyArgs", "stopBlock", "markFinished"}

\* An item that writes message_stop comes after the heartbeat is gone.
StopAwaits(s) ==
    \A n \in DOMAIN s : s[n] = "messageStop" => \E m \in 1 .. n - 1 : s[m] = "awaitHeartbeat"

LEMMA Joined ==
    ASSUME NEW h \in Seq(Items), NEW t \in Seq(Items), NEW s, s = h \o t
    PROVE  /\ s \in Seq(Items) /\ Len(s) = Len(h) + Len(t)
           /\ Len(h) \in Nat /\ Len(t) \in Nat
           /\ DOMAIN t = 1 .. Len(t) /\ DOMAIN s = 1 .. Len(s)
           /\ \A n \in 1 .. Len(h) : s[n] = h[n]
           /\ \A n \in 1 .. Len(t) : s[Len(h) + n] = t[n]
BY CatFacts

LEMMA AfterHeartbeat ==
    ASSUME NEW h \in Seq(Items), h = HeartbeatStop, NEW t \in Seq(Items), NEW s, s = h \o t
    PROVE  /\ s \in Seq(Items) /\ StopAwaits(s)
           /\ \A n \in DOMAIN s : s[n] \in Judging => \E m \in DOMAIN t : t[m] \in Judging
<1>1. Len(h) = 2 /\ h[1] = "stopHeartbeat" /\ h[2] = "awaitHeartbeat"
  BY DEF HeartbeatStop
<1>2. /\ s \in Seq(Items) /\ Len(s) = Len(h) + Len(t) /\ Len(t) \in Nat
      /\ DOMAIN t = 1 .. Len(t) /\ DOMAIN s = 1 .. Len(s)
      /\ \A n \in 1 .. Len(h) : s[n] = h[n]
      /\ \A n \in 1 .. Len(t) : s[Len(h) + n] = t[n]
  BY Joined
<1>3. /\ s \in Seq(Items) /\ Len(s) = 2 + Len(t) /\ Len(t) \in Nat
      /\ DOMAIN t = 1 .. Len(t) /\ DOMAIN s = 1 .. Len(s)
      /\ \A n \in 1 .. 2 : s[n] = h[n]
      /\ \A n \in 1 .. Len(t) : s[2 + n] = t[n]
  BY <1>1, <1>2
<1>4. s[1] = "stopHeartbeat" /\ s[2] = "awaitHeartbeat"
  BY <1>1, <1>3
<1>5. StopAwaits(s)
  <2>. SUFFICES ASSUME NEW n \in DOMAIN s, s[n] = "messageStop"
                PROVE  \E m \in 1 .. n - 1 : s[m] = "awaitHeartbeat"
    BY DEF StopAwaits
  <2>1. n \in Nat /\ n # 0 /\ n # 1 /\ n # 2
    BY <1>3, <1>4
  <2>2. 2 \in 1 .. n - 1
    BY <2>1
  <2>. QED BY <1>4, <2>2
<1>6. ASSUME NEW n \in DOMAIN s, s[n] \in Judging PROVE \E m \in DOMAIN t : t[m] \in Judging
  <2>1. n \in 1 .. 2 + Len(t) /\ n # 1 /\ n # 2
    BY <1>3, <1>4, <1>6 DEF Judging
  <2>2. n - 2 \in 1 .. Len(t) /\ n = 2 + (n - 2)
    BY <1>3, <2>1
  <2>3. s[n] = t[n - 2]
    BY <1>3, <2>2
  <2>. QED BY <1>3, <1>6, <2>2, <2>3
<1>. QED BY <1>3, <1>5, <1>6

LEMMA TailsKnown ==
    /\ DoneTail \in Seq(Items) /\ AbortTail \in Seq(Items)
    /\ DoneTail # <<>> /\ AbortTail # <<>>
    /\ Head(DoneTail) = "judge" /\ Head(AbortTail) = "closeBlock"
    /\ Chained(DoneTail, DoneSteps, "messageStop")
    /\ Chained(AbortTail, AbortSteps, "messageStop")
    /\ \A n \in DOMAIN AbortTail : AbortTail[n] \notin Judging
<1>1. DoneTail \in Seq(Items) /\ AbortTail \in Seq(Items)
  BY DEF DoneTail, AbortTail, Items
<1>2. Chained(DoneTail, DoneSteps, "messageStop")
  BY DEF DoneTail, Chained, DoneSteps
<1>3. Chained(AbortTail, AbortSteps, "messageStop")
  BY DEF AbortTail, Chained, AbortSteps
<1>4. /\ DoneTail # <<>> /\ AbortTail # <<>>
      /\ Head(DoneTail) = "judge" /\ Head(AbortTail) = "closeBlock"
      /\ \A n \in DOMAIN AbortTail : AbortTail[n] \notin Judging
  BY DEF DoneTail, AbortTail, Judging
<1>. QED BY <1>1, <1>2, <1>3, <1>4

LEMMA EndingHeartbeat ==
    /\ HeartbeatStop \in Seq(Items) /\ HeartbeatStop # <<>>
    /\ Head(HeartbeatStop) = "stopHeartbeat"
    /\ Chained(HeartbeatStop, DoneSteps, "awaitHeartbeat")
    /\ Chained(HeartbeatStop, AbortSteps, "awaitHeartbeat")
    /\ <<"awaitHeartbeat", "judge">> \in DoneSteps
    /\ <<"awaitHeartbeat", "closeBlock">> \in AbortSteps
<1>1. HeartbeatStop \in Seq(Items) /\ HeartbeatStop # <<>> /\ Head(HeartbeatStop) = "stopHeartbeat"
  BY DEF HeartbeatStop, Items
<1>2. Chained(HeartbeatStop, DoneSteps, "awaitHeartbeat")
  BY DEF HeartbeatStop, DoneSteps, Chained
<1>3. Chained(HeartbeatStop, AbortSteps, "awaitHeartbeat")
  BY DEF HeartbeatStop, AbortSteps, Chained
<1>. QED BY <1>1, <1>2, <1>3 DEF DoneSteps, AbortSteps

\* How main ends, by the event its select received.
LEMMA EndingLists ==
    ASSUME NEW e \in Events
    PROVE  /\ Ending(e) \in Seq(Items) /\ StopAwaits(Ending(e))
           /\ \A n \in DOMAIN Ending(e) : Ending(e)[n] \in Judging => e = "done"
           /\ e \notin {"cancelled", "disconnected", "dropped"} =>
                /\ Chained(Ending(e), IF e = "done" THEN DoneSteps ELSE AbortSteps, "messageStop")
                /\ Ending(e) # <<>> /\ Head(Ending(e)) = "stopHeartbeat"
<1>1. CASE e = "done"
  <2>1. Ending(e) = HeartbeatStop \o DoneTail
    BY <1>1, Zenon DEF Ending, DoneTail
  <2>2. PICK s : s = HeartbeatStop \o DoneTail
    OBVIOUS
  <2>3. s \in Seq(Items) /\ StopAwaits(s)
    BY <2>2, TailsKnown, EndingHeartbeat, AfterHeartbeat
  <2>4. Chained(s, DoneSteps, "messageStop") /\ s # <<>> /\ Head(s) = "stopHeartbeat"
    BY <2>2, TailsKnown, EndingHeartbeat, ChainCat
  <2>. QED BY <1>1, <2>1, <2>2, <2>3, <2>4
<1>2. CASE e \in {"error", "timedOut", "failed"}
  <2>1. Ending(e) = HeartbeatStop \o AbortTail
    <3>1. Ending(e) = Abort
      BY <1>2 DEF Ending
    <3>. QED BY <3>1 DEF Abort, AbortTail
  <2>2. PICK s : s = HeartbeatStop \o AbortTail
    OBVIOUS
  <2>3. s \in Seq(Items) /\ StopAwaits(s) /\ \A n \in DOMAIN s : s[n] \notin Judging
    BY <2>2, TailsKnown, EndingHeartbeat, AfterHeartbeat
  <2>4. Chained(s, AbortSteps, "messageStop") /\ s # <<>> /\ Head(s) = "stopHeartbeat"
    BY <2>2, TailsKnown, EndingHeartbeat, ChainCat
  <2>. QED BY <1>2, <2>1, <2>2, <2>3, <2>4
<1>3. CASE e \in {"cancelled", "disconnected", "dropped"}
  <2>1. Ending(e) = HeartbeatStop \/ Ending(e) = <<"error">> \o HeartbeatStop
    BY <1>3 DEF Ending
  <2>2. Ending(e) \in Seq(Items)
    BY EndingFacts
  <2>3. \A n \in 1 .. Len(HeartbeatStop) : HeartbeatStop[n] \in {"stopHeartbeat", "awaitHeartbeat"}
    BY DEF HeartbeatStop
  <2>4. \A n \in DOMAIN Ending(e) : Ending(e)[n] \in {"error", "stopHeartbeat", "awaitHeartbeat"}
    <3>1. CASE Ending(e) = HeartbeatStop
      BY <2>3, <3>1, EndingHeartbeat
    <3>2. CASE Ending(e) = <<"error">> \o HeartbeatStop
      <4>. DEFINE o == <<"error">>
                  h == HeartbeatStop
      <4>1. o \in Seq(Items) /\ Len(o) = 1 /\ o[1] = "error" /\ h \in Seq(Items)
        BY EndingHeartbeat DEF Items
      <4>. HIDE DEF o, h
      <4>2. /\ Len(o \o h) = Len(o) + Len(h) /\ Len(h) \in Nat /\ DOMAIN (o \o h) = 1 .. Len(o \o h)
            /\ \A n \in 1 .. Len(o) : (o \o h)[n] = o[n]
            /\ \A n \in 1 .. Len(h) : (o \o h)[Len(o) + n] = h[n]
        BY <4>1, CatFacts
      <4>3. ASSUME NEW n \in DOMAIN (o \o h)
            PROVE  (o \o h)[n] \in {"error", "stopHeartbeat", "awaitHeartbeat"}
        <5>1. CASE n = 1
          BY <4>1, <4>2, <5>1
        <5>2. CASE n # 1
          <6>1. n - 1 \in 1 .. Len(h) /\ n = 1 + (n - 1)
            BY <4>1, <4>2, <5>2
          <6>2. (o \o h)[n] = h[n - 1]
            BY <4>1, <4>2, <6>1
          <6>. QED BY <2>3, <6>1, <6>2 DEF h
        <5>. QED BY <5>1, <5>2
      <4>. QED BY <3>2, <4>3 DEF o, h
    <3>. QED BY <2>1, <3>1, <3>2
  <2>. QED BY <1>3, <2>2, <2>4 DEF StopAwaits, Judging
<1>. QED BY <1>1, <1>2, <1>3 DEF Events

\* A step of main's list: the item done, and what is put in its place.
MainDoes(item, more) ==
    /\ Doing("main", item) /\ Then("main", more)
    /\ more \in Seq(Items) /\ \A n \in DOMAIN more : more[n] \in Closing
    /\ UNCHANGED <<fate, link>> /\ UNCHANGED <<scanner, input>>
    /\ item = "awaitHeartbeat" => heartbeat = "off"
    /\ heartbeat' = heartbeat \/ (heartbeat = "on" /\ heartbeat' = "stopping")

LEMMA MainSteps ==
    ASSUME StopHeartbeat \/ AwaitHeartbeat \/ Judge \/ CloseBlock \/ SendError
             \/ DefaultReason \/ LastDelta \/ FinalDelta \/ MessageStop \/ Shared("main")
    PROVE  \E item, more : MainDoes(item, more)
<1>0. <<>> \in Seq(Items) /\ \A n \in DOMAIN <<>> : <<>>[n] \in Closing
  OBVIOUS
<1>1. CASE StopHeartbeat \/ AwaitHeartbeat \/ DefaultReason
  <2>1. PICK item : Doing("main", item) /\ (item = "awaitHeartbeat" => heartbeat = "off")
    <3>1. CASE AwaitHeartbeat
      BY <3>1 DEF AwaitHeartbeat
    <3>2. CASE StopHeartbeat \/ DefaultReason
      <4>1. Doing("main", "stopHeartbeat") \/ Doing("main", "defaultReason")
        BY <3>2 DEF StopHeartbeat, DefaultReason
      <4>. QED BY <4>1
    <3>. QED BY <1>1, <3>1, <3>2
  <2>2. Then("main", <<>>) /\ UNCHANGED <<fate, link>> /\ UNCHANGED upstream
        /\ (heartbeat' = heartbeat \/ (heartbeat = "on" /\ heartbeat' = "stopping"))
    BY <1>1 DEF StopHeartbeat, AwaitHeartbeat, DefaultReason, Done, pinging
  <2>. QED BY <1>0, <2>1, <2>2 DEF MainDoes, upstream
<1>2. CASE Judge \/ SendError \/ LastDelta \/ FinalDelta \/ MessageStop
  <2>1. PICK item \in {"judge", "error", "lastDelta", "finalDelta", "messageStop"} :
           Doing("main", item)
    BY <1>2 DEF Judge, SendError, LastDelta, FinalDelta, MessageStop
  <2>2. Then("main", <<>>) /\ UNCHANGED <<fate, link>> /\ UNCHANGED <<upstream, pinging>>
    BY <1>2 DEF Judge, SendError, LastDelta, FinalDelta, MessageStop, Done
  <2>. QED BY <1>0, <2>1, <2>2 DEF MainDoes, upstream, pinging
<1>3. CASE CloseBlock
  <2>. DEFINE more == IF CloseIfOpen THEN <<"emptyArgs", "stopBlock", "markFinished">> ELSE <<>>
  <2>1. /\ Doing("main", "closeBlock") /\ Then("main", more)
        /\ UNCHANGED <<fate, link>> /\ UNCHANGED <<upstream, pinging>>
    BY <1>3, Zenon DEF CloseBlock
  <2>2. more \in Seq(Items) /\ \A n \in DOMAIN more : more[n] \in Closing
    <3>1. <<"emptyArgs", "stopBlock", "markFinished">> \in Seq(Items)
      BY DEF Items
    <3>2. \A n \in DOMAIN <<"emptyArgs", "stopBlock", "markFinished">> :
            <<"emptyArgs", "stopBlock", "markFinished">>[n] \in Closing
      BY DEF Closing
    <3>. QED BY <1>0, <3>1, <3>2
  <2>. HIDE DEF more
  <2>. QED BY <2>1, <2>2 DEF MainDoes, upstream, pinging
<1>4. CASE Shared("main")
  <2>1. PICK item \in {"emptyArgs", "stopBlock", "markFinished"} : Doing("main", item)
    BY <1>4, SharedFacts
  <2>2. Then("main", <<>>) /\ UNCHANGED <<fate, link>>
    BY <1>4, SharedFacts
  <2>3. UNCHANGED <<upstream, pinging>>
    BY <1>4 DEF Shared, EmitEmptyToolArgs, StopBlock, MarkFinished
  <2>. QED BY <1>0, <2>1, <2>2, <2>3 DEF MainDoes, upstream, pinging
<1>. QED BY <1>1, <1>2, <1>3, <1>4

LEMMA MainsListChanges ==
    ASSUME Lists, Streaming
    PROVE  \/ todo'["main"] = todo["main"]
           \/ BeginEnding
           \/ \E item, more : MainDoes(item, more)
<1>0. ASSUME NEW more, Then("scanner", more) PROVE todo'["main"] = todo["main"]
  BY <1>0 DEF Then, Lists
<1>1. CASE UNCHANGED todo
  BY <1>1
<1>2. CASE ScannerStep
  <2>1. CASE \E k \in Chunks : ReadChunk(k)
    BY <2>1 DEF ReadChunk, Read, Schedule, Lists
  <2>2. CASE ReadMalformed \/ Panic \/ ScannerFinish \/ CloseDone
               \/ \E reason \in {"none", "error", "disconnected"} : ReadLast(reason)
    BY <2>2 DEF ReadMalformed, Panic, ScannerFinish, CloseDone, ReadLast
  <2>3. CASE \/ Open \/ MarkStarted \/ DeliverContent \/ FinishReason \/ MessageDelta \/ MarkDelta
             \/ Shared("scanner")
    <3>1. \E more : Then("scanner", more)
      BY <2>3 DEF Open, MarkStarted, DeliverContent, FinishReason, MessageDelta, MarkDelta,
         Shared, EmitEmptyToolArgs, StopBlock, MarkFinished, Done
    <3>. QED BY <1>0, <3>1
  <2>. QED BY <1>2, <2>1, <2>2, <2>3 DEF ScannerStep
<1>3. CASE Connect \/ FirstData \/ Stalled \/ CheckFails \/ Select \/ TimeOut \/ ReturnFromHandler
           \/ Ping \/ HeartbeatExits \/ ClientGoes \/ ContextDone
  BY <1>1, <1>3 DEF Connect, FirstData, Stalled, CheckFails, Select, TimeOut, ReturnFromHandler,
     Ping, HeartbeatExits, ClientGoes, ContextDone
<1>. QED BY <1>1, <1>2, <1>3, MainSteps DEF Streaming, Next, MainStep, vars

LEMMA MainsRest ==
    ASSUME Lists, NEW item, NEW more, MainDoes(item, more)
    PROVE  /\ todo["main"][1] = item /\ Len(more) \in Nat
           /\ DOMAIN todo["main"] = 1 .. Len(todo["main"]) /\ Len(todo["main"]) \in Nat \ {0}
           /\ DOMAIN todo'["main"] = 1 .. Len(more) + Len(todo["main"]) - 1
           /\ \A n \in 1 .. Len(more) : todo'["main"][n] \in Closing
           /\ \A n \in 2 .. Len(todo["main"]) :
                todo'["main"][Len(more) + n - 1] = todo["main"][n]
<1>1. /\ todo["main"] \in Seq(Items) /\ todo["main"] # <<>> /\ Head(todo["main"]) = item
      /\ todo'["main"] = more \o Tail(todo["main"]) /\ more \in Seq(Items)
      /\ \A n \in DOMAIN more : more[n] \in Closing
  BY DEF MainDoes, Doing, Then, Lists
<1>. DEFINE s == todo["main"]
            t == more \o Tail(s)
<1>2. /\ Len(more) \in Nat /\ Len(s) \in Nat \ {0} /\ s[1] = Head(s)
      /\ DOMAIN s = 1 .. Len(s) /\ DOMAIN t = 1 .. Len(more) + Len(s) - 1
      /\ \A n \in 1 .. Len(more) : t[n] = more[n]
      /\ \A n \in 2 .. Len(s) : t[Len(more) + n - 1] = s[n]
  BY <1>1, RestFacts
<1>3. DOMAIN more = 1 .. Len(more)
  BY <1>1
<1>4. todo["main"] = s /\ todo'["main"] = t
  BY <1>1
<1>. HIDE DEF s, t
<1>. QED BY <1>1, <1>2, <1>3, <1>4

-------------------------------------------------------------------------------
(* The phases of a stream                                                      *)

Moves == Connect \/ FirstData \/ Stalled \/ CheckFails \/ Select \/ TimeOut \/ BeginEnding
           \/ ReturnFromHandler

LEMMA FateChanges ==
    ASSUME Streaming
    PROVE  \/ UNCHANGED fate
           \/ Moves
           \/ Deliver("cancelled") /\ client = "gone" /\ scanner' = scanner
           \/ Deliver("disconnected") /\ (cancelled \/ closed)
                /\ scanner = "running" /\ scanner' = "returning"
           \/ Deliver("error") /\ Reading /\ scanner' \in {"returning", "exited"}
           \/ Deliver("done") /\ scanner = "returning" /\ scanner' = "exited"
<1>1. CASE UNCHANGED vars
  BY <1>1 DEF vars, fate
<1>2. CASE MainStep
  BY <1>2, SharedFacts DEF MainStep, Moves, StopHeartbeat, AwaitHeartbeat, Judge, CloseBlock,
     SendError, DefaultReason, LastDelta, FinalDelta, MessageStop
<1>3. CASE ReadMalformed \/ ScannerFinish \/ Open \/ MarkStarted \/ DeliverContent \/ FinishReason
             \/ MessageDelta \/ MarkDelta \/ Shared("scanner") \/ \E k \in Chunks : ReadChunk(k)
  BY <1>3, SharedFacts DEF ReadMalformed, ScannerFinish, Open, MarkStarted, DeliverContent,
     FinishReason, MessageDelta, MarkDelta, ReadChunk
<1>4. CASE Panic \/ CloseDone
  BY <1>4 DEF Panic, CloseDone
<1>5. ASSUME NEW reason \in {"none", "error", "disconnected"}, ReadLast(reason)
      PROVE  \/ UNCHANGED fate
             \/ Deliver("disconnected") /\ (cancelled \/ closed)
                  /\ scanner = "running" /\ scanner' = "returning"
             \/ Deliver("error") /\ Reading /\ scanner' \in {"returning", "exited"}
  <2>1. /\ Reading /\ scanner' = "returning" /\ scanner = "running"
        /\ reason = "disconnected" => cancelled \/ closed
        /\ IF reason = "none" THEN UNCHANGED fate ELSE Deliver(reason)
    BY <1>5 DEF ReadLast, Reading
  <2>2. CASE reason = "none"
    BY <2>1, <2>2
  <2>3. CASE reason = "error"
    BY <2>1, <2>3
  <2>4. CASE reason = "disconnected"
    BY <2>1, <2>4
  <2>. QED BY <2>2, <2>3, <2>4
<1>6. CASE Ping \/ HeartbeatExits \/ ClientGoes \/ ContextDone
  BY <1>6 DEF Ping, HeartbeatExits, ClientGoes, ContextDone, upstream
<1>. QED BY <1>1, <1>2, <1>3, <1>4, <1>5, <1>6 DEF Streaming, Next, ScannerStep

\* The phases, but for what is on main's list.
Whereabouts ==
    /\ main \in {"connecting", "checking"} => scanner = "off"
    /\ main \in {"connecting", "checking", "starting", "waiting"} => outcome = "none"
    /\ main \in Events => outcome = main
    /\ main \in {"ending", "returned"} => outcome \in Events
    /\ ("done" \in ready /\ Before) \/ outcome = "done" => scanner = "exited"
    /\ ("error" \in ready /\ Before) \/ outcome = "error"
         => scanner \in {"returning", "exited"}
    /\ outcome = "failed" => scanner = "off"

LEMMA WhereaboutsStep ==
    ASSUME PlainTypes, Phases, Streaming
    PROVE  Whereabouts'
<1>. USE DEF Whereabouts, Phases, PlainTypes, Events, Before
<1>1. CASE UNCHANGED fate
  <2>1. ~FirstData
    BY <1>1 DEF FirstData, fate
  <2>2. /\ scanner' = "running" => scanner = "running"
        /\ scanner = "exited" => scanner' = "exited"
        /\ scanner = "off" => scanner' = "off"
        /\ scanner = "returning" => scanner' \in {"returning", "exited"}
    BY <2>1, ScannerChanges DEF Reading, ScannerFinish
  <2>. QED BY <1>1, <2>2 DEF fate
<1>2. CASE Connect \/ Stalled \/ CheckFails \/ TimeOut
  BY <1>2 DEF Connect, Stalled, CheckFails, TimeOut, EndsWith, Goes
<1>3. CASE FirstData \/ BeginEnding \/ ReturnFromHandler
  BY <1>3 DEF FirstData, BeginEnding, ReturnFromHandler, Goes
<1>4. CASE Select
  BY <1>4 DEF Select, EndsWith, Goes
<1>5. ASSUME NEW e \in {"cancelled", "disconnected", "error", "done"}, Deliver(e),
             \/ scanner' = scanner /\ e = "cancelled"
             \/ scanner = "running" /\ scanner' = "returning" /\ e = "disconnected"
             \/ scanner = "running" /\ scanner' \in {"returning", "exited"} /\ e = "error"
             \/ scanner = "returning" /\ scanner' = "exited" /\ e = "done"
      PROVE  Whereabouts'
  <2>1. CASE main = "waiting"
    BY <1>5, <2>1 DEF Deliver, EndsWith
  <2>2. CASE main \in {"connecting", "checking", "starting"}
    BY <1>5, <2>2 DEF Deliver
  <2>3. CASE main \notin {"waiting", "connecting", "checking", "starting"}
    <3>1. UNCHANGED fate
      BY <1>5, <2>3 DEF Deliver
    <3>. QED BY <1>5, <3>1 DEF fate
  <2>. QED BY <2>1, <2>2, <2>3
<1>. QED BY <1>1, <1>2, <1>3, <1>4, <1>5, FateChanges DEF Moves, Reading

LEMMA PhasesStep ==
    ASSUME Lists, PlainTypes, Phases, Owing, Streaming
    PROVE  Phases'
<1>1. Whereabouts'
  BY WhereaboutsStep
<1>2. \A n \in DOMAIN todo'["main"] : todo'["main"][n] \in Judging => outcome' = "done"
  <2>1. CASE todo'["main"] = todo["main"]
    <3>1. outcome' = outcome \/ todo["main"] = <<>>
      <4>1. CASE UNCHANGED fate
        BY <4>1 DEF fate
      <4>2. CASE Before
        BY <4>2 DEF Owing
      <4>3. CASE ~Before /\ ~UNCHANGED fate
        <5>1. main \in {"ending", "returned"}
          BY <4>3 DEF Before
        <5>2. CASE Moves
          BY <5>1, <5>2 DEF Moves, Connect, FirstData, Stalled, CheckFails, Select, TimeOut,
             BeginEnding, ReturnFromHandler, Goes, Events
        <5>3. ASSUME NEW e, Deliver(e) PROVE UNCHANGED fate
          BY <5>1, <5>3 DEF Deliver
        <5>. QED BY <4>3, <5>2, <5>3, FateChanges
      <4>. QED BY <4>1, <4>2, <4>3
    <3>. QED BY <2>1, <3>1 DEF Phases, Judging
  <2>2. CASE BeginEnding
    <3>1. main \in Events /\ outcome' = outcome /\ todo'["main"] = Ending(main)
      BY <2>2 DEF BeginEnding, Goes, Schedule, Lists
    <3>2. outcome = main
      BY <3>1 DEF Phases
    <3>3. \A n \in DOMAIN Ending(main) : Ending(main)[n] \in Judging => main = "done"
      BY <3>1, EndingLists
    <3>. QED BY <3>1, <3>2, <3>3
  <2>3. ASSUME NEW item, NEW more, MainDoes(item, more)
        PROVE  \A n \in DOMAIN todo'["main"] : todo'["main"][n] \in Judging => outcome' = "done"
    <3>1. outcome' = outcome
      BY <2>3 DEF MainDoes, fate
    <3>. DEFINE s == todo["main"]
                t == todo'["main"]
    <3>2. /\ Len(more) \in Nat /\ DOMAIN s = 1 .. Len(s) /\ Len(s) \in Nat \ {0}
          /\ DOMAIN t = 1 .. Len(more) + Len(s) - 1
          /\ \A n \in 1 .. Len(more) : t[n] \in Closing
          /\ \A n \in 2 .. Len(s) : t[Len(more) + n - 1] = s[n]
      BY <2>3, MainsRest
    <3>3. \A n \in DOMAIN s : s[n] \in Judging => outcome = "done"
      BY DEF Phases, Judging
    <3>4. \A x \in Closing : x \notin Judging
      BY DEF Closing, Judging
    <3>. HIDE DEF s, t
    <3>5. ASSUME NEW n \in DOMAIN t, t[n] \in Judging PROVE outcome = "done"
      <4>1. n \notin 1 .. Len(more)
        BY <3>2, <3>4, <3>5
      <4>. DEFINE k == n - Len(more) + 1
      <4>2. k \in 2 .. Len(s) /\ k \in DOMAIN s /\ Len(more) + k - 1 = n
        BY <3>2, <4>1
      <4>. HIDE DEF k
      <4>3. t[n] = s[k]
        BY <3>2, <4>2
      <4>. QED BY <3>3, <3>5, <4>2, <4>3
    <3>. QED BY <3>1, <3>5 DEF t
  <2>. QED BY <2>1, <2>2, <2>3, MainsListChanges
<1>. QED BY <1>1, <1>2 DEF Whereabouts, Phases, Judging

-------------------------------------------------------------------------------
(* The heartbeat                                                               *)

LEMMA HeartbeatStays ==
    ASSUME Hushed, Streaming
    PROVE  (heartbeat = "off" => heartbeat' = "off")
           /\ (orphanPing' = orphanPing \/ Ping)
<1>1. CASE UNCHANGED vars
  BY <1>1 DEF vars
<1>2. CASE MainStep
  BY <1>2 DEF MainStep, Connect, FirstData, Stalled, CheckFails, Select, TimeOut, BeginEnding,
     StopHeartbeat, AwaitHeartbeat, Judge, CloseBlock, SendError, DefaultReason, LastDelta,
     FinalDelta, MessageStop, Shared, EmitEmptyToolArgs, StopBlock, MarkFinished,
     ReturnFromHandler, pinging
<1>3. CASE ScannerStep
  BY <1>3 DEF ScannerStep, Panic, ScannerFinish, CloseDone, ReadLast, ReadChunk, ReadMalformed,
     Open, DeliverContent, FinishReason, MarkStarted, MessageDelta, MarkDelta, Shared,
     EmitEmptyToolArgs, MarkFinished, StopBlock, pinging
<1>4. CASE Ping \/ HeartbeatExits \/ ClientGoes \/ ContextDone
  BY <1>4 DEF Ping, HeartbeatExits, ClientGoes, ContextDone, pinging
<1>. QED BY <1>1, <1>2, <1>3, <1>4 DEF Streaming, Next

\* Only MessageStop writes message_stop.
LEMMA StopWritten ==
    ASSUME Lists, Streaming, ~MessageStop
    PROVE  Positions("message_stop")' \subseteq Positions("message_stop")
<1>1. ASSUME NEW e, e.event # "message_stop", Write(e)
      PROVE  Positions("message_stop")' = Positions("message_stop")
  <2>1. wire' = wire \/ wire' = Append(wire, e)
    BY <1>1 DEF Write
  <2>. QED BY <1>1, <2>1, WireKept
<1>2. CASE wire' = wire
  BY <1>2 DEF Positions
<1>3. CASE wire' = <<>>
  BY <1>3 DEF Positions
<1>4. Emission => Positions("message_stop")' \subseteq Positions("message_stop")
  <2>1. UNCHANGED out => wire' = wire
    BY DEF out
  <2>2. ASSUME Emission, ~UNCHANGED out
        PROVE  Positions("message_stop")' \subseteq Positions("message_stop")
    <3>1. PICK e : e.event # "message_stop" /\ Write(e)
      BY <2>2 DEF Emission
    <3>. QED BY <1>1, <3>1
  <2>. QED BY <1>2, <2>1, <2>2
<1>5. CASE UNCHANGED vars
  BY <1>2, <1>5 DEF vars
<1>6. CASE Connect \/ FirstData \/ Stalled \/ CheckFails \/ Select \/ TimeOut \/ BeginEnding
             \/ StopHeartbeat \/ AwaitHeartbeat \/ CloseBlock \/ DefaultReason \/ ReturnFromHandler
  BY <1>2, <1>6 DEF Connect, FirstData, Stalled, CheckFails, Select, TimeOut, BeginEnding,
     StopHeartbeat, AwaitHeartbeat, CloseBlock, DefaultReason, ReturnFromHandler, Silent, out
<1>7. CASE Judge \/ SendError \/ LastDelta \/ FinalDelta
  <2>1. \/ UNCHANGED out
        \/ Write(Event("error", block, <<>>))
        \/ \E d : Write(Event("message_delta", block, d))
    BY <1>7 DEF Judge, SendError, LastDelta, FinalDelta, Silent
  <2>. QED BY <1>4, <2>1, Emits DEF Emission
<1>8. ASSUME NEW g, Shared(g) PROVE Emission
  BY <1>8, SharedFacts
<1>9. CASE \/ ReadMalformed \/ Panic \/ ScannerFinish \/ CloseDone \/ MarkStarted \/ FinishReason
           \/ MarkDelta \/ \E k \in Chunks : ReadChunk(k)
           \/ \E reason \in {"none", "error", "disconnected"} : ReadLast(reason)
  BY <1>2, <1>9 DEF ReadMalformed, Panic, ScannerFinish, CloseDone, MarkStarted, FinishReason,
     MarkDelta, ReadChunk, ReadLast, Silent, out
<1>10. CASE Open \/ DeliverContent \/ MessageDelta
  <2>1. \/ UNCHANGED out
        \/ \E d : Write(Event("delta", block, d))
        \/ \E d : Write(Event("message_delta", block, d))
        \/ \E d : Write(Event("block_start", block', d))
    BY <1>10 DEF Open, OpenBlock, DeliverContent, DeliverText, DeliverThinking,
       FlushToolCallArgs, MessageDelta, Silent
  <2>. QED BY <1>4, <2>1, Emits DEF Emission
<1>11. CASE Ping \/ HeartbeatExits \/ ClientGoes \/ ContextDone
  BY <1>2, <1>3, <1>11 DEF Ping, HeartbeatExits, ClientGoes, ContextDone, Silent, out
<1>. QED BY <1>4, <1>5, <1>6, <1>7, <1>8, <1>9, <1>10, <1>11
         DEF Streaming, Next, MainStep, ScannerStep

LEMMA HushedStep ==
    ASSUME Lists, PlainTypes, Hushed, Streaming
    PROVE  Hushed'
<1>1. (heartbeat = "off" => heartbeat' = "off") /\ (orphanPing' = orphanPing \/ Ping)
  BY HeartbeatStays
<1>2. Positions("message_stop")' # {} => heartbeat' = "off"
  <2>1. CASE MessageStop
    <3>1. 1 \in DOMAIN todo["main"] /\ todo["main"][1] = "messageStop"
      BY <2>1, HeadItem DEF MessageStop
    <3>2. heartbeat = "off"
      BY <3>1 DEF Hushed
    <3>. QED BY <1>1, <3>2
  <2>2. CASE ~MessageStop
    BY <1>1, <2>2, StopWritten DEF Hushed
  <2>. QED BY <2>1, <2>2
<1>3. ~orphanPing'
  <2>1. CASE Ping
    <3>1. heartbeat # "off" /\ orphanPing' = (orphanPing \/ (Stopped /\ ~closed))
      BY <2>1 DEF Ping
    <3>2. ~Stopped
      BY <3>1 DEF Hushed, Stopped, Positions
    <3>. QED BY <3>1, <3>2 DEF Hushed
  <2>. QED BY <1>1, <2>1 DEF Hushed
<1>4. \A n \in DOMAIN todo'["main"] :
         todo'["main"][n] = "messageStop"
           => heartbeat' = "off" \/ \E m \in 1 .. n - 1 : todo'["main"][m] = "awaitHeartbeat"
  <2>1. CASE todo'["main"] = todo["main"]
    BY <1>1, <2>1 DEF Hushed
  <2>2. CASE BeginEnding
    <3>1. main \in Events /\ todo'["main"] = Ending(main)
      BY <2>2 DEF BeginEnding, Goes, Schedule, Lists
    <3>2. StopAwaits(Ending(main))
      BY <3>1, EndingLists
    <3>. QED BY <3>1, <3>2 DEF StopAwaits
  <2>3. ASSUME NEW item, NEW more, MainDoes(item, more), heartbeat # "off",
               NEW n \in DOMAIN todo'["main"], todo'["main"][n] = "messageStop"
        PROVE  \E m \in 1 .. n - 1 : todo'["main"][m] = "awaitHeartbeat"
    <3>. DEFINE s == todo["main"]
                t == todo'["main"]
    <3>2. /\ Len(more) \in Nat /\ DOMAIN s = 1 .. Len(s) /\ Len(s) \in Nat \ {0}
          /\ DOMAIN t = 1 .. Len(more) + Len(s) - 1 /\ s[1] = item
          /\ \A i \in 1 .. Len(more) : t[i] \in Closing
          /\ \A i \in 2 .. Len(s) : t[Len(more) + i - 1] = s[i]
      BY <2>3, MainsRest
    <3>3. \A i \in DOMAIN s : s[i] = "messageStop" =>
             \E m \in 1 .. i - 1 : s[m] = "awaitHeartbeat"
      BY <2>3 DEF Hushed
    <3>4. s[1] # "awaitHeartbeat" /\ n \in DOMAIN t /\ t[n] = "messageStop"
      BY <2>3, <3>2 DEF MainDoes
    <3>. HIDE DEF s, t
    <3>5. n \notin 1 .. Len(more)
      BY <3>2, <3>4 DEF Closing
    <3>. DEFINE k == n - Len(more) + 1
    <3>6. k \in 2 .. Len(s) /\ k \in DOMAIN s /\ Len(more) + k - 1 = n
      BY <3>2, <3>4, <3>5
    <3>. HIDE DEF k
    <3>7. s[k] = "messageStop"
      BY <3>2, <3>4, <3>6
    <3>8. PICK m \in 1 .. k - 1 : s[m] = "awaitHeartbeat"
      BY <3>3, <3>6, <3>7
    <3>9. m \in 2 .. Len(s) /\ Len(more) + m - 1 \in 1 .. n - 1
      BY <3>2, <3>4, <3>6, <3>8
    <3>10. t[Len(more) + m - 1] = "awaitHeartbeat"
      BY <3>2, <3>8, <3>9
    <3>. QED BY <3>9, <3>10 DEF t
  <2>. QED BY <1>1, <2>1, <2>2, <2>3, MainsListChanges
<1>. QED BY <1>2, <1>3, <1>4 DEF Hushed

-------------------------------------------------------------------------------
(* The sound part of the invariant                                             *)

LEMMA WireOf ==
    ASSUME Streaming
    PROVE  \/ UNCHANGED <<wire, client>>
           \/ ClientGoes
           \/ client' = client /\ \E e : Write(e)
<1>1. CASE UNCHANGED vars
  BY <1>1 DEF vars
<1>2. CASE Connect \/ FirstData \/ Stalled \/ CheckFails \/ Select \/ TimeOut \/ BeginEnding
             \/ StopHeartbeat \/ AwaitHeartbeat \/ CloseBlock \/ DefaultReason \/ ReturnFromHandler
  BY <1>2 DEF Connect, FirstData, Stalled, CheckFails, Select, TimeOut, BeginEnding,
     StopHeartbeat, AwaitHeartbeat, CloseBlock, DefaultReason, ReturnFromHandler, Silent, out, link
<1>3. CASE Judge \/ SendError \/ LastDelta \/ FinalDelta \/ MessageStop \/ MessageDelta \/ Open
             \/ DeliverContent
  <2>1. client' = client
    BY <1>3 DEF Judge, SendError, LastDelta, FinalDelta, MessageStop, MessageDelta, Open,
       DeliverContent, link
  <2>2. UNCHANGED out \/ \E e : Write(e)
    BY <1>3 DEF Judge, SendError, LastDelta, FinalDelta, MessageStop, MessageDelta, Open,
       OpenBlock, DeliverContent, DeliverText, DeliverThinking, FlushToolCallArgs, Silent
  <2>. QED BY <2>1, <2>2 DEF out
<1>4. ASSUME NEW g, Shared(g) PROVE client' = client /\ (wire' = wire \/ \E e : Write(e))
  BY <1>4, SharedFacts DEF Emission, out, link
<1>5. CASE \/ ReadMalformed \/ Panic \/ ScannerFinish \/ CloseDone \/ MarkStarted \/ FinishReason
           \/ MarkDelta \/ \E k \in Chunks : ReadChunk(k)
           \/ \E reason \in {"none", "error", "disconnected"} : ReadLast(reason)
  BY <1>5 DEF ReadMalformed, Panic, ScannerFinish, CloseDone, MarkStarted, FinishReason,
     MarkDelta, ReadChunk, ReadLast, Silent, out, link
<1>6. CASE Ping \/ HeartbeatExits \/ ContextDone
  BY <1>6 DEF Ping, HeartbeatExits, ContextDone, Silent, out, link
<1>. QED BY <1>1, <1>2, <1>3, <1>4, <1>5, <1>6 DEF Streaming, Next, MainStep, ScannerStep

LEMMA ForgottenStep == ASSUME Forgotten, Streaming PROVE Forgotten'
<1>1. CASE UNCHANGED <<wire, client>>
  BY <1>1 DEF Forgotten, Stays
<1>2. CASE ClientGoes
  BY <1>2 DEF ClientGoes, Forgotten
<1>3. CASE client' = client /\ \E e : Write(e)
  BY <1>3 DEF Forgotten, Stays, Write
<1>. QED BY <1>1, <1>2, <1>3, WireOf

LEMMA SoundStep ==
    ASSUME EndInv, Sound, Streaming
    PROVE  Sound'
<1>1. Lists /\ Owing
  BY DEF EndInv
<1>. QED BY <1>1, PlainStep, InputStep, BlockStep, ToolStep, ScannersListStep, PhasesStep,
            HushedStep, ForgottenStep DEF Sound

LEMMA SoundInit == Init => Sound
<1>. SUFFICES ASSUME Init PROVE Sound
  OBVIOUS
<1>1. /\ wire = <<>> /\ todo = [g \in {"scanner", "main"} |-> <<>>]
      /\ main = "connecting" /\ outcome = "none" /\ stalls = 0 /\ ready = {} /\ deltaSent = FALSE
      /\ scanner = "off" /\ collected = {} /\ stopReason = "none"
      /\ heartbeat = "on" /\ orphanPing = FALSE
      /\ client = "there" /\ closed = FALSE /\ cancelled = FALSE
      /\ input = [chunk |-> NoChunk, next |-> <<>>, lines |-> 0,
                  errors |-> 0, given |-> [i \in Calls |-> 0]]
      /\ block = [type |-> "text", index |-> 0, id |-> NoId, owner |-> 0,
                  started |-> FALSE, finished |-> FALSE]
      /\ tools = [i \in Calls |-> NoTool]
  BY Zenon DEF Init
<1>2. PlainTypes
  <2>1. stalls \in 0 .. MaxStallRetries
    BY <1>1, Bounds
  <2>2. /\ main = "connecting" /\ outcome = "none" /\ ready = {} /\ deltaSent = FALSE
        /\ scanner = "off" /\ collected = {} /\ stopReason = "none"
        /\ heartbeat = "on" /\ orphanPing = FALSE
        /\ client = "there" /\ closed = FALSE /\ cancelled = FALSE
    BY <1>1
  <2>. QED BY <2>1, <2>2 DEF PlainTypes
<1>3. NoId \in Ids
  BY DEF Ids
<1>4. InputTypes
  <2>1. <<>> \in Seq(Wanted) /\ Len(<<>>) = 0
    OBVIOUS
  <2>. DEFINE given == [i \in Calls |-> 0]
  <2>2. given \in [Calls -> Nat]
    OBVIOUS
  <2>3. input = [chunk |-> NoChunk, next |-> <<>>, lines |-> 0, errors |-> 0, given |-> given]
    BY <1>1
  <2>. HIDE DEF given
  <2>4. input \in Inputs
    BY <2>1, <2>2, <2>3 DEF Inputs
  <2>5. input.next = <<>> /\ input.lines = 0 /\ input.errors = 0
    BY <2>3
  <2>. QED BY <2>1, <2>4, <2>5, Bounds DEF InputTypes
<1>5. todo["scanner"] = <<>> /\ todo["main"] = <<>>
  BY <1>1
<1>6. BlockTypesHold
  <2>1. block \in Blocks /\ block.type = "text" /\ block.index = 0 /\ input.lines = 0
    BY <1>1, <1>3 DEF Blocks, BlockTypes
  <2>. QED BY <1>5, <2>1 DEF BlockTypesHold, OfCall, Opening
<1>7. ToolTypes
  <2>1. <<>> \in Seq({"args", "noArgs"}) /\ Len(<<>>) = 0
    OBVIOUS
  <2>2. NoTool \in ToolCalls /\ NoTool.buffer = <<>> /\ NoTool.emitted = 0
    BY <1>3, <2>1 DEF NoTool, ToolCalls
  <2>. QED BY <1>1, <2>1, <2>2 DEF ToolTypes
<1>8. ScannersList
  BY <1>1, <1>5 DEF ScannersList
<1>9. Phases
  BY <1>1, <1>5 DEF Phases, Events
<1>10. Hushed
  BY <1>1, <1>5 DEF Hushed, Positions
<1>11. Forgotten
  BY <1>1 DEF Forgotten
<1>. QED BY <1>2, <1>4, <1>6, <1>7, <1>8, <1>9, <1>10, <1>11 DEF Sound

-------------------------------------------------------------------------------
(* What has been received                                                      *)

LEMMA Countable ==
    ASSUME Lists, NEW e
    PROVE  IsFiniteSet(Positions(e)) /\ Cardinality(Positions(e)) \in Nat
           /\ Len(wire) \in Nat /\ Len(wire) + 1 \notin Positions(e)
           /\ (wire # <<>> <=> Len(wire) # 0)
<1>1. DOMAIN wire = 1 .. Len(wire) /\ Len(wire) \in Nat
  BY AppendFacts DEF Lists
<1>2. IsFiniteSet(1 .. Len(wire))
  BY <1>1, FS_Interval
<1>3. Positions(e) \subseteq 1 .. Len(wire)
  BY <1>1 DEF Positions
<1>4. wire # <<>> <=> Len(wire) # 0
  <2>1. PICK S : wire \in Seq(S)
    BY DEF Lists, IsSeq
  <2>. QED BY <2>1
<1>. QED BY <1>1, <1>2, <1>3, <1>4, FS_Subset, FS_CardinalityType

LEMMA Received ==
    ASSUME Lists, NEW x, wire' = Append(wire, x)
    PROVE  /\ Positions(x.event)' = Positions(x.event) \union {Len(wire) + 1}
           /\ Cardinality(Positions(x.event))' = Cardinality(Positions(x.event)) + 1
           /\ \A e : e # x.event => Positions(e)' = Positions(e)
           /\ Len(wire') = Len(wire) + 1 /\ wire'[Len(wire) + 1] = x /\ wire' # <<>>
<1>1. Positions(x.event)' = Positions(x.event) \union {Len(wire) + 1}
  BY WireGrows
<1>2. Cardinality(Positions(x.event) \union {Len(wire) + 1}) = Cardinality(Positions(x.event)) + 1
  BY Countable, FS_AddElement
<1>3. Cardinality(Positions(x.event))' = Cardinality(Positions(x.event)')
  OBVIOUS
<1>4. ASSUME NEW e, e # x.event PROVE Positions(e)' = Positions(e)
  BY <1>4, WireKept
<1>5. Len(wire') = Len(wire) + 1 /\ wire'[Len(wire) + 1] = x /\ wire' # <<>>
  <2>1. PICK S : wire \in Seq(S)
    BY DEF Lists, IsSeq
  <2>2. wire \in Seq(S \union {x})
    BY <2>1
  <2>. QED BY <2>2
<1>. QED BY <1>1, <1>2, <1>3, <1>4, <1>5

\* What the protocol allows as the next event.
Allowed(e, n) ==
    /\ NoStop
    /\ e = "block_start" => Begun = Ended /\ n = Begun /\ ~DeltaSent
    /\ e \in {"delta", "block_stop"} => Begun = n + 1 /\ Ended = n /\ ~DeltaSent
    /\ e = "message_delta" => Begun = Ended /\ ~DeltaSent
    /\ e = "message_stop" => Begun = Ended /\ DeltaSent

EventNames == {"block_start", "delta", "block_stop", "message_delta", "message_stop", "error"}

LEMMA ProtocolHolds ==
    ASSUME Lists, NEW x, wire' = Append(wire, x), x.event \in EventNames, x.index \in Nat,
           Allowed(x.event, x.index)
    PROVE  Protocol'
<1>. DEFINE n == Len(wire')
<1>1. /\ wire' # <<>> /\ wire'[n] = x /\ n = Len(wire) + 1
      /\ Positions(x.event)' = Positions(x.event) \union {n}
      /\ \A e : e # x.event => Positions(e)' = Positions(e)
      /\ \A e : n \notin Positions(e)
  BY Received, Countable
<1>. HIDE DEF n
<1>2. \A e : Positions(e)' \ {n} = Positions(e)
  BY <1>1
<1>3. Begun \in Nat /\ Ended \in Nat
  BY Countable DEF Begun, Ended
<1>4. /\ x.event = "block_start" => Begun = Ended /\ x.index = Begun
      /\ x.event \in {"delta", "block_stop"} => Begun # Ended /\ x.index = Begun - 1
      /\ x.event \in {"message_delta", "message_stop"} => Begun = Ended
      /\ DeltaSent => x.event \in {"error", "message_stop"}
      /\ x.event = "message_stop" => DeltaSent
      /\ NoStop
  BY <1>3 DEF Allowed, EventNames
<1>5. /\ Positions("block_start")' \ {n} = Positions("block_start")
      /\ Positions("block_stop")' \ {n} = Positions("block_stop")
      /\ Positions("message_delta")' \ {n} = Positions("message_delta")
      /\ Positions("message_stop")' \ {n} = Positions("message_stop")
  BY <1>2
<1>6. Positions("message_stop")' \ {n} = {}
  BY <1>4, <1>5 DEF NoStop
<1>7. (Positions("message_delta")' \ {n} # {} => x.event \in {"error", "message_stop"})
      /\ (x.event = "message_stop" => Positions("message_delta")' \ {n} # {})
  BY <1>4, <1>5 DEF DeltaSent
<1>. DEFINE blocks == Cardinality(Positions("block_start")' \ {n})
            stops  == Cardinality(Positions("block_stop")' \ {n})
<1>8. blocks = Begun /\ stops = Ended
  BY <1>5 DEF Begun, Ended
<1>. HIDE DEF blocks, stops
<1>9. (CASE x.event = "block_start" -> blocks = stops /\ x.index = blocks
        [] x.event \in {"delta", "block_stop"} -> ~(blocks = stops) /\ x.index = blocks - 1
        [] x.event \in {"message_delta", "message_stop"} -> blocks = stops
        [] x.event = "error" -> TRUE)
  BY <1>4, <1>8 DEF EventNames
<1>. QED BY <1>1, <1>6, <1>7, <1>9 DEF Protocol, n, blocks, stops

LEMMA Sent ==
    ASSUME Lists, Unbroken, Stays, client' = client, NEW e \in EventNames, NEW b, NEW d,
           b.index \in Nat, Write(Event(e, b, d)), Allowed(e, b.index)
    PROVE  /\ Protocol' /\ Begun \in Nat /\ Ended \in Nat
           /\ Begun' = Begun + (IF e = "block_start" THEN 1 ELSE 0)
           /\ Ended' = Ended + (IF e = "block_stop" THEN 1 ELSE 0)
           /\ DeltaSent' <=> DeltaSent \/ e = "message_delta"
<1>. DEFINE x == Event(e, b, d)
<1>1. x.event = e /\ x.index = b.index
  BY DEF Event
<1>2. wire' = Append(wire, x)
  BY WriteFacts DEF Stays
<1>. HIDE DEF x
<1>3. Protocol'
  BY <1>1, <1>2, ProtocolHolds
<1>4. /\ Positions(e)' = Positions(e) \union {Len(wire) + 1}
      /\ Cardinality(Positions(e))' = Cardinality(Positions(e)) + 1
      /\ \A f : f # e => Positions(f)' = Positions(f)
  BY <1>1, <1>2, Received
<1>5. Begun \in Nat /\ Ended \in Nat
  BY Countable DEF Begun, Ended
<1>6. Begun' = Begun + (IF e = "block_start" THEN 1 ELSE 0)
  <2>1. CASE e = "block_start"
    <3>1. Cardinality(Positions("block_start"))' = Cardinality(Positions("block_start")) + 1
      BY <1>4, <2>1
    <3>. QED BY <2>1, <3>1 DEF Begun
  <2>2. CASE e # "block_start"
    <3>1. Positions("block_start")' = Positions("block_start")
      BY <1>4, <2>2
    <3>. QED BY <1>5, <2>2, <3>1 DEF Begun
  <2>. QED BY <2>1, <2>2
<1>7. Ended' = Ended + (IF e = "block_stop" THEN 1 ELSE 0)
  <2>1. CASE e = "block_stop"
    <3>1. Cardinality(Positions("block_stop"))' = Cardinality(Positions("block_stop")) + 1
      BY <1>4, <2>1
    <3>. QED BY <2>1, <3>1 DEF Ended
  <2>2. CASE e # "block_stop"
    <3>1. Positions("block_stop")' = Positions("block_stop")
      BY <1>4, <2>2
    <3>. QED BY <1>5, <2>2, <3>1 DEF Ended
  <2>. QED BY <2>1, <2>2
<1>8. DeltaSent' <=> DeltaSent \/ e = "message_delta"
  BY <1>4 DEF DeltaSent
<1>. QED BY <1>3, <1>5, <1>6, <1>7, <1>8

LEMMA NothingSent ==
    ASSUME wire' = wire
    PROVE  /\ Begun' = Begun /\ Ended' = Ended /\ (DeltaSent' <=> DeltaSent)
           /\ Protocol => Protocol'
BY DEF Begun, Ended, DeltaSent, Positions, Protocol

-------------------------------------------------------------------------------
(* One event more                                                              *)

\* Somebody writes to the client that is there and has not got message_stop.
Writing == EndInv /\ Protocol /\ Stays /\ client' = client /\ NoStop /\ block \in Blocks

LEMMA PartOfBlock ==
    ASSUME Writing, InBlock, ~DeltaSent, block' = block,
           UNCHANGED out \/ \E d : Write(Event("delta", block, d))
    PROVE  Protocol' /\ InBlock' /\ ~DeltaSent'
<1>1. CASE UNCHANGED out
  BY <1>1, NothingSent DEF Writing, InBlock, out
<1>2. ASSUME NEW d, Write(Event("delta", block, d)) PROVE Protocol' /\ InBlock' /\ ~DeltaSent'
  <2>1. block.index \in Nat
    BY DEF Writing, Blocks
  <2>2. Allowed("delta", block.index)
    BY DEF Allowed, Writing, InBlock
  <2>3. /\ Protocol' /\ Begun' = Begun + 0 /\ Ended' = Ended + 0 /\ ~DeltaSent'
        /\ Begun \in Nat /\ Ended \in Nat
    BY <1>2, <2>1, <2>2, Sent DEF Writing, EndInv, EventNames
  <2>. QED BY <2>3 DEF InBlock
<1>. QED BY <1>1, <1>2

LEMMA StopOfBlock ==
    ASSUME Writing, InBlock, ~DeltaSent, block' = block, Write(Event("block_stop", block, <<>>))
    PROVE  Protocol' /\ Between' /\ Begun' = block'.index + 1 /\ ~DeltaSent'
<1>1. block.index \in Nat
  BY DEF Writing, Blocks
<1>2. Allowed("block_stop", block.index)
  BY DEF Allowed, Writing, InBlock
<1>3. /\ Protocol' /\ Begun' = Begun + 0 /\ Ended' = Ended + 1 /\ ~DeltaSent'
      /\ Begun \in Nat /\ Ended \in Nat
  BY <1>1, <1>2, Sent DEF Writing, EndInv, EventNames
<1>4. Begun' = block.index + 1 /\ Ended' = block.index + 1
  BY <1>1, <1>3 DEF InBlock
<1>. QED BY <1>3, <1>4 DEF Between

LEMMA StartOfBlock ==
    ASSUME Writing, Between, ~DeltaSent, block' \in Blocks, Begun = block'.index,
           NEW d, Write(Event("block_start", block', d))
    PROVE  Protocol' /\ InBlock' /\ ~DeltaSent'
<1>1. block'.index \in Nat
  BY DEF Blocks
<1>2. Allowed("block_start", block'.index)
  BY DEF Allowed, Writing, Between
<1>3. /\ Protocol' /\ Begun' = Begun + 1 /\ Ended' = Ended + 0 /\ ~DeltaSent'
      /\ Begun \in Nat /\ Ended \in Nat
  BY <1>1, <1>2, Sent DEF Writing, EndInv, EventNames
<1>4. Begun' = block'.index + 1
  BY <1>3
<1>5. Ended' = Ended
  BY <1>3
<1>6. Ended = block'.index
  BY DEF Between
<1>. QED BY <1>3, <1>4, <1>5, <1>6 DEF InBlock

LEMMA EndOfMessage ==
    ASSUME Writing, Between, ~DeltaSent, NEW d, Write(Event("message_delta", block, d))
    PROVE  Protocol' /\ Between' /\ DeltaSent'
<1>1. block.index \in Nat
  BY DEF Writing, Blocks
<1>2. Allowed("message_delta", block.index)
  BY DEF Allowed, Writing, Between
<1>3. /\ Protocol' /\ Begun' = Begun + 0 /\ Ended' = Ended + 0 /\ DeltaSent'
      /\ Begun \in Nat /\ Ended \in Nat
  BY <1>1, <1>2, Sent DEF Writing, EndInv, EventNames
<1>. QED BY <1>3 DEF Between

LEMMA ErrorEvent ==
    ASSUME Writing, UNCHANGED out \/ Write(Event("error", block, <<>>))
    PROVE  Protocol' /\ Begun' = Begun /\ Ended' = Ended /\ (DeltaSent' <=> DeltaSent)
<1>1. CASE UNCHANGED out
  BY <1>1, NothingSent DEF Writing, out
<1>2. CASE Write(Event("error", block, <<>>))
  <2>1. block.index \in Nat
    BY DEF Writing, Blocks
  <2>2. Allowed("error", block.index)
    BY DEF Allowed, Writing
  <2>3. /\ Protocol' /\ Begun' = Begun + 0 /\ Ended' = Ended + 0 /\ (DeltaSent' <=> DeltaSent)
        /\ Begun \in Nat /\ Ended \in Nat
    BY <1>2, <2>1, <2>2, Sent DEF Writing, EndInv, EventNames
  <2>. QED BY <2>3
<1>. QED BY <1>1, <1>2

LEMMA LastEvent ==
    ASSUME Writing, Between, DeltaSent, Write(Event("message_stop", block, <<>>))
    PROVE  Protocol'
<1>1. block.index \in Nat
  BY DEF Writing, Blocks
<1>2. Allowed("message_stop", block.index)
  BY DEF Allowed, Writing, Between
<1>. QED BY <1>1, <1>2, Sent DEF Writing, EndInv, EventNames

-------------------------------------------------------------------------------
(* Who may write                                                               *)

LEMMA OutcomeOnce ==
    ASSUME PlainTypes, Phases, Streaming
    PROVE  /\ outcome # "none" => outcome' = outcome
           /\ outcome' = outcome \/ outcome' = main'
           /\ main \in {"ending", "returned"} => main' \in {"ending", "returned"}
<1>. USE DEF Phases, PlainTypes, Events
<1>1. CASE UNCHANGED fate
  BY <1>1 DEF fate
<1>2. CASE Moves
  BY <1>2 DEF Moves, Connect, FirstData, Stalled, CheckFails, Select, TimeOut, BeginEnding,
     ReturnFromHandler, Goes, EndsWith
<1>3. ASSUME NEW e, Deliver(e)
      PROVE  /\ outcome # "none" => outcome' = outcome
             /\ outcome' = outcome \/ outcome' = main'
             /\ main \in {"ending", "returned"} => main' \in {"ending", "returned"}
  <2>1. CASE main = "waiting"
    BY <1>3, <2>1 DEF Deliver, EndsWith
  <2>2. CASE main \in {"connecting", "checking", "starting"}
    BY <1>3, <2>2 DEF Deliver
  <2>3. CASE main \notin {"waiting", "connecting", "checking", "starting"}
    BY <1>3, <2>3 DEF Deliver, fate
  <2>. QED BY <2>1, <2>2, <2>3
<1>. QED BY <1>1, <1>2, <1>3, FateChanges

LEMMA CalmKept ==
    ASSUME Sound, Streaming, Calm'
    PROVE  Calm /\ client' = client
<1>1. outcome # "timedOut"
  BY OutcomeOnce DEF Sound, Calm
<1>2. client' = client
  BY WireOf DEF Calm, Stays, ClientGoes
<1>. QED BY <1>1, <1>2 DEF Calm, Stays

\* main has not got its event while the scanner is at work, and the scanner has
\* stopped when main brings the stream to its end.
LEMMA OneAtATime ==
    ASSUME Sound, Calm, Course
    PROVE  /\ scanner = "running" => outcome = "none" /\ Before /\ "error" \notin ready
           /\ outcome # "none" => todo["scanner"] = <<>> /\ outcome \in {"done", "error", "failed"}
           /\ ~Before => outcome # "none"
           /\ outcome = "failed" => stopReason = "none"
<1>1. outcome \in {"none", "done", "error", "failed"}
  BY DEF Sound, PlainTypes, Calm, Course, Events
<1>2. scanner = "running" => outcome = "none"
  BY <1>1 DEF Sound, Phases
<1>3. ~Before => outcome # "none"
  BY DEF Sound, Phases, Before, Events
<1>4. scanner = "running" => "error" \notin ready
  BY <1>2, <1>3 DEF Sound, Phases
<1>5. outcome # "none" => todo["scanner"] = <<>>
  BY <1>2 DEF Sound, ScannersList
<1>6. outcome = "failed" => stopReason = "none"
  BY DEF Sound, Phases, ScannersList
<1>. QED BY <1>1, <1>2, <1>3, <1>4, <1>5, <1>6

\* The scanner at its item.
LEMMA ScannerTurn ==
    ASSUME EndInv, Sound, Calm, Course, Protocol, client' = client,
           NEW item, Doing("scanner", item)
    PROVE  /\ Writing /\ Before /\ outcome = "none" /\ ScannerAt(item) /\ block.index \in Nat
           /\ block \in Blocks /\ "error" \notin ready /\ scanner = "running"
<1>1. todo["scanner"] # <<>> /\ Head(todo["scanner"]) = item
  BY DEF Doing
<1>2. scanner = "running"
  BY <1>1 DEF Sound, ScannersList
<1>3. Before /\ outcome = "none" /\ "error" \notin ready
  BY <1>2, OneAtATime
<1>4. ScannerAt(item)
  BY <1>1, <1>3 DEF Course
<1>5. NoStop
  BY <1>3 DEF EndInv, Owing, Calm
<1>6. block \in Blocks /\ block.index \in Nat
  BY DEF Sound, BlockTypesHold, Blocks
<1>. QED BY <1>2, <1>3, <1>4, <1>5, <1>6 DEF Writing, Calm

LEMMA ScannerGoesOn ==
    ASSUME Before, outcome = "none", "error" \notin ready, UNCHANGED fate,
           todo'["scanner"] # <<>> => ScannerAt(Head(todo["scanner"]))',
           todo'["scanner"] = <<>> => Quiet'
    PROVE  Course'
<1>1. UNCHANGED <<main, outcome, ready>>
  BY DEF fate
<1>. QED BY <1>1 DEF Course, Before

-------------------------------------------------------------------------------
(* The steps of the scanner                                                    *)

\* What may come after an item of a chunk that is read, or finished.
LEMMA AfterItem ==
    ASSUME EndInv, Sound, NEW item, Doing("scanner", item), Done("scanner"),
           stopReason' = stopReason
    PROVE  /\ todo'["scanner"] # <<>> =>
                IF stopReason = "none"
                THEN <<item, Head(todo'["scanner"])>> \in ReadingSteps
                ELSE <<item, Head(todo'["scanner"])>> \in FinishingSteps
           /\ todo'["scanner"] = <<>> =>
                IF stopReason = "none" THEN item \in {"deliver", "finish"}
                ELSE item = "markDelta"
<1>1. Lists /\ ScannersList
  BY DEF EndInv, Sound
<1>. QED BY <1>1, NextItem

LEMMA EmptyArgsCourse ==
    ASSUME EndInv, Sound, Calm, Course, Protocol, client' = client,
           EmitEmptyToolArgs("scanner")
    PROVE  Course' /\ Protocol'
<1>1. /\ Doing("scanner", "emptyArgs") /\ Done("scanner")
      /\ UNCHANGED <<block, stopReason, deltaSent>> /\ UNCHANGED fate
      /\ UNCHANGED out \/ Write(Event("delta", block, <<"noArgs">>))
  BY Zenon DEF EmitEmptyToolArgs, Silent
<1>2. /\ Writing /\ Before /\ outcome = "none" /\ ScannerAt("emptyArgs")
      /\ "error" \notin ready
  BY <1>1, ScannerTurn
<1>3. InBlock /\ ~DeltaSent /\ ~deltaSent
  BY <1>2 DEF ScannerAt
<1>4. Protocol' /\ InBlock' /\ ~DeltaSent'
  BY <1>1, <1>2, <1>3, PartOfBlock
<1>5. ASSUME todo'["scanner"] # <<>> PROVE ScannerAt(Head(todo["scanner"]))'
  <2>. DEFINE h == Head(todo["scanner"])
  <2>1. IF stopReason = "none" THEN h' = "stopBlock" ELSE h' = "markFinished"
    BY <1>1, <1>5, AfterItem DEF ReadingSteps, FinishingSteps
  <2>. HIDE DEF h
  <2>2. stopReason = "none" => block.started /\ ~block.finished
    BY <1>2 DEF ScannerAt
  <2>3. ScannerAt(h)'
    BY <1>1, <1>3, <1>4, <2>1, <2>2 DEF ScannerAt
  <2>. QED BY <2>3 DEF h
<1>6. todo'["scanner"] # <<>>
  <2>. SUFFICES ASSUME todo'["scanner"] = <<>> PROVE FALSE
    OBVIOUS
  <2>1. IF stopReason = "none" THEN "emptyArgs" \in {"deliver", "finish"} ELSE "emptyArgs" = "markDelta"
    BY <1>1, AfterItem
  <2>. QED BY <2>1
<1>. QED BY <1>1, <1>2, <1>4, <1>5, <1>6, ScannerGoesOn

LEMMA StopBlockCourse ==
    ASSUME EndInv, Sound, Calm, Course, Protocol, client' = client, StopBlock("scanner")
    PROVE  Course' /\ Protocol'
<1>1. /\ Doing("scanner", "stopBlock") /\ Done("scanner")
      /\ UNCHANGED <<block, stopReason, deltaSent>> /\ UNCHANGED fate
      /\ Write(Event("block_stop", block, <<>>))
  BY DEF StopBlock, state
<1>2. /\ Writing /\ Before /\ outcome = "none" /\ ScannerAt("stopBlock")
      /\ "error" \notin ready
  BY <1>1, ScannerTurn
<1>3. InBlock /\ ~DeltaSent /\ ~deltaSent
  BY <1>2 DEF ScannerAt
<1>4. Protocol' /\ Between' /\ Begun' = block'.index + 1 /\ ~DeltaSent'
  BY <1>1, <1>2, <1>3, StopOfBlock
<1>5. ASSUME todo'["scanner"] # <<>> PROVE ScannerAt(Head(todo["scanner"]))'
  <2>. DEFINE h == Head(todo["scanner"])
  <2>1. IF stopReason = "none" THEN h' = "openNext" ELSE h' = "messageDelta"
    BY <1>1, <1>5, AfterItem DEF ReadingSteps, FinishingSteps
  <2>. HIDE DEF h
  <2>2. /\ stopReason = "none" => block.started /\ ~block.finished
        /\ stopReason # "none" => ~CloseIfOpen
    BY <1>2 DEF ScannerAt
  <2>3. CloseIfOpen' <=> CloseIfOpen
    BY <1>1 DEF CloseIfOpen
  <2>4. ScannerAt(h)'
    BY <1>1, <1>3, <1>4, <2>1, <2>2, <2>3 DEF ScannerAt
  <2>. QED BY <2>4 DEF h
<1>6. todo'["scanner"] # <<>>
  <2>. SUFFICES ASSUME todo'["scanner"] = <<>> PROVE FALSE
    OBVIOUS
  <2>1. IF stopReason = "none" THEN "stopBlock" \in {"deliver", "finish"} ELSE "stopBlock" = "markDelta"
    BY <1>1, AfterItem
  <2>. QED BY <2>1
<1>. QED BY <1>1, <1>2, <1>4, <1>5, <1>6, ScannerGoesOn

LEMMA MarkFinishedCourse ==
    ASSUME EndInv, Sound, Calm, Course, Protocol, client' = client, MarkFinished("scanner")
    PROVE  Course' /\ Protocol'
<1>1. /\ Doing("scanner", "markFinished") /\ Done("scanner")
      /\ UNCHANGED <<stopReason, deltaSent>> /\ UNCHANGED fate /\ wire' = wire
      /\ block' = [block EXCEPT !.finished = TRUE]
  BY DEF MarkFinished, Silent, out
<1>2. /\ Writing /\ Before /\ outcome = "none" /\ ScannerAt("markFinished")
      /\ "error" \notin ready /\ block \in Blocks
  BY <1>1, ScannerTurn
<1>3. todo'["scanner"] # <<>> /\ stopReason # "none" /\ Head(todo["scanner"])' = "stopBlock"
  BY <1>1, AfterItem DEF ReadingSteps, FinishingSteps
<1>4. InBlock /\ ~DeltaSent /\ ~deltaSent
  BY <1>2, <1>3 DEF ScannerAt
<1>5. block'.index = block.index /\ ~CloseIfOpen'
  BY <1>1, <1>2 DEF CloseIfOpen, Blocks
<1>6. Protocol' /\ InBlock' /\ ~DeltaSent'
  BY <1>1, <1>4, <1>5, NothingSent DEF InBlock
<1>. DEFINE h == Head(todo["scanner"])
<1>7. ScannerAt(h)'
  <2>1. h' = "stopBlock"
    BY <1>3
  <2>. HIDE DEF h
  <2>. QED BY <1>1, <1>3, <1>4, <1>5, <1>6, <2>1 DEF ScannerAt
<1>. QED BY <1>1, <1>2, <1>3, <1>6, <1>7, ScannerGoesOn

LEMMA OpenCourse ==
    ASSUME EndInv, Sound, Calm, Course, Protocol, client' = client, Open
    PROVE  Course' /\ Protocol'
<1>0. Lists /\ ScannersList /\ InputTypes /\ BlockTypesHold
  BY DEF EndInv, Sound
<1>1. PICK n \in 0 .. MaxChunks, s \in BOOLEAN :
        /\ OpenBlock(n, s)
        /\ \/ Doing("scanner", "openFirst") /\ n = block.index /\ s = FALSE
           \/ Doing("scanner", "openNext") /\ n = block.index + 1 /\ s = TRUE
        /\ Done("scanner") /\ stopReason' = stopReason /\ stopReason = "none"
        /\ Len(input.next) = 1 /\ input.next[1] \in Wanted
  BY <1>0, OpenFacts
<1>2. PICK item \in {"openFirst", "openNext"} :
        /\ Doing("scanner", item)
        /\ item = "openFirst" => n = block.index /\ s = FALSE
        /\ item = "openNext" => n = block.index + 1 /\ s = TRUE
  BY <1>1
<1>3. /\ Writing /\ Before /\ outcome = "none" /\ ScannerAt(item) /\ block.index \in Nat
      /\ "error" \notin ready /\ block \in Blocks
  BY <1>2, ScannerTurn
<1>4. UNCHANGED fate /\ deltaSent' = deltaSent
  BY DEF Open
<1>5. /\ block' \in Blocks /\ block'.index = n /\ block'.started = s
      /\ block'.finished = block.finished
  BY <1>1, <1>3, OpenBlockFacts
<1>6. ~block.finished /\ ~DeltaSent /\ ~deltaSent /\ Between /\ Begun = n
  <2>1. ~block.finished /\ ~DeltaSent /\ ~deltaSent
    BY <1>1, <1>2, <1>3 DEF ScannerAt
  <2>2. CASE item = "openFirst"
    BY <1>1, <1>2, <1>3, <2>1, <2>2 DEF ScannerAt, Fresh, Between
  <2>3. CASE item = "openNext"
    BY <1>1, <1>2, <1>3, <2>1, <2>3 DEF ScannerAt
  <2>. QED BY <2>1, <2>2, <2>3
<1>7. \E d : Write(Event("block_start", block', d))
  BY <1>1 DEF OpenBlock
<1>8. Protocol' /\ InBlock' /\ ~DeltaSent'
  BY <1>3, <1>5, <1>6, <1>7, StartOfBlock
<1>9. /\ todo'["scanner"] # <<>>
      /\ Head(todo["scanner"])' = IF item = "openFirst" THEN "markStarted" ELSE "deliver"
  BY <1>1, <1>2, AfterItem DEF ReadingSteps
<1>. DEFINE h == Head(todo["scanner"])
<1>10. ScannerAt(h)'
  <2>1. h' = IF item = "openFirst" THEN "markStarted" ELSE "deliver"
    BY <1>9
  <2>. HIDE DEF h
  <2>. QED BY <1>1, <1>2, <1>4, <1>5, <1>6, <1>8, <2>1 DEF ScannerAt
<1>. QED BY <1>3, <1>4, <1>8, <1>9, <1>10, ScannerGoesOn

LEMMA MarkStartedCourse ==
    ASSUME EndInv, Sound, Calm, Course, Protocol, client' = client, MarkStarted
    PROVE  Course' /\ Protocol'
<1>1. /\ Doing("scanner", "markStarted") /\ Done("scanner")
      /\ UNCHANGED <<stopReason, deltaSent>> /\ UNCHANGED fate /\ wire' = wire
      /\ block' = [block EXCEPT !.started = TRUE]
  BY DEF MarkStarted, Silent, out
<1>2. /\ Writing /\ Before /\ outcome = "none" /\ ScannerAt("markStarted")
      /\ "error" \notin ready /\ block \in Blocks
  BY <1>1, ScannerTurn
<1>3. todo'["scanner"] # <<>> /\ stopReason = "none" /\ Head(todo["scanner"])' = "deliver"
  BY <1>1, AfterItem DEF ReadingSteps, FinishingSteps
<1>4. InBlock /\ ~DeltaSent /\ ~deltaSent /\ ~block.finished
  BY <1>2, <1>3 DEF ScannerAt
<1>5. block'.index = block.index /\ block'.started /\ block'.finished = block.finished
  BY <1>1, <1>2 DEF Blocks
<1>6. Protocol' /\ InBlock' /\ ~DeltaSent'
  BY <1>1, <1>4, <1>5, NothingSent DEF InBlock
<1>. DEFINE h == Head(todo["scanner"])
<1>7. ScannerAt(h)'
  <2>1. h' = "deliver"
    BY <1>3
  <2>. HIDE DEF h
  <2>. QED BY <1>1, <1>3, <1>4, <1>5, <1>6, <2>1 DEF ScannerAt
<1>. QED BY <1>1, <1>2, <1>3, <1>6, <1>7, ScannerGoesOn

LEMMA DeliverCourse ==
    ASSUME EndInv, Sound, Calm, Course, Protocol, client' = client, DeliverContent
    PROVE  Course' /\ Protocol'
<1>1. /\ Doing("scanner", "deliver") /\ Done("scanner")
      /\ UNCHANGED <<block, stopReason, deltaSent>> /\ UNCHANGED fate
      /\ UNCHANGED out \/ \E d : Write(Event("delta", block, d))
  BY DEF DeliverContent, DeliverText, DeliverThinking, FlushToolCallArgs, Silent
<1>2. /\ Writing /\ Before /\ outcome = "none" /\ ScannerAt("deliver")
      /\ "error" \notin ready
  BY <1>1, ScannerTurn
<1>3. stopReason = "none" /\ (todo'["scanner"] # <<>> => Head(todo["scanner"])' = "finish")
  BY <1>1, AfterItem DEF ReadingSteps, FinishingSteps
<1>4. InBlock /\ ~DeltaSent /\ ~deltaSent /\ block.started /\ ~block.finished
  BY <1>2, <1>3 DEF ScannerAt
<1>5. Protocol' /\ InBlock' /\ ~DeltaSent'
  BY <1>1, <1>2, <1>4, PartOfBlock
<1>6. ASSUME todo'["scanner"] # <<>> PROVE ScannerAt(Head(todo["scanner"]))'
  <2>. DEFINE h == Head(todo["scanner"])
  <2>1. h' = "finish"
    BY <1>3, <1>6
  <2>. HIDE DEF h
  <2>2. ScannerAt(h)'
    BY <1>1, <1>3, <1>4, <1>5, <2>1 DEF ScannerAt
  <2>. QED BY <2>2 DEF h
<1>7. Quiet'
  BY <1>1, <1>3, <1>4, <1>5 DEF Quiet
<1>. QED BY <1>1, <1>2, <1>5, <1>6, <1>7, ScannerGoesOn

LEMMA FinishCourse ==
    ASSUME EndInv, Sound, Calm, Course, Protocol, client' = client, FinishReason
    PROVE  Course' /\ Protocol'
<1>0. Lists /\ ScannersList
  BY DEF EndInv, Sound
<1>1. /\ Doing("scanner", "finish") /\ UNCHANGED <<block, deltaSent>> /\ UNCHANGED fate
      /\ wire' = wire
  BY DEF FinishReason, Silent, out
<1>2. /\ stopReason = "none" /\ stopReason' # "none"
      /\ todo'["scanner"] # <<>>
      /\ Head(todo["scanner"])' = IF CloseIfOpen THEN "emptyArgs" ELSE "messageDelta"
  BY <1>0, FinishesAChunk, FinishChain
<1>3. /\ Writing /\ Before /\ outcome = "none" /\ ScannerAt("finish")
      /\ "error" \notin ready
  BY <1>1, ScannerTurn
<1>4. /\ ~DeltaSent /\ ~deltaSent /\ ~block.finished
      /\ IF block.started THEN InBlock ELSE Fresh
  BY <1>2, <1>3 DEF ScannerAt
<1>5. /\ Protocol' /\ ~DeltaSent' /\ (InBlock => InBlock') /\ (Fresh => Between')
  BY <1>1, <1>4, <1>3, NothingSent DEF InBlock, Fresh, Between, Writing
<1>6. CloseIfOpen' <=> CloseIfOpen
  BY <1>1 DEF CloseIfOpen
<1>7. CloseIfOpen <=> block.started
  BY <1>4 DEF CloseIfOpen
<1>. DEFINE h == Head(todo["scanner"])
<1>8. ScannerAt(h)'
  <2>1. h' = IF CloseIfOpen THEN "emptyArgs" ELSE "messageDelta"
    BY <1>2
  <2>. HIDE DEF h
  <2>. QED BY <1>1, <1>2, <1>4, <1>5, <1>6, <1>7, <2>1 DEF ScannerAt
<1>. QED BY <1>1, <1>2, <1>3, <1>5, <1>8, ScannerGoesOn

LEMMA MessageDeltaCourse ==
    ASSUME EndInv, Sound, Calm, Course, Protocol, client' = client, MessageDelta
    PROVE  Course' /\ Protocol'
<1>1. /\ Doing("scanner", "messageDelta") /\ Done("scanner")
      /\ UNCHANGED <<block, stopReason, deltaSent>> /\ UNCHANGED fate
      /\ Write(Event("message_delta", block, <<stopReason>>))
  BY DEF MessageDelta, state
<1>2. /\ Writing /\ Before /\ outcome = "none" /\ ScannerAt("messageDelta")
      /\ "error" \notin ready
  BY <1>1, ScannerTurn
<1>3. todo'["scanner"] # <<>> /\ stopReason # "none" /\ Head(todo["scanner"])' = "markDelta"
  BY <1>1, AfterItem DEF ReadingSteps, FinishingSteps
<1>4. Between /\ ~DeltaSent /\ ~deltaSent /\ ~CloseIfOpen
  BY <1>2, <1>3 DEF ScannerAt
<1>5. Protocol' /\ Between' /\ DeltaSent'
  BY <1>1, <1>2, <1>4, EndOfMessage
<1>6. ~CloseIfOpen'
  BY <1>1, <1>4 DEF CloseIfOpen
<1>. DEFINE h == Head(todo["scanner"])
<1>7. ScannerAt(h)'
  <2>1. h' = "markDelta"
    BY <1>3
  <2>. HIDE DEF h
  <2>. QED BY <1>1, <1>3, <1>4, <1>5, <1>6, <2>1 DEF ScannerAt
<1>. QED BY <1>1, <1>2, <1>3, <1>5, <1>7, ScannerGoesOn

LEMMA MarkDeltaCourse ==
    ASSUME EndInv, Sound, Calm, Course, Protocol, client' = client, MarkDelta
    PROVE  Course' /\ Protocol'
<1>1. /\ Doing("scanner", "markDelta") /\ Done("scanner")
      /\ UNCHANGED <<block, stopReason>> /\ deltaSent' = TRUE /\ UNCHANGED fate /\ wire' = wire
  BY DEF MarkDelta, Silent, out
<1>2. /\ Writing /\ Before /\ outcome = "none" /\ ScannerAt("markDelta")
      /\ "error" \notin ready
  BY <1>1, ScannerTurn
<1>3. todo'["scanner"] = <<>> /\ stopReason # "none"
  BY <1>1, AfterItem DEF ReadingSteps, FinishingSteps
<1>4. Between /\ DeltaSent /\ ~CloseIfOpen
  BY <1>2, <1>3 DEF ScannerAt
<1>5. Protocol' /\ Between' /\ DeltaSent' /\ ~CloseIfOpen'
  BY <1>1, <1>4, NothingSent DEF Between, CloseIfOpen
<1>6. Quiet'
  BY <1>1, <1>3, <1>5 DEF Quiet
<1>. QED BY <1>1, <1>2, <1>3, <1>5, <1>6, ScannerGoesOn

\* A step that neither writes nor does an item.
LEMMA IdleCourse ==
    ASSUME EndInv, EndInv', Sound, Calm, Calm', Course, Protocol, Streaming, ~BeginEnding,
           UNCHANGED <<todo, block, stopReason, deltaSent, wire>>
    PROVE  Course' /\ Protocol'
<1>0. PlainTypes /\ Phases
  BY DEF Sound
<1>1. /\ Before' <=> Before
      /\ "error" \in ready' \/ outcome' = "error"
           => "error" \in ready \/ outcome = "error" \/ Reading
  <2>1. CASE UNCHANGED fate
    BY <2>1 DEF fate, Before
  <2>2. CASE Moves
    BY <1>0, <2>2 DEF Moves, Connect, FirstData, Stalled, CheckFails, Select, TimeOut,
       ReturnFromHandler, Goes, EndsWith, Before, PlainTypes
  <2>3. ASSUME NEW e \in {"done", "error", "disconnected", "cancelled"}, Deliver(e),
               e = "error" => Reading
        PROVE  /\ Before' <=> Before
               /\ "error" \in ready' \/ outcome' = "error"
                    => "error" \in ready \/ outcome = "error" \/ Reading
    <3>1. CASE main = "waiting"
      BY <2>3, <3>1 DEF Deliver, EndsWith, Before
    <3>2. CASE main \in {"connecting", "checking", "starting"}
      BY <2>3, <3>2 DEF Deliver, Before
    <3>3. CASE main \notin {"waiting", "connecting", "checking", "starting"}
      BY <2>3, <3>3 DEF Deliver, fate, Before
    <3>. QED BY <3>1, <3>2, <3>3
  <2>. QED BY <2>1, <2>2, <2>3, FateChanges
<1>2. outcome' \notin {"cancelled", "disconnected", "dropped"}
  <2>1. outcome' = outcome \/ outcome' = main'
    BY <1>0, OutcomeOnce
  <2>2. main' \notin {"cancelled", "disconnected", "dropped"}
    BY DEF EndInv, Unbroken, Calm
  <2>. QED BY <2>1, <2>2 DEF Course
<1>3. ~Before => outcome' = outcome
  <2>1. ~Before => outcome # "none"
    BY <1>0 DEF Before, Phases, Events
  <2>. QED BY <1>0, <2>1, OutcomeOnce
<1>4. /\ todo' = todo /\ stopReason' = stopReason
      /\ Quiet => Quiet'
      /\ Protocol'
  BY NothingSent DEF Quiet, CloseIfOpen, Between, InBlock, Fresh, DeltaSent
<1>5. Before' /\ todo'["scanner"] = <<>> =>
         /\ Quiet'
         /\ "error" \in ready' \/ outcome' = "error" => stopReason' = "none"
  <2>1. Reading => stopReason = "none"
    BY ReadsUnfinished DEF Sound
  <2>. QED BY <1>1, <1>4, <2>1 DEF Course
<1>6. ASSUME Before', todo'["scanner"] # <<>> PROVE ScannerAt(Head(todo["scanner"]))'
  <2>1. ScannerAt(Head(todo["scanner"]))
    BY <1>1, <1>4, <1>6 DEF Course
  <2>2. Begun' = Begun /\ Ended' = Ended /\ (DeltaSent' <=> DeltaSent)
    BY NothingSent
  <2>. DEFINE h == Head(todo["scanner"])
  <2>3. h' = h
    BY <1>4
  <2>. HIDE DEF h
  <2>4. ScannerAt(h)
    BY <2>1 DEF h
  <2>5. ScannerAt(h)'
    BY <2>2, <2>3, <2>4 DEF ScannerAt, InBlock, Fresh, Between, CloseIfOpen
  <2>. QED BY <2>5 DEF h
<1>7. ASSUME ~Before' PROVE MainsList' /\ (todo'["main"] # <<>> => MainAt(Head(todo["main"]))')
  <2>1. MainsList /\ (todo["main"] # <<>> => MainAt(Head(todo["main"]))) /\ outcome' = outcome
    BY <1>1, <1>3, <1>7 DEF Course
  <2>2. Begun' = Begun /\ Ended' = Ended /\ (DeltaSent' <=> DeltaSent)
    BY NothingSent
  <2>3. MainsList'
    BY <1>4, <2>1 DEF MainsList, Chained
  <2>. DEFINE h == Head(todo["main"])
  <2>4. h' = h
    BY <1>4
  <2>. HIDE DEF h
  <2>5. MainAt(h) => MainAt(h)'
    BY <1>4, <2>1, <2>2, <2>4 DEF MainAt, InBlock, Between
  <2>6. todo'["main"] # <<>> => MainAt(h)'
    BY <1>4, <2>1, <2>5 DEF h
  <2>. QED BY <2>3, <2>6 DEF h
<1>. QED BY <1>2, <1>4, <1>5, <1>6, <1>7 DEF Course

LEMMA ReadCourse ==
    ASSUME EndInv, Sound, Calm, Course, Protocol, NEW k \in Chunks, ReadChunk(k)
    PROVE  Course' /\ Protocol'
<1>1. /\ UNCHANGED <<block, stopReason, deltaSent, wire>> /\ UNCHANGED fate /\ Reading
      /\ todo'["scanner"] = Plan(k)
  BY DEF ReadChunk, Read, Schedule, Silent, out, EndInv, Lists
<1>2. stopReason = "none" /\ todo["scanner"] = <<>> /\ scanner = "running"
  BY <1>1, ReadsUnfinished DEF Sound
<1>3. Before /\ outcome = "none" /\ "error" \notin ready
  BY <1>2, OneAtATime
<1>4. /\ ~block.finished /\ ~DeltaSent /\ ~deltaSent
      /\ IF block.started THEN InBlock ELSE Fresh
  BY <1>2, <1>3 DEF Course, Quiet
<1>5. /\ Protocol' /\ Begun' = Begun /\ Ended' = Ended /\ (DeltaSent' <=> DeltaSent)
  BY <1>1, NothingSent
<1>6. ASSUME todo'["scanner"] # <<>> PROVE ScannerAt(Head(todo["scanner"]))'
  <2>. DEFINE h == Head(todo["scanner"])
  <2>1. \/ h' = "emptyArgs" /\ block.started
        \/ h' = "openFirst" /\ ~block.started
        \/ h' = "deliver" /\ HasContent(k) /\ NextBlock(k) = <<>>
        \/ h' = "finish"
    BY <1>1, <1>6, PlanChain
  <2>2. HasContent(k) /\ NextBlock(k) = <<>> => block.started
    BY DEF NextBlock
  <2>. HIDE DEF h
  <2>3. ScannerAt(h)'
    BY <1>1, <1>2, <1>4, <1>5, <2>1, <2>2 DEF ScannerAt, InBlock, Fresh
  <2>. QED BY <2>3 DEF h
<1>7. Quiet'
  BY <1>1, <1>2, <1>4, <1>5 DEF Quiet, InBlock, Fresh
<1>. QED BY <1>1, <1>3, <1>5, <1>6, <1>7, ScannerGoesOn

LEMMA EndingCourse ==
    ASSUME EndInv, Sound, Calm, Course, Protocol, BeginEnding
    PROVE  Course' /\ Protocol'
<1>1. /\ main \in Events /\ main' = "ending" /\ UNCHANGED <<outcome, ready>>
      /\ todo'["main"] = Ending(main) /\ todo'["scanner"] = todo["scanner"]
      /\ UNCHANGED <<block, stopReason, deltaSent, wire>>
  BY DEF BeginEnding, Goes, Schedule, Silent, out, state, EndInv, Lists
<1>2. outcome = main /\ outcome \in {"done", "error", "failed"} /\ todo["scanner"] = <<>>
  <2>1. outcome = main
    BY <1>1 DEF Sound, Phases
  <2>2. outcome # "none"
    BY <1>1, <2>1 DEF Events
  <2>. QED BY <2>1, <2>2, OneAtATime
<1>3. Before
  BY <1>1 DEF Before, Events
<1>4. Quiet /\ (outcome # "done" => stopReason = "none")
  BY <1>2, <1>3, OneAtATime DEF Course
<1>5. /\ Protocol' /\ Begun' = Begun /\ Ended' = Ended /\ (DeltaSent' <=> DeltaSent)
  BY <1>1, NothingSent
<1>6. Quiet' /\ (outcome' # "done" => stopReason' = "none")
  BY <1>1, <1>4, <1>5 DEF Quiet, CloseIfOpen, Between, InBlock, Fresh
<1>7. /\ Chained(Ending(main), IF main = "done" THEN DoneSteps ELSE AbortSteps, "messageStop")
      /\ Ending(main) # <<>> /\ Head(Ending(main)) = "stopHeartbeat"
  BY <1>1, <1>2, EndingLists
<1>8. MainsList'
  BY <1>1, <1>2, <1>7 DEF MainsList
<1>. DEFINE h == Head(todo["main"])
<1>9. MainAt(h)'
  <2>1. h' = "stopHeartbeat"
    BY <1>1, <1>7
  <2>. HIDE DEF h
  <2>. QED BY <1>6, <2>1 DEF MainAt
<1>10. ~Before'
  BY <1>1 DEF Before
<1>. QED BY <1>1, <1>2, <1>5, <1>8, <1>9, <1>10 DEF Course

-------------------------------------------------------------------------------
(* The steps of main                                                           *)

\* The open block has been stopped, and message_delta is the next to come.
Stopping == Between /\ (DeltaSent <=> deltaSent) /\ (outcome # "done" => ~DeltaSent)

LEMMA MainsTurn ==
    ASSUME EndInv, Sound, Calm, Course, Protocol, client' = client,
           NEW item, Doing("main", item)
    PROVE  /\ Writing /\ ~Before /\ MainsList /\ MainAt(item)
           /\ outcome \in {"done", "error", "failed"} /\ block \in Blocks
<1>1. todo["main"] # <<>> /\ Head(todo["main"]) = item
  BY DEF Doing
<1>2. ~Before /\ NoStop
  BY <1>1 DEF EndInv, Owing, Calm
<1>3. MainsList /\ MainAt(item)
  BY <1>1, <1>2 DEF Course
<1>4. outcome \in {"done", "error", "failed"}
  BY <1>2, OneAtATime
<1>5. block \in Blocks
  BY DEF Sound, BlockTypesHold
<1>. QED BY <1>2, <1>3, <1>4, <1>5 DEF Writing, Calm

LEMMA MainsNext ==
    ASSUME EndInv, MainsList, UNCHANGED fate, NEW item, Doing("main", item), Done("main")
    PROVE  /\ MainsList'
           /\ todo'["main"] = <<>> => item = "messageStop"
           /\ todo'["main"] # <<>> =>
                <<item, Head(todo'["main"])>> \in IF outcome = "done" THEN DoneSteps ELSE AbortSteps
<1>. DEFINE steps == IF outcome = "done" THEN DoneSteps ELSE AbortSteps
<1>1. Lists /\ outcome' = outcome /\ Chained(todo["main"], steps, "messageStop")
  BY DEF EndInv, fate, MainsList
<1>. HIDE DEF steps
<1>2. /\ Chained(todo'["main"], steps, "messageStop")
      /\ todo'["main"] = <<>> => item = "messageStop"
      /\ todo'["main"] # <<>> => <<item, Head(todo'["main"])>> \in steps
  BY <1>1, RestOfList
<1>3. MainsList'
  BY <1>1, <1>2 DEF MainsList, steps
<1>. QED BY <1>2, <1>3 DEF steps

LEMMA MainGoesOn ==
    ASSUME ~Before, outcome \in {"done", "error", "failed"}, UNCHANGED fate, MainsList',
           todo'["main"] # <<>> => MainAt(Head(todo["main"]))'
    PROVE  Course'
<1>1. UNCHANGED <<main, outcome, ready>>
  BY DEF fate
<1>. QED BY <1>1 DEF Course, Before

LEMMA QuietKept ==
    ASSUME Quiet, UNCHANGED <<block, stopReason, deltaSent>>, Begun' = Begun, Ended' = Ended,
           DeltaSent' <=> DeltaSent
    PROVE  Quiet'
BY DEF Quiet, CloseIfOpen, Between, InBlock, Fresh

LEMMA BeforeTheEnd ==
    ASSUME EndInv, Sound, Calm, Course, Protocol, client' = client,
           StopHeartbeat \/ AwaitHeartbeat \/ Judge
    PROVE  Course' /\ Protocol'
<1>1. PICK item \in {"stopHeartbeat", "awaitHeartbeat", "judge"} :
        /\ Doing("main", item) /\ Done("main")
        /\ UNCHANGED fate /\ UNCHANGED <<block, stopReason, deltaSent>>
        /\ UNCHANGED out \/ Write(Event("error", block, <<>>))
  BY DEF StopHeartbeat, AwaitHeartbeat, Judge, Silent, state
<1>2. /\ Writing /\ ~Before /\ MainsList /\ MainAt(item)
      /\ outcome \in {"done", "error", "failed"}
  BY <1>1, MainsTurn
<1>3. Protocol' /\ Begun' = Begun /\ Ended' = Ended /\ (DeltaSent' <=> DeltaSent)
  BY <1>1, <1>2, ErrorEvent
<1>4. Quiet /\ (outcome # "done" => stopReason = "none")
  BY <1>1, <1>2 DEF MainAt
<1>5. Quiet' /\ (outcome' # "done" => stopReason' = "none")
  BY <1>1, <1>3, <1>4, QuietKept DEF fate
<1>6. MainsList'
  BY <1>1, <1>2, MainsNext
<1>7. ASSUME todo'["main"] # <<>> PROVE MainAt(Head(todo["main"]))'
  <2>. DEFINE h == Head(todo["main"])
  <2>1. h' \in {"awaitHeartbeat", "judge", "closeBlock"}
    BY <1>1, <1>2, <1>7, MainsNext DEF DoneSteps, AbortSteps
  <2>. HIDE DEF h
  <2>2. MainAt(h)'
    BY <1>5, <2>1 DEF MainAt
  <2>. QED BY <2>2 DEF h
<1>. QED BY <1>1, <1>2, <1>3, <1>6, <1>7, MainGoesOn

LEMMA ClosingChain ==
    /\ <<"emptyArgs", "stopBlock", "markFinished">> \in Seq(Items)
    /\ <<"emptyArgs", "stopBlock", "markFinished">> # <<>>
    /\ Head(<<"emptyArgs", "stopBlock", "markFinished">>) = "emptyArgs"
    /\ Chained(<<"emptyArgs", "stopBlock", "markFinished">>, DoneSteps, "markFinished")
    /\ Chained(<<"emptyArgs", "stopBlock", "markFinished">>, AbortSteps, "markFinished")
    /\ <<"markFinished", "defaultReason">> \in DoneSteps
    /\ <<"markFinished", "error">> \in AbortSteps
BY DEF Chained, DoneSteps, AbortSteps, Items

LEMMA RestIsTail ==
    ASSUME NEW s \in Seq(Items), s # <<>>
    PROVE  Tail(s) \in Seq(Items) /\ Tail(s) = <<>> \o Tail(s)
OBVIOUS

LEMMA CloseCourse ==
    ASSUME EndInv, Sound, Calm, Course, Protocol, client' = client, CloseBlock
    PROVE  Course' /\ Protocol'
<1>. DEFINE s == todo["main"]
            t == Tail(s)
            c == <<"emptyArgs", "stopBlock", "markFinished">>
            steps == IF outcome = "done" THEN DoneSteps ELSE AbortSteps
<1>1. /\ Doing("main", "closeBlock") /\ UNCHANGED fate
      /\ UNCHANGED <<block, stopReason, deltaSent, wire>>
      /\ todo'["main"] = (IF CloseIfOpen THEN c ELSE <<>>) \o t
  BY DEF CloseBlock, Silent, state, out, Then, EndInv, Lists
<1>2. /\ Writing /\ ~Before /\ MainsList /\ MainAt("closeBlock")
      /\ outcome \in {"done", "error", "failed"} /\ outcome' = outcome
  BY <1>1, MainsTurn DEF fate
<1>3. /\ Protocol' /\ Begun' = Begun /\ Ended' = Ended /\ (DeltaSent' <=> DeltaSent)
  BY <1>1, NothingSent
<1>4. Quiet /\ (outcome # "done" => stopReason = "none")
  BY <1>2 DEF MainAt
<1>5. s \in Seq(Items) /\ s # <<>> /\ Head(s) = "closeBlock" /\ Chained(s, steps, "messageStop")
  BY <1>1, <1>2 DEF EndInv, Lists, Doing, MainsList
<1>6. /\ t \in Seq(Items) /\ t = <<>> \o t /\ Chained(t, steps, "messageStop")
      /\ t # <<>> /\ <<"closeBlock", Head(t)>> \in steps
  <2>. HIDE DEF s, steps
  <2>1. t \in Seq(Items) /\ t = <<>> \o t
    BY <1>5, RestIsTail
  <2>2. /\ Chained(t, steps, "messageStop")
        /\ t = <<>> => Head(s) = "messageStop"
        /\ t # <<>> => <<Head(s), Head(t)>> \in steps
    <3>1. s \in Seq(Items) /\ s # <<>> /\ Chained(s, steps, "messageStop") /\ t = <<>> \o Tail(s)
      BY <1>5, <2>1
    <3>. HIDE DEF t
    <3>. QED BY <3>1, ChainRest
  <2>. HIDE DEF t
  <2>. QED BY <1>5, <2>1, <2>2
<1>7. Head(t) = IF outcome = "done" THEN "defaultReason" ELSE "error"
  BY <1>6 DEF DoneSteps, AbortSteps
<1>8. CASE CloseIfOpen
  <2>1. Chained(c, steps, "markFinished") /\ <<"markFinished", Head(t)>> \in steps
        /\ c \in Seq(Items) /\ c # <<>> /\ Head(c) = "emptyArgs"
    BY <1>7, ClosingChain
  <2>2. Chained(todo'["main"], steps, "messageStop") /\ Head(todo'["main"]) = "emptyArgs"
    <3>1. todo'["main"] = c \o t
      BY <1>1, <1>8
    <3>. HIDE DEF c, t, steps
    <3>. QED BY <1>6, <2>1, <3>1, ChainCat
  <2>3. MainsList'
    BY <1>2, <2>2 DEF MainsList
  <2>4. InBlock /\ ~DeltaSent /\ ~deltaSent
    BY <1>4, <1>8 DEF Quiet, CloseIfOpen
  <2>. DEFINE h == Head(todo["main"])
  <2>5. MainAt(h)'
    <3>1. h' = "emptyArgs"
      BY <2>2
    <3>. HIDE DEF h
    <3>. QED BY <1>1, <1>3, <2>4, <3>1 DEF MainAt, InBlock
  <2>. QED BY <1>1, <1>2, <1>3, <2>3, <2>5, MainGoesOn
<1>9. CASE ~CloseIfOpen
  <2>1. todo'["main"] = t
    BY <1>1, <1>6, <1>9
  <2>2. MainsList'
    BY <1>2, <1>6, <2>1 DEF MainsList
  <2>3. Stopping
    BY <1>4, <1>9 DEF Quiet, CloseIfOpen, Stopping, Fresh, Between
  <2>. DEFINE h == Head(todo["main"])
  <2>4. MainAt(h)'
    <3>1. h' \in {"defaultReason", "error"}
      BY <1>7, <2>1
    <3>. HIDE DEF h
    <3>. QED BY <1>1, <1>2, <1>3, <2>3, <3>1 DEF MainAt, Stopping, Between
  <2>. QED BY <1>1, <1>2, <1>3, <2>2, <2>4, MainGoesOn
<1>. QED BY <1>8, <1>9

LEMMA ClosingCourse ==
    ASSUME EndInv, Sound, Calm, Course, Protocol, client' = client,
           EmitEmptyToolArgs("main") \/ StopBlock("main")
    PROVE  Course' /\ Protocol'
<1>1. PICK item \in {"emptyArgs", "stopBlock"} :
        /\ Doing("main", item) /\ Done("main")
        /\ UNCHANGED fate /\ UNCHANGED <<block, stopReason, deltaSent>>
        /\ IF item = "emptyArgs" THEN UNCHANGED out \/ Write(Event("delta", block, <<"noArgs">>))
           ELSE Write(Event("block_stop", block, <<>>))
  BY DEF EmitEmptyToolArgs, StopBlock, Silent, state
<1>2. /\ Writing /\ ~Before /\ MainsList /\ MainAt(item)
      /\ outcome \in {"done", "error", "failed"}
  BY <1>1, MainsTurn
<1>3. InBlock /\ ~DeltaSent /\ ~deltaSent
  BY <1>1, <1>2 DEF MainAt
<1>4. Protocol' /\ ~DeltaSent' /\ (item = "emptyArgs" => InBlock')
      /\ (item = "stopBlock" => Between')
  <2>1. CASE item = "emptyArgs"
    BY <1>1, <1>2, <1>3, <2>1, PartOfBlock
  <2>2. CASE item = "stopBlock"
    BY <1>1, <1>2, <1>3, <2>2, StopOfBlock
  <2>. QED BY <1>1, <2>1, <2>2
<1>5. MainsList'
  BY <1>1, <1>2, MainsNext
<1>6. ASSUME todo'["main"] # <<>> PROVE MainAt(Head(todo["main"]))'
  <2>. DEFINE h == Head(todo["main"])
  <2>1. h' = IF item = "emptyArgs" THEN "stopBlock" ELSE "markFinished"
    BY <1>1, <1>2, <1>6, MainsNext DEF DoneSteps, AbortSteps
  <2>. HIDE DEF h
  <2>2. MainAt(h)'
    BY <1>1, <1>3, <1>4, <2>1 DEF MainAt
  <2>. QED BY <2>2 DEF h
<1>. QED BY <1>1, <1>2, <1>4, <1>5, <1>6, MainGoesOn

LEMMA ReportCourse ==
    ASSUME EndInv, Sound, Calm, Course, Protocol, client' = client,
           MarkFinished("main") \/ DefaultReason \/ SendError
    PROVE  Course' /\ Protocol'
<1>1. PICK item \in {"markFinished", "defaultReason", "error"} :
        /\ Doing("main", item) /\ Done("main") /\ UNCHANGED fate /\ deltaSent' = deltaSent
        /\ UNCHANGED out \/ Write(Event("error", block, <<>>))
  BY DEF MarkFinished, DefaultReason, SendError, Silent, state
<1>2. /\ Writing /\ ~Before /\ MainsList /\ MainAt(item)
      /\ outcome \in {"done", "error", "failed"} /\ outcome' = outcome
  BY <1>1, MainsTurn DEF fate
<1>3. Protocol' /\ Begun' = Begun /\ Ended' = Ended /\ (DeltaSent' <=> DeltaSent)
  BY <1>1, <1>2, ErrorEvent
<1>4. Stopping
  BY <1>1, <1>2 DEF MainAt, Stopping
<1>5. Stopping'
  BY <1>1, <1>2, <1>3, <1>4 DEF Stopping, Between
<1>6. MainsList'
  BY <1>1, <1>2, MainsNext
<1>7. ASSUME todo'["main"] # <<>> PROVE MainAt(Head(todo["main"]))'
  <2>. DEFINE h == Head(todo["main"])
  <2>1. h' \in {"defaultReason", "lastDelta", "error", "finalDelta"}
    BY <1>1, <1>2, <1>7, MainsNext DEF DoneSteps, AbortSteps
  <2>. HIDE DEF h
  <2>2. MainAt(h)'
    BY <1>5, <2>1 DEF MainAt, Stopping
  <2>. QED BY <2>2 DEF h
<1>. QED BY <1>1, <1>2, <1>3, <1>6, <1>7, MainGoesOn

LEMMA LastDeltaCourse ==
    ASSUME EndInv, Sound, Calm, Course, Protocol, client' = client, LastDelta \/ FinalDelta
    PROVE  Course' /\ Protocol'
<1>1. PICK item \in {"lastDelta", "finalDelta"} :
        /\ Doing("main", item) /\ Done("main") /\ UNCHANGED fate
        /\ \/ item = "lastDelta" /\ deltaSent /\ wire' = wire
           \/ \E d : Write(Event("message_delta", block, d))
        /\ item = "lastDelta" /\ deltaSent => wire' = wire
  BY DEF LastDelta, FinalDelta, Silent, out
<1>2. /\ Writing /\ ~Before /\ MainsList /\ MainAt(item)
      /\ outcome \in {"done", "error", "failed"}
  BY <1>1, MainsTurn
<1>3. Stopping
  BY <1>1, <1>2 DEF MainAt, Stopping
<1>4. MainsList' /\ todo'["main"] # <<>>
      /\ <<item, Head(todo'["main"])>> \in IF outcome = "done" THEN DoneSteps ELSE AbortSteps
  BY <1>1, <1>2, MainsNext
<1>5. /\ Head(todo["main"])' = "messageStop"
      /\ item = "finalDelta" => ~DeltaSent
  BY <1>1, <1>3, <1>4 DEF DoneSteps, AbortSteps, Stopping
<1>6. Protocol' /\ Between' /\ DeltaSent'
  <2>1. CASE item = "lastDelta" /\ deltaSent
    BY <1>1, <1>2, <1>3, <2>1, NothingSent DEF Stopping, Between, Writing
  <2>2. CASE ~(item = "lastDelta" /\ deltaSent)
    <3>1. ~DeltaSent /\ \E d : Write(Event("message_delta", block, d))
      BY <1>1, <1>3, <1>5, <2>2 DEF Stopping
    <3>. QED BY <1>2, <1>3, <3>1, EndOfMessage DEF Stopping
  <2>. QED BY <2>1, <2>2
<1>. DEFINE h == Head(todo["main"])
<1>7. MainAt(h)'
  <2>1. h' = "messageStop"
    BY <1>5
  <2>. HIDE DEF h
  <2>. QED BY <1>6, <2>1 DEF MainAt
<1>. QED BY <1>1, <1>2, <1>4, <1>6, <1>7, MainGoesOn

LEMMA MessageStopCourse ==
    ASSUME EndInv, Sound, Calm, Course, Protocol, client' = client, MessageStop
    PROVE  Course' /\ Protocol'
<1>1. /\ Doing("main", "messageStop") /\ Done("main") /\ UNCHANGED fate
      /\ Write(Event("message_stop", block, <<>>))
  BY DEF MessageStop
<1>2. /\ Writing /\ ~Before /\ MainsList /\ MainAt("messageStop")
      /\ outcome \in {"done", "error", "failed"}
  BY <1>1, MainsTurn
<1>3. Protocol'
  BY <1>1, <1>2, LastEvent DEF MainAt
<1>4. MainsList' /\ todo'["main"] = <<>>
  BY <1>1, <1>2, MainsNext DEF DoneSteps, AbortSteps
<1>. QED BY <1>1, <1>2, <1>3, <1>4, MainGoesOn

-------------------------------------------------------------------------------
(* Every step, and the theorem                                                 *)

LEMMA IdleSteps ==
    ASSUME UNCHANGED vars
             \/ Connect \/ FirstData \/ Stalled \/ CheckFails \/ Select \/ TimeOut
             \/ ReturnFromHandler \/ ReadMalformed \/ Panic \/ ScannerFinish \/ CloseDone
             \/ (\E reason \in {"none", "error", "disconnected"} : ReadLast(reason))
             \/ Ping \/ HeartbeatExits \/ ContextDone
    PROVE  UNCHANGED <<todo, block, stopReason, deltaSent, wire>>
<1>1. CASE UNCHANGED vars \/ Ping \/ HeartbeatExits \/ ContextDone
  BY <1>1 DEF vars, Ping, HeartbeatExits, ContextDone, state, Silent, out
<1>2. CASE Connect \/ FirstData \/ Stalled \/ CheckFails \/ Select \/ TimeOut \/ ReturnFromHandler
  BY <1>2 DEF Connect, FirstData, Stalled, CheckFails, Select, TimeOut, ReturnFromHandler, state,
     Silent, out
<1>3. CASE ReadMalformed \/ Panic \/ ScannerFinish \/ CloseDone
             \/ \E reason \in {"none", "error", "disconnected"} : ReadLast(reason)
  BY <1>3 DEF ReadMalformed, Panic, ScannerFinish, CloseDone, ReadLast, state, Silent, out
<1>. QED BY <1>1, <1>2, <1>3

LEMMA WireStep ==
    ASSUME WireInv, Streaming
    PROVE  WireInv'
<1>1. EndInv' /\ Sound'
  BY EndStep, SoundStep DEF WireInv, Streaming
<1>2. SUFFICES ASSUME Calm' PROVE Course' /\ Protocol'
  BY <1>1 DEF WireInv
<1>3. EndInv /\ Sound /\ Calm /\ Course /\ Protocol /\ client' = client
  BY <1>2, CalmKept DEF WireInv
<1>4. CASE BeginEnding
  BY <1>3, <1>4, EndingCourse
<1>5. CASE /\ ~BeginEnding
           /\ UNCHANGED vars
                \/ Connect \/ FirstData \/ Stalled \/ CheckFails \/ Select \/ TimeOut
                \/ ReturnFromHandler \/ ReadMalformed \/ Panic \/ ScannerFinish \/ CloseDone
                \/ (\E reason \in {"none", "error", "disconnected"} : ReadLast(reason))
                \/ Ping \/ HeartbeatExits \/ ContextDone
  <2>1. UNCHANGED <<todo, block, stopReason, deltaSent, wire>>
    BY <1>5, IdleSteps
  <2>. QED BY <1>1, <1>2, <1>3, <1>5, <2>1, IdleCourse
<1>6. CASE StopHeartbeat \/ AwaitHeartbeat \/ Judge
  BY <1>3, <1>6, BeforeTheEnd
<1>7. CASE CloseBlock
  BY <1>3, <1>7, CloseCourse
<1>8. CASE Shared("main")
  BY <1>3, <1>8, ClosingCourse, ReportCourse DEF Shared
<1>9. CASE SendError \/ DefaultReason
  BY <1>3, <1>9, ReportCourse
<1>10. CASE LastDelta \/ FinalDelta
  BY <1>3, <1>10, LastDeltaCourse
<1>11. CASE MessageStop
  BY <1>3, <1>11, MessageStopCourse
<1>12. CASE \E k \in Chunks : ReadChunk(k)
  BY <1>3, <1>12, ReadCourse
<1>13. CASE Open \/ MarkStarted
  BY <1>3, <1>13, OpenCourse, MarkStartedCourse
<1>14. CASE DeliverContent \/ FinishReason
  BY <1>3, <1>14, DeliverCourse, FinishCourse
<1>15. CASE MessageDelta \/ MarkDelta
  BY <1>3, <1>15, MessageDeltaCourse, MarkDeltaCourse
<1>16. CASE Shared("scanner")
  BY <1>3, <1>16, EmptyArgsCourse, StopBlockCourse, MarkFinishedCourse DEF Shared
<1>17. ~ClientGoes
  BY <1>3 DEF ClientGoes
<1>. QED BY <1>4, <1>5, <1>6, <1>7, <1>8, <1>9, <1>10, <1>11, <1>12, <1>13, <1>14, <1>15, <1>16,
            <1>17 DEF Streaming, Next, MainStep, ScannerStep

LEMMA WireInit == Init => WireInv
<1>. SUFFICES ASSUME Init PROVE WireInv
  OBVIOUS
<1>1. EndInv /\ Sound
  BY EndInit, SoundInit
<1>2. /\ main = "connecting" /\ outcome = "none" /\ ready = {} /\ stopReason = "none"
      /\ deltaSent = FALSE /\ wire = <<>>
      /\ todo["scanner"] = <<>> /\ block.index = 0 /\ ~block.started /\ ~block.finished
  BY DEF Init
<1>3. \A e : Positions(e) = {}
  BY <1>2 DEF Positions
<1>4. Begun = 0 /\ Ended = 0 /\ ~DeltaSent
  BY <1>3, FS_EmptySet DEF Begun, Ended, DeltaSent
<1>5. Quiet
  BY <1>2, <1>4 DEF Quiet, Fresh
<1>6. Course /\ Protocol
  BY <1>2, <1>5 DEF Course, Before, Protocol
<1>. QED BY <1>1, <1>6 DEF WireInv

LEMMA Typed == ASSUME Lists, Sound PROVE TypeOK
<1>. USE StreamAssumption
<1>1. PlainTypes /\ InputTypes /\ BlockTypesHold /\ ToolTypes
  BY DEF Sound
<1>2. /\ input.chunk \in Chunks \union {NoChunk}
      /\ input.lines \in 0 .. MaxChunks /\ input.errors \in 0 .. MaxChunkErrors + 1
      /\ Len(input.next) \in 0 .. 1
  <2>1. /\ input.chunk \in Chunks \union {NoChunk} /\ input.lines \in Nat
        /\ input.errors \in Nat
    BY <1>1 DEF InputTypes, Inputs
  <2>. QED BY <1>1, <2>1 DEF InputTypes
<1>3. /\ block.type \in BlockTypes /\ block.index \in 0 .. MaxChunks
      /\ block.id \in Ids /\ block.owner \in Calls \union {0}
  <2>1. /\ block.type \in BlockTypes /\ block.index \in Nat
        /\ block.id \in Ids /\ block.owner \in Calls \union {0}
    BY <1>1 DEF BlockTypesHold, Blocks
  <2>. QED BY <1>1, <1>2, <2>1 DEF BlockTypesHold
<1>4. ASSUME NEW i \in Calls
      PROVE  /\ tools[i].id \in Ids
             /\ tools[i].buffer \in Seq({"args", "noArgs"})
             /\ tools[i].emitted \in 0 .. Len(tools[i].buffer)
  <2>1. tools[i] \in ToolCalls /\ tools[i].emitted <= Len(tools[i].buffer)
    BY <1>1 DEF ToolTypes
  <2>2. /\ tools[i].id \in Ids /\ tools[i].buffer \in Seq({"args", "noArgs"})
        /\ tools[i].emitted \in Nat
    BY <2>1 DEF ToolCalls
  <2>. QED BY <2>1, <2>2
<1>5. \A g \in {"scanner", "main"} : todo[g] \in Seq(Items)
  BY DEF Lists
<1>. QED BY <1>1, <1>2, <1>3, <1>4, <1>5 DEF TypeOK, PlainTypes

\* Whoever writes, what a client reads of a stream is well formed: unless main
\* has left the scanner behind by a timer, blocks are numbered and never
\* overlap, a delta or a stop belongs to the open block, and nothing but an
\* error comes after message_delta and nothing after message_stop; and no ping
\* is written after message_stop (ConsumeSSEStream, AbortSSEStream,
\* streaming_state.go, heartbeat.go).  For every upstream and every bound.
THEOREM StreamsAreWellFormed == Spec => []WireWellFormed
<1>1. WireInv /\ [Next]_vars => WireInv'
  BY WireStep DEF Streaming
<1>2. WireInv => WireWellFormed
  <2>. SUFFICES ASSUME WireInv PROVE WireWellFormed
    OBVIOUS
  <2>1. TypeOK
    BY Typed DEF WireInv, EndInv
  <2>2. NoPingAfterStop
    BY DEF WireInv, Sound, Hushed, NoPingAfterStop
  <2>3. Calm => WellFormed
    BY DEF WireInv, WellFormed
  <2>4. ~Stays => WellFormed
    BY DEF WireInv, Sound, Forgotten, WellFormed, Protocol
  <2>5. outcome = "timedOut" => WellFormed
    BY DEF WellFormed, ScannerLeftBehind
  <2>. QED BY <2>1, <2>2, <2>3, <2>4, <2>5 DEF WireWellFormed, Calm
<1>. QED BY <1>1, <1>2, WireInit, PTL DEF Spec

-------------------------------------------------------------------------------
(* The arguments of a call on their way to the client                          *)

\* The fragments of call i that are in its buffer and have been emitted.
Emitted(i) == {n \in ArgsOf(tools[i].buffer) : n <= tools[i].emitted}

\* The scanner has yet to deliver the content of the chunk in hand.
Delivering == \E n \in DOMAIN todo["scanner"] : todo["scanner"][n] = "deliver"

\* A buffer holds every fragment its call has been given, ...
AllBuffered == \A i \in Calls : Cardinality(ArgsOf(tools[i].buffer)) = input.given[i]

\* ... the client has received those that count as emitted, ...
EmittedReceived ==
    \A i \in Calls :
        IsFiniteSet(Delivered(i)) /\ Cardinality(Delivered(i)) = Cardinality(Emitted(i))

\* ... and of the call whose block is open these are all.
OpenCallEmitted ==
    ~Delivering /\ block.started /\ block.type = "tool_use"
        => Emitted(block.owner) = ArgsOf(tools[block.owner].buffer)

ArgsWell == AllBuffered /\ (Stays => EmittedReceived) /\ OpenCallEmitted

LEMMA ArgsFinite ==
    ASSUME NEW S, NEW s \in Seq(S)
    PROVE  /\ IsFiniteSet(ArgsOf(s)) /\ Cardinality(ArgsOf(s)) \in Nat
           /\ \A n \in ArgsOf(s) : n \in 1 .. Len(s)
<1>1. DOMAIN s = 1 .. Len(s) /\ Len(s) \in Nat
  OBVIOUS
<1>2. IsFiniteSet(1 .. Len(s)) /\ ArgsOf(s) \subseteq 1 .. Len(s)
  BY <1>1, FS_Interval DEF ArgsOf
<1>. QED BY <1>2, FS_Subset, FS_CardinalityType

\* What follows in a buffer adds its own fragments.
LEMMA ArgsAppended ==
    ASSUME NEW b \in Seq({"args", "noArgs"}), NEW k \in Nat
    PROVE  LET c == b \o [m \in 1 .. k |-> "args"] IN
           /\ Cardinality(ArgsOf(c)) = Cardinality(ArgsOf(b)) + k
           /\ \A n \in 1 .. Len(b) : n \in ArgsOf(c) <=> n \in ArgsOf(b)
<1>. DEFINE s == [m \in 1 .. k |-> "args"]
            c == b \o s
            new == Len(b) + 1 .. Len(b) + k
<1>1. s \in Seq({"args", "noArgs"}) /\ Len(s) = k /\ \A m \in 1 .. k : s[m] = "args"
  OBVIOUS
<1>. HIDE DEF s
<1>2. /\ Len(b) \in Nat /\ DOMAIN b = 1 .. Len(b) /\ DOMAIN c = 1 .. Len(b) + k
      /\ \A n \in 1 .. Len(b) : c[n] = b[n]
      /\ \A m \in 1 .. k : c[Len(b) + m] = s[m]
  BY <1>1
<1>. HIDE DEF c
<1>3. \A n \in new : c[n] = "args" /\ n \in DOMAIN c
  <2>. TAKE n \in new
  <2>1. n - Len(b) \in 1 .. k /\ Len(b) + (n - Len(b)) = n /\ n \in 1 .. Len(b) + k
    BY <1>2
  <2>. QED BY <1>1, <1>2, <2>1
<1>4. \A n \in 1 .. Len(b) : n \in ArgsOf(c) <=> n \in ArgsOf(b)
  BY <1>2 DEF ArgsOf
<1>5. ArgsOf(c) = ArgsOf(b) \cup new
  <2>1. \A n \in DOMAIN c : n \in 1 .. Len(b) \/ n \in new
    BY <1>2
  <2>2. \A n : n \in ArgsOf(c) <=> n \in ArgsOf(b) \/ n \in new
    BY <1>2, <1>3, <1>4, <2>1 DEF ArgsOf
  <2>. QED BY <2>2
<1>6. IsFiniteSet(new) /\ Cardinality(new) = k
  BY <1>2, FS_Interval
<1>7. ArgsOf(b) \cap new = {}
  BY <1>2 DEF ArgsOf
<1>8. Cardinality(ArgsOf(b) \cup new) = Cardinality(ArgsOf(b)) + k
  <2>1. IsFiniteSet(ArgsOf(b)) /\ Cardinality(ArgsOf(b)) \in Nat
    BY ArgsFinite
  <2>. HIDE DEF new
  <2>2. Cardinality(ArgsOf(b) \cup new)
          = Cardinality(ArgsOf(b)) + Cardinality(new) - Cardinality(ArgsOf(b) \cap new)
    BY <1>6, <2>1, FS_Union
  <2>3. Cardinality(ArgsOf(b) \cap new) = 0
    BY <1>7, FS_EmptySet
  <2>. QED BY <1>6, <2>1, <2>2, <2>3
<1>. QED BY <1>4, <1>5, <1>8 DEF c, s

\* What is left of a buffer after its first m entries.
LEMMA ArgsPending ==
    ASSUME NEW b \in Seq({"args", "noArgs"}), NEW m \in 0 .. Len(b)
    PROVE  LET p == SubSeq(b, m + 1, Len(b))
               old == {n \in ArgsOf(b) : n <= m} IN
           /\ IsFiniteSet(ArgsOf(p)) /\ Cardinality(ArgsOf(p)) \in Nat
           /\ Cardinality(old) \in Nat
           /\ Cardinality(ArgsOf(b)) = Cardinality(old) + Cardinality(ArgsOf(p))
           /\ p = <<>> => ArgsOf(p) = {}
<1>. DEFINE p == SubSeq(b, m + 1, Len(b))
            old == {n \in ArgsOf(b) : n <= m}
            late == {n \in ArgsOf(b) : n > m}
<1>1. Len(b) \in Nat /\ DOMAIN b = 1 .. Len(b) /\ m \in Nat /\ m <= Len(b)
  OBVIOUS
<1>2. /\ p \in Seq({"args", "noArgs"}) /\ DOMAIN p = 1 .. Len(b) - m
      /\ \A n \in 1 .. Len(b) - m : p[n] = b[n + m]
  <2>1. /\ p \in Seq({"args", "noArgs"}) /\ Len(p) = Len(b) - m
        /\ \A n \in 1 .. Len(p) : p[n] = b[(m + 1) + n - 1]
    BY <1>1, SMTT(30)
  <2>. HIDE DEF p
  <2>2. DOMAIN p = 1 .. Len(p) /\ \A n \in 1 .. Len(p) : (m + 1) + n - 1 = n + m
    BY <1>1, <2>1
  <2>. QED BY <2>1, <2>2
<1>. HIDE DEF p
<1>3. IsFiniteSet(ArgsOf(p)) /\ Cardinality(ArgsOf(p)) \in Nat /\ IsFiniteSet(ArgsOf(b))
  BY <1>2, ArgsFinite
<1>4. Cardinality(late) = Cardinality(ArgsOf(p))
  <2>. DEFINE f == [n \in ArgsOf(p) |-> n + m]
  <2>1. \A n \in ArgsOf(p) : n \in Int /\ n \in 1 .. Len(b) - m /\ b[n + m] = "args"
    BY <1>1, <1>2 DEF ArgsOf
  <2>2. \A n \in ArgsOf(p) : n + m \in late
    BY <1>1, <2>1 DEF ArgsOf
  <2>3. \A n \in late : n - m \in ArgsOf(p) /\ (n - m) + m = n
    <3>. TAKE n \in late
    <3>1. n \in 1 .. Len(b) /\ n > m /\ b[n] = "args"
      BY <1>1 DEF ArgsOf
    <3>2. n - m \in 1 .. Len(b) - m /\ (n - m) + m = n
      BY <1>1, <3>1
    <3>3. p[n - m] = b[(n - m) + m]
      BY <1>2, <3>2
    <3>. QED BY <1>2, <3>1, <3>2, <3>3 DEF ArgsOf
  <2>. HIDE DEF late
  <2>4. f \in [ArgsOf(p) -> late]
    BY <2>2
  <2>5. \A x, y \in ArgsOf(p) : f[x] = f[y] => x = y
    BY <1>1, <2>1
  <2>6. \A n \in late : \E x \in ArgsOf(p) : f[x] = n
    <3>. TAKE n \in late
    <3>1. f[n - m] = n
      BY <2>3
    <3>. QED BY <2>3, <3>1
  <2>. HIDE DEF f
  <2>7. f \in Bijection(ArgsOf(p), late)
    BY <2>4, <2>5, <2>6 DEF Bijection, Injection, Surjection, IsInjective
  <2>8. ExistsBijection(ArgsOf(p), late)
    BY <2>7 DEF ExistsBijection
  <2>. QED BY <1>3, <2>8, FS_Bijection
<1>5. /\ IsFiniteSet(old) /\ IsFiniteSet(late) /\ Cardinality(old) \in Nat
      /\ Cardinality(late) \in Nat
  <2>1. old \subseteq ArgsOf(b) /\ late \subseteq ArgsOf(b)
    OBVIOUS
  <2>. HIDE DEF old, late
  <2>2. IsFiniteSet(old) /\ IsFiniteSet(late)
    BY <1>3, <2>1, FS_Subset
  <2>. QED BY <2>2, FS_CardinalityType
<1>6. ArgsOf(b) = old \cup late /\ old \cap late = {}
  BY <1>1 DEF ArgsOf
<1>7. Cardinality(ArgsOf(b)) = Cardinality(old) + Cardinality(late)
  <2>. HIDE DEF old, late
  <2>1. Cardinality(old \cup late)
          = Cardinality(old) + Cardinality(late) - Cardinality(old \cap late)
    BY <1>5, FS_Union
  <2>2. Cardinality(old \cap late) = 0
    BY <1>6, FS_EmptySet
  <2>. QED BY <1>5, <1>6, <2>1, <2>2
<1>8. p = <<>> => ArgsOf(p) = {}
  BY DEF ArgsOf
<1>. QED BY <1>3, <1>4, <1>5, <1>7, <1>8 DEF p

-------------------------------------------------------------------------------
(* What a step adds to what a client has received of a call                    *)

\* A fragment in a wire w, as a pair.
InWire(w, i, d) ==
    \E p \in DOMAIN w : /\ w[p].event = "delta" /\ w[p].owner = i
                        /\ \E n \in ArgsOf(w[p].data) : d = <<p, n>>

LEMMA PairsInWire ==
    ASSUME NEW w, NEW i, NEW d
    PROVE  d \in UNION {{p} \X ArgsOf(w[p].data) :
                            p \in {q \in {r \in DOMAIN w : w[r].event = "delta"} : w[q].owner = i}}
              <=> InWire(w, i, d)
<1>1. \A p : d \in {p} \X ArgsOf(w[p].data) <=> \E n \in ArgsOf(w[p].data) : d = <<p, n>>
  OBVIOUS
<1>. QED BY <1>1 DEF InWire

LEMMA DeliveredPairs ==
    ASSUME NEW i, NEW d
    PROVE  /\ d \in Delivered(i) <=> InWire(wire, i, d)
           /\ d \in Delivered(i)' <=> InWire(wire', i, d)
<1>. DEFINE set(w) == UNION {{p} \X ArgsOf(w[p].data) :
                       p \in {q \in {r \in DOMAIN w : w[r].event = "delta"} : w[q].owner = i}}
<1>1. Delivered(i) = set(wire)
  BY DEF Delivered, Positions
<1>2. Delivered(i)' = set(wire')
  BY DEF Delivered, Positions, ArgsOf
<1>3. \A w : d \in set(w) <=> InWire(w, i, d)
  BY PairsInWire
<1>. HIDE DEF set
<1>. QED BY <1>1, <1>2, <1>3

\* An event adds its own fragments to those of its call, and no others.
LEMMA DeliveredAdds ==
    ASSUME Lists, NEW e, wire' = Append(wire, e), NEW i
    PROVE  LET new == {Len(wire) + 1} \X ArgsOf(e.data) IN
           /\ Delivered(i)' = IF e.event = "delta" /\ e.owner = i
                              THEN Delivered(i) \cup new ELSE Delivered(i)
           /\ Delivered(i) \cap new = {}
<1>. DEFINE new == {Len(wire) + 1} \X ArgsOf(e.data)
<1>1. /\ DOMAIN wire = 1 .. Len(wire) /\ Len(wire) \in Nat
      /\ DOMAIN wire' = 1 .. Len(wire) + 1
      /\ \A p \in DOMAIN wire : wire'[p] = wire[p]
      /\ wire'[Len(wire) + 1] = e
  BY AppendFacts DEF Lists
<1>2. \A p : p \in DOMAIN wire' <=> p \in DOMAIN wire \/ p = Len(wire) + 1
  BY <1>1
<1>3. Len(wire) + 1 \notin DOMAIN wire
  BY <1>1
<1>4. \A d : d \in new <=> \E n \in ArgsOf(e.data) : d = <<Len(wire) + 1, n>>
  OBVIOUS
<1>. HIDE DEF new
<1>5. \A d : d \in Delivered(i) <=> InWire(wire, i, d)
  BY DeliveredPairs
<1>6. \A d : d \in Delivered(i)' <=> \/ d \in Delivered(i)
                                    \/ (e.event = "delta" /\ e.owner = i /\ d \in new)
  <2>. TAKE d
  <2>. DEFINE In(w, p) == /\ w[p].event = "delta" /\ w[p].owner = i
                         /\ \E n \in ArgsOf(w[p].data) : d = <<p, n>>
  <2>1. \A p \in DOMAIN wire : In(wire', p) <=> In(wire, p)
    BY <1>1
  <2>2. In(wire', Len(wire) + 1) <=> e.event = "delta" /\ e.owner = i /\ d \in new
    BY <1>1, <1>4
  <2>3. d \in Delivered(i)' <=> \E p \in DOMAIN wire' : In(wire', p)
    BY DeliveredPairs DEF InWire
  <2>4. d \in Delivered(i) <=> \E p \in DOMAIN wire : In(wire, p)
    BY DeliveredPairs DEF InWire
  <2>. HIDE DEF In
  <2>. QED BY <1>2, <2>1, <2>2, <2>3, <2>4
<1>7. \A d : ~(d \in Delivered(i) /\ d \in new)
  BY <1>3, <1>4, <1>5 DEF InWire
<1>8. Delivered(i)' = IF e.event = "delta" /\ e.owner = i
                     THEN Delivered(i) \cup new ELSE Delivered(i)
  <2>1. CASE e.event = "delta" /\ e.owner = i
    <3>1. \A d : d \in Delivered(i)' <=> d \in Delivered(i) \cup new
      BY <1>6, <2>1
    <3>. QED BY <2>1, <3>1
  <2>2. CASE ~(e.event = "delta" /\ e.owner = i)
    <3>1. \A d : d \in Delivered(i)' <=> d \in Delivered(i)
      BY <1>6, <2>2
    <3>. QED BY <2>2, <3>1
  <2>. QED BY <2>1, <2>2
<1>. QED BY <1>7, <1>8 DEF new

LEMMA DeliveredMore ==
    ASSUME Lists, NEW e, wire' = Append(wire, e), NEW i, IsFiniteSet(Delivered(i)),
           e.event = "delta", e.owner = i, IsFiniteSet(ArgsOf(e.data))
    PROVE  /\ IsFiniteSet(Delivered(i)')
           /\ Cardinality(Delivered(i)') = Cardinality(Delivered(i)) + Cardinality(ArgsOf(e.data))
<1>. DEFINE l == {Len(wire) + 1}
            a == ArgsOf(e.data)
            new == l \X a
            old == Delivered(i)
<1>1. Delivered(i)' = old \cup new /\ old \cap new = {}
  BY DeliveredAdds
<1>2. IsFiniteSet(l) /\ Cardinality(l) = 1 /\ IsFiniteSet(a) /\ IsFiniteSet(old)
  BY FS_Singleton
<1>. HIDE DEF l, a, old
<1>3. IsFiniteSet(new) /\ Cardinality(new) = 1 * Cardinality(a)
  BY <1>2, FS_Product
<1>4. Cardinality(a) \in Nat /\ Cardinality(old) \in Nat
  BY <1>2, FS_CardinalityType
<1>. HIDE DEF new
<1>5. /\ IsFiniteSet(old \cup new)
      /\ Cardinality(old \cup new) = Cardinality(old) + Cardinality(new) - Cardinality(old \cap new)
  BY <1>2, <1>3, FS_Union
<1>6. Cardinality(old \cap new) = 0
  BY <1>1, FS_EmptySet
<1>7. Cardinality(old \cup new) = Cardinality(old) + Cardinality(a)
  BY <1>3, <1>4, <1>5, <1>6
<1>. QED BY <1>1, <1>5, <1>7 DEF old, a

\* No step but a flush writes an event with fragments in it.
Bare(e) == e.event # "delta" \/ ArgsOf(e.data) = {}

LEMMA BareText == \A x, b : x # "args" => Bare(Event("delta", b, <<x>>))
BY DEF Bare, Event, ArgsOf

LEMMA BareOthers ==
    \A x, b, d : x \in {"block_start", "block_stop", "message_delta", "message_stop", "error"}
                    => Bare(Event(x, b, d))
BY DEF Bare, Event

LEMMA WritesBare ==
    ASSUME Streaming, ~(DeliverContent /\ FlushToolCallArgs)
    PROVE  \/ UNCHANGED <<wire, client>>
           \/ ClientGoes
           \/ client' = client /\ \E e : Bare(e) /\ Write(e)
<1>1. CASE UNCHANGED vars
  BY <1>1 DEF vars
<1>2. CASE Connect \/ FirstData \/ Stalled \/ CheckFails \/ Select \/ TimeOut \/ BeginEnding
             \/ StopHeartbeat \/ AwaitHeartbeat \/ CloseBlock \/ DefaultReason \/ ReturnFromHandler
  BY <1>2 DEF Connect, FirstData, Stalled, CheckFails, Select, TimeOut, BeginEnding,
     StopHeartbeat, AwaitHeartbeat, CloseBlock, DefaultReason, ReturnFromHandler, Silent, out, link
<1>3. CASE Judge \/ SendError \/ LastDelta \/ FinalDelta \/ MessageStop \/ MessageDelta \/ Open
  <2>1. client' = client
    BY <1>3 DEF Judge, SendError, LastDelta, FinalDelta, MessageStop, MessageDelta, Open, link
  <2>2. UNCHANGED out
        \/ \E x \in {"block_start", "message_delta", "message_stop", "error"} : \E b, d :
              Write(Event(x, b, d))
    BY <1>3 DEF Judge, SendError, LastDelta, FinalDelta, MessageStop, MessageDelta, Open,
       OpenBlock, Silent
  <2>. QED BY <2>1, <2>2, BareOthers DEF out
<1>4. CASE DeliverContent
  <2>1. client' = client /\ (DeliverText \/ DeliverThinking)
    BY <1>4 DEF DeliverContent, link
  <2>2. UNCHANGED out \/ Write(Event("delta", block, <<"text">>))
                      \/ Write(Event("delta", block, <<"thinking">>))
    BY <2>1 DEF DeliverText, DeliverThinking, Silent
  <2>3. Bare(Event("delta", block, <<"text">>)) /\ Bare(Event("delta", block, <<"thinking">>))
    BY BareText
  <2>. QED BY <2>1, <2>2, <2>3 DEF out
<1>5. ASSUME NEW g, Shared(g) PROVE client' = client /\ (wire' = wire \/ \E e : Bare(e) /\ Write(e))
  <2>1. client' = client
    BY <1>5 DEF Shared, EmitEmptyToolArgs, StopBlock, MarkFinished, link
  <2>2. UNCHANGED out \/ Write(Event("delta", block, <<"noArgs">>))
                      \/ Write(Event("block_stop", block, <<>>))
    BY <1>5 DEF Shared, EmitEmptyToolArgs, StopBlock, MarkFinished, Silent
  <2>3. Bare(Event("delta", block, <<"noArgs">>)) /\ Bare(Event("block_stop", block, <<>>))
    BY BareText, BareOthers
  <2>. QED BY <2>1, <2>2, <2>3 DEF out
<1>6. CASE \/ ReadMalformed \/ Panic \/ ScannerFinish \/ CloseDone \/ MarkStarted \/ FinishReason
           \/ MarkDelta \/ \E k \in Chunks : ReadChunk(k)
           \/ \E reason \in {"none", "error", "disconnected"} : ReadLast(reason)
  BY <1>6 DEF ReadMalformed, Panic, ScannerFinish, CloseDone, MarkStarted, FinishReason,
     MarkDelta, ReadChunk, ReadLast, Silent, out, link
<1>7. CASE Ping \/ HeartbeatExits \/ ContextDone
  BY <1>7 DEF Ping, HeartbeatExits, ContextDone, Silent, out, link
<1>. QED BY <1>1, <1>2, <1>3, <1>4, <1>5, <1>6, <1>7
         DEF Streaming, Next, MainStep, ScannerStep

-------------------------------------------------------------------------------
(* What a step does to the buffers                                             *)

\* The buffers a step leaves alone but for an argument the converter makes up.
LEMMA BuffersKept ==
    ASSUME Lists, Sound, Streaming, ~ \E k \in Chunks : ReadChunk(k), NEW i \in Calls
    PROVE  /\ ArgsOf(tools'[i].buffer) = ArgsOf(tools[i].buffer)
           /\ input'.given = input.given
           /\ ~(DeliverContent /\ FlushToolCallArgs) => tools'[i].emitted = tools[i].emitted
<1>0. /\ InputTypes /\ BlockTypesHold /\ ToolTypes /\ ScannersList
      /\ tools \in [Calls -> ToolCalls]
  BY DEF Sound, ToolTypes
<1>1. input'.given = input.given
  <2>1. CASE input' = input
    BY <2>1
  <2>2. CASE ReadMalformed
    BY <1>0, <2>2 DEF ReadMalformed, InputTypes, Inputs
  <2>. QED BY <2>1, <2>2, InputChanges
<1>2. CASE tools' = tools
  BY <1>1, <1>2
<1>3. CASE Open
  <2>1. PICK n \in 0 .. MaxChunks, s \in BOOLEAN : OpenBlock(n, s) /\ OfCall(input.next[1])
    BY <1>0, <1>3, OpenFacts
  <2>2. \/ tools' = tools
        \/ \E w \in Calls : \E d : tools' = [tools EXCEPT ![w] = [tools[w] EXCEPT !.id = d]]
    BY <2>1 DEF OpenBlock, OfCall
  <2>3. ASSUME NEW w \in Calls, NEW d, tools' = [tools EXCEPT ![w] = [tools[w] EXCEPT !.id = d]]
        PROVE  tools'[i].buffer = tools[i].buffer /\ tools'[i].emitted = tools[i].emitted
    <3>1. PICK q : q = tools[w] /\ q \in ToolCalls
      BY <1>0
    <3>2. [q EXCEPT !.id = d].buffer = q.buffer /\ [q EXCEPT !.id = d].emitted = q.emitted
      BY <3>1 DEF ToolCalls
    <3>3. tools' = [tools EXCEPT ![w] = [q EXCEPT !.id = d]]
      BY <2>3, <3>1
    <3>. QED BY <1>0, <3>1, <3>2, <3>3
  <2>. QED BY <1>1, <1>2, <2>2, <2>3
<1>4. CASE DeliverContent /\ FlushToolCallArgs
  <2>. DEFINE o == block.owner
              l == Len(tools[o].buffer)
  <2>1. o \in Calls /\ tools' = [tools EXCEPT ![o] = [tools[o] EXCEPT !.emitted = l]]
    BY <1>0, <1>4 DEF FlushToolCallArgs, BlockTypesHold, OfCall
  <2>. HIDE DEF o, l
  <2>2. PICK q : q = tools[o] /\ q \in ToolCalls
    BY <1>0, <2>1
  <2>3. [q EXCEPT !.emitted = l].buffer = q.buffer
    BY <2>2 DEF ToolCalls
  <2>4. tools' = [tools EXCEPT ![o] = [q EXCEPT !.emitted = l]]
    BY <2>1, <2>2
  <2>. QED BY <1>0, <1>1, <1>4, <2>1, <2>2, <2>3, <2>4
<1>5. CASE DeliverContent /\ ~FlushToolCallArgs
  BY <1>2, <1>5 DEF DeliverContent, DeliverText, DeliverThinking
<1>6. ASSUME NEW g, EmitEmptyToolArgs(g), tools' # tools
      PROVE  ArgsOf(tools'[i].buffer) = ArgsOf(tools[i].buffer)
             /\ tools'[i].emitted = tools[i].emitted
  <2>. DEFINE own == {j \in Calls : tools[j].known /\ tools[j].id = block.id}
  <2>1. /\ \A j \in own : tools[j].buffer = <<>>
        /\ tools' = [j \in Calls |-> IF j \in own THEN [tools[j] EXCEPT !.buffer = <<"noArgs">>]
                                     ELSE tools[j]]
    BY <1>6 DEF EmitEmptyToolArgs
  <2>2. PICK q : q = tools[i] /\ q \in ToolCalls
    BY <1>0
  <2>3. tools'[i] = IF i \in own THEN [q EXCEPT !.buffer = <<"noArgs">>] ELSE q
    BY <2>1, <2>2
  <2>4. i \in own => q.buffer = <<>>
    BY <2>1, <2>2
  <2>5. /\ [q EXCEPT !.buffer = <<"noArgs">>].buffer = <<"noArgs">>
        /\ [q EXCEPT !.buffer = <<"noArgs">>].emitted = q.emitted
    BY <2>2 DEF ToolCalls
  <2>6. ArgsOf(<<"noArgs">>) = ArgsOf(<<>>)
    BY DEF ArgsOf
  <2>. HIDE DEF own
  <2>. QED BY <2>2, <2>3, <2>4, <2>5, <2>6
<1>. QED BY <1>1, <1>2, <1>3, <1>4, <1>5, <1>6, ToolsChange

LEMMA BuffersRead ==
    ASSUME Lists, Sound, NEW k \in Chunks, ReadChunk(k), NEW i \in Calls
    PROVE  LET new == Cardinality(Fragments(k.calls, i)) IN
           /\ new \in Nat
           /\ tools'[i].buffer = tools[i].buffer \o [m \in 1 .. new |-> "args"]
           /\ tools'[i].emitted = tools[i].emitted
           /\ input'.given[i] = input.given[i] + new
<1>1. k.calls \in Seq(CallDeltas)
  BY CallDeltasTyped
<1>2. Cardinality(Fragments(k.calls, i)) \in Nat
  BY <1>1, FragmentsFinite
<1>3. /\ tools'[i].buffer = tools[i].buffer \o InOrder(Fragments(k.calls, i))
      /\ tools'[i].emitted = tools[i].emitted
  <2>. DEFINE a == Accumulated(k.calls)
  <2>1. /\ a[i].buffer = tools[i].buffer \o InOrder(Fragments(k.calls, i))
        /\ a[i].emitted = tools[i].emitted
    BY DEF Accumulated
  <2>2. tools' = a
    BY DEF ReadChunk
  <2>. QED BY <2>1, <2>2
<1>4. input'.given[i] = input.given[i] + Cardinality(Fragments(k.calls, i))
  <2>. DEFINE given == [j \in Calls |-> input.given[j] + Cardinality(Fragments(k.calls, j))]
  <2>1. input' = [input EXCEPT !.chunk = k, !.next = NextBlock(k), !.lines = @ + 1,
                               !.given = given]
    BY DEF ReadChunk, Read
  <2>2. given[i] = input.given[i] + Cardinality(Fragments(k.calls, i))
    OBVIOUS
  <2>. HIDE DEF given
  <2>3. input'.given = given
    BY <2>1 DEF Sound, InputTypes, Inputs
  <2>. QED BY <2>2, <2>3
<1>. QED BY <1>2, <1>3, <1>4 DEF InOrder

LEMMA AllBufferedStep ==
    ASSUME Lists, Sound, AllBuffered, Streaming
    PROVE  AllBuffered'
<1>. SUFFICES ASSUME NEW i \in Calls
              PROVE  Cardinality(ArgsOf(tools'[i].buffer)) = input'.given[i]
  BY DEF AllBuffered, ArgsOf
<1>1. Cardinality(ArgsOf(tools[i].buffer)) = input.given[i]
  BY DEF AllBuffered
<1>2. CASE ~ \E k \in Chunks : ReadChunk(k)
  BY <1>1, <1>2, BuffersKept
<1>3. ASSUME NEW k \in Chunks, ReadChunk(k)
      PROVE  Cardinality(ArgsOf(tools'[i].buffer)) = input'.given[i]
  <2>. DEFINE new == Cardinality(Fragments(k.calls, i))
  <2>1. /\ new \in Nat
        /\ tools'[i].buffer = tools[i].buffer \o [m \in 1 .. new |-> "args"]
        /\ input'.given[i] = input.given[i] + new
    BY <1>3, BuffersRead
  <2>2. tools[i].buffer \in Seq({"args", "noArgs"})
    BY DEF Sound, ToolTypes, ToolCalls
  <2>. HIDE DEF new
  <2>3. Cardinality(ArgsOf(tools[i].buffer \o [m \in 1 .. new |-> "args"]))
          = Cardinality(ArgsOf(tools[i].buffer)) + new
    BY <2>1, <2>2, ArgsAppended
  <2>. QED BY <1>1, <2>1, <2>3
<1>. QED BY <1>2, <1>3

\* The fragments that count as emitted stay, but for a flush.
LEMMA EmittedKept ==
    ASSUME Lists, Sound, Streaming, ~(DeliverContent /\ FlushToolCallArgs), NEW i \in Calls
    PROVE  Emitted(i)' = Emitted(i)
<1>0. /\ tools[i].buffer \in Seq({"args", "noArgs"}) /\ tools[i].emitted \in Nat
      /\ tools[i].emitted <= Len(tools[i].buffer)
  BY DEF Sound, ToolTypes, ToolCalls
<1>1. Emitted(i)' = {n \in ArgsOf(tools'[i].buffer) : n <= tools'[i].emitted}
  BY DEF Emitted, ArgsOf
<1>2. CASE ~ \E k \in Chunks : ReadChunk(k)
  <2>1. ArgsOf(tools'[i].buffer) = ArgsOf(tools[i].buffer) /\ tools'[i].emitted = tools[i].emitted
    BY <1>2, BuffersKept
  <2>. QED BY <1>1, <2>1 DEF Emitted
<1>3. ASSUME NEW k \in Chunks, ReadChunk(k)
      PROVE  Emitted(i)' = Emitted(i)
  <2>. DEFINE new == Cardinality(Fragments(k.calls, i))
              b == tools[i].buffer
              c == b \o [m \in 1 .. new |-> "args"]
  <2>1. new \in Nat /\ tools'[i].buffer = c /\ tools'[i].emitted = tools[i].emitted
    BY <1>3, BuffersRead
  <2>2. b \in Seq({"args", "noArgs"})
    BY <1>0
  <2>. HIDE DEF new
  <2>3. \A n \in 1 .. Len(b) : n \in ArgsOf(c) <=> n \in ArgsOf(b)
    BY <2>1, <2>2, ArgsAppended
  <2>4. c \in Seq({"args", "noArgs"})
    BY <2>1, <2>2, Appended
  <2>5. (\A n \in ArgsOf(b) : n \in 1 .. Len(b)) /\ (\A n \in ArgsOf(c) : n \in 1 .. Len(c))
    BY <2>2, <2>4, ArgsFinite
  <2>6. Len(b) \in Nat /\ tools[i].emitted \in Nat /\ tools[i].emitted <= Len(b)
    BY <1>0, <2>2
  <2>. HIDE DEF b, c
  <2>7. \A n : n \in ArgsOf(c) /\ n <= tools[i].emitted <=> n \in ArgsOf(b) /\ n <= tools[i].emitted
    BY <2>3, <2>5, <2>6
  <2>8. Emitted(i) = {n \in ArgsOf(b) : n <= tools[i].emitted}
    BY DEF Emitted, b
  <2>9. Emitted(i)' = {n \in ArgsOf(c) : n <= tools[i].emitted}
    BY <1>1, <2>1
  <2>. QED BY <2>7, <2>8, <2>9
<1>. QED BY <1>2, <1>3

\* A flush emits what the buffer of the open block's call holds.
LEMMA Flushed ==
    ASSUME Lists, Sound, DeliverContent, FlushToolCallArgs
    PROVE  LET o == block.owner
               b == tools[o].buffer
               p == SubSeq(b, tools[o].emitted + 1, Len(b)) IN
           /\ o \in Calls /\ b \in Seq({"args", "noArgs"}) /\ tools[o].emitted \in 0 .. Len(b)
           /\ tools'[o].buffer = b /\ \A i \in Calls : i = o => Emitted(i)' = ArgsOf(b)
           /\ \A i \in Calls \ {o} : tools'[i] = tools[i]
           /\ IF p = <<>> THEN Silent ELSE Write(Event("delta", block, p))
           /\ client' = client
<1>. DEFINE o == block.owner
            l == Len(tools[o].buffer)
<1>1. /\ o \in Calls /\ tools' = [tools EXCEPT ![o] = [tools[o] EXCEPT !.emitted = l]]
      /\ client' = client
  BY DEF FlushToolCallArgs, DeliverContent, Sound, BlockTypesHold, OfCall, link
<1>2. tools \in [Calls -> ToolCalls] /\ tools[o].emitted <= Len(tools[o].buffer)
  BY <1>1 DEF Sound, ToolTypes
<1>3. IF SubSeq(tools[o].buffer, tools[o].emitted + 1, l) = <<>> THEN Silent
      ELSE Write(Event("delta", block, SubSeq(tools[o].buffer, tools[o].emitted + 1, l)))
  BY DEF FlushToolCallArgs
<1>. HIDE DEF o
<1>4. PICK q : q = tools[o] /\ q \in ToolCalls
  BY <1>1, <1>2
<1>5. q.buffer \in Seq({"args", "noArgs"}) /\ q.emitted \in 0 .. Len(q.buffer) /\ l \in Nat
  BY <1>2, <1>4 DEF ToolCalls
<1>. HIDE DEF l
<1>6. [q EXCEPT !.emitted = l].buffer = q.buffer /\ [q EXCEPT !.emitted = l].emitted = l
  BY <1>4 DEF ToolCalls
<1>7. tools' = [tools EXCEPT ![o] = [q EXCEPT !.emitted = l]]
  BY <1>1, <1>4
<1>8. /\ tools'[o].buffer = q.buffer /\ tools'[o].emitted = l
      /\ \A i \in Calls \ {o} : tools'[i] = tools[i]
  BY <1>1, <1>2, <1>6, <1>7
<1>9. \A i : Emitted(i)' = {n \in ArgsOf(tools'[i].buffer) : n <= tools'[i].emitted}
  BY DEF Emitted, ArgsOf
<1>10. \A n \in ArgsOf(q.buffer) : n <= l
  <2>1. \A n \in ArgsOf(q.buffer) : n \in 1 .. Len(q.buffer)
    BY <1>5, ArgsFinite
  <2>. QED BY <1>4, <1>5, <2>1 DEF l
<1>11. \A i \in Calls : i = o => Emitted(i)' = ArgsOf(q.buffer)
  BY <1>8, <1>9, <1>10
<1>. QED BY <1>1, <1>3, <1>4, <1>5, <1>8, <1>11 DEF o, l

LEMMA SameWire ==
    ASSUME wire' = wire, NEW i
    PROVE  Delivered(i)' = Delivered(i)
BY DEF Delivered, Positions, ArgsOf

LEMMA ReceivedFlush ==
    ASSUME Lists, Unbroken, Sound, EmittedReceived, DeliverContent, FlushToolCallArgs, Stays,
           NEW i \in Calls
    PROVE  IsFiniteSet(Delivered(i)') /\ Cardinality(Delivered(i)') = Cardinality(Emitted(i)')
<1>0. /\ block.owner \in Calls /\ tools[block.owner].buffer \in Seq({"args", "noArgs"})
      /\ tools[block.owner].emitted \in 0 .. Len(tools[block.owner].buffer)
  BY Flushed
<1>1. PICK o \in Calls, b \in Seq({"args", "noArgs"}), m \in Nat :
        /\ o = block.owner /\ b = tools[o].buffer /\ m = tools[o].emitted
        /\ m \in 0 .. Len(b)
        /\ tools'[o].buffer = b /\ Emitted(o)' = ArgsOf(b)
        /\ \A j \in Calls \ {o} : tools'[j] = tools[j]
        /\ IF SubSeq(b, m + 1, Len(b)) = <<>> THEN Silent
           ELSE Write(Event("delta", block, SubSeq(b, m + 1, Len(b))))
        /\ client' = client
  BY <1>0, Flushed
<1>. DEFINE p == SubSeq(b, m + 1, Len(b))
<1>2. /\ IsFiniteSet(ArgsOf(p)) /\ Cardinality(ArgsOf(p)) \in Nat
      /\ Cardinality(Emitted(o)) \in Nat
      /\ Cardinality(ArgsOf(b)) = Cardinality(Emitted(o)) + Cardinality(ArgsOf(p))
      /\ p = <<>> => ArgsOf(p) = {}
  <2>. DEFINE old == {n \in ArgsOf(b) : n <= m}
  <2>1. Emitted(o) = old
    BY <1>1 DEF Emitted
  <2>2. m \in 0 .. Len(b)
    BY <1>1
  <2>3. /\ IsFiniteSet(ArgsOf(p)) /\ Cardinality(ArgsOf(p)) \in Nat
        /\ Cardinality(old) \in Nat
        /\ Cardinality(ArgsOf(b)) = Cardinality(old) + Cardinality(ArgsOf(p))
        /\ p = <<>> => ArgsOf(p) = {}
    BY <2>2, ArgsPending
  <2>. HIDE DEF old, p
  <2>. QED BY <2>1, <2>3
<1>3. /\ IsFiniteSet(Delivered(o)) /\ Cardinality(Delivered(o)) = Cardinality(Emitted(o))
      /\ IsFiniteSet(Delivered(i)) /\ Cardinality(Delivered(i)) = Cardinality(Emitted(i))
  BY DEF EmittedReceived
<1>4. i # o => Emitted(i)' = Emitted(i)
  <2>1. Emitted(i)' = {n \in ArgsOf(tools'[i].buffer) : n <= tools'[i].emitted}
    BY DEF Emitted, ArgsOf
  <2>2. i # o => tools'[i] = tools[i]
    BY <1>1
  <2>. QED BY <2>1, <2>2 DEF Emitted
<1>5. CASE p = <<>>
  <2>1. Delivered(i)' = Delivered(i)
    BY <1>1, <1>5, SameWire DEF Silent, out
  <2>2. Cardinality(ArgsOf(p)) = 0
    BY <1>2, <1>5, FS_EmptySet
  <2>3. Cardinality(ArgsOf(b)) = Cardinality(Emitted(o))
    BY <1>2, <2>2
  <2>4. CASE i = o
    <3>1. Emitted(i)' = ArgsOf(b)
      BY <1>1, <2>4
    <3>. QED BY <1>3, <2>1, <2>3, <2>4, <3>1
  <2>. QED BY <1>3, <1>4, <2>1, <2>4
<1>6. CASE p # <<>>
  <2>. DEFINE e == Event("delta", block, p)
  <2>1. e.event = "delta" /\ e.owner = o /\ e.data = p
    BY <1>1 DEF Event
  <2>2. Write(e) /\ client' = client
    BY <1>1, <1>6
  <2>. HIDE DEF e, p
  <2>3. wire' = Append(wire, e)
    BY <2>2, WriteFacts DEF Stays
  <2>4. CASE i = o
    <3>1. /\ IsFiniteSet(Delivered(o)')
          /\ Cardinality(Delivered(o)') = Cardinality(Delivered(o)) + Cardinality(ArgsOf(e.data))
      BY <1>2, <1>3, <2>1, <2>3, DeliveredMore
    <3>2. Delivered(i)' = Delivered(o)' /\ Emitted(i)' = Emitted(o)'
      BY <2>4
    <3>3. Cardinality(ArgsOf(b)) = Cardinality(Delivered(o)) + Cardinality(ArgsOf(p))
      BY <1>2, <1>3
    <3>. QED BY <1>1, <2>1, <3>1, <3>2, <3>3
  <2>5. CASE i # o
    <3>1. Delivered(i)' = Delivered(i)
      BY <2>1, <2>3, <2>5, DeliveredAdds
    <3>. QED BY <1>3, <1>4, <2>5, <3>1
  <2>. QED BY <2>4, <2>5
<1>. QED BY <1>5, <1>6

LEMMA ReceivedStep ==
    ASSUME Lists, Unbroken, Sound, Streaming, Stays => EmittedReceived, Stays'
    PROVE  EmittedReceived'
<1>. SUFFICES ASSUME NEW i \in Calls
              PROVE  /\ IsFiniteSet(Delivered(i)')
                     /\ Cardinality(Delivered(i)') = Cardinality(Emitted(i)')
  BY DEF EmittedReceived
<1>1. CASE DeliverContent /\ FlushToolCallArgs
  <2>1. Stays
    BY <1>1 DEF DeliverContent, link, Stays
  <2>. QED BY <1>1, <2>1, ReceivedFlush
<1>2. CASE ~(DeliverContent /\ FlushToolCallArgs)
  <2>1. client' = client /\ (wire' = wire \/ \E e : Bare(e) /\ Write(e))
    <3>1. ~ClientGoes
      BY DEF ClientGoes, Stays
    <3>. QED BY <1>2, <3>1, WritesBare
  <2>2. Stays
    BY <2>1 DEF Stays
  <2>3. Emitted(i)' = Emitted(i)
    BY <1>2, EmittedKept
  <2>4. ASSUME NEW e, Bare(e), Write(e)
        PROVE  Delivered(i)' = Delivered(i)
    <3>1. wire' = Append(wire, e)
      BY <2>1, <2>2, <2>4, WriteFacts
    <3>. DEFINE new == {Len(wire) + 1} \X ArgsOf(e.data)
    <3>2. Delivered(i)' = IF e.event = "delta" /\ e.owner = i
                          THEN Delivered(i) \cup new ELSE Delivered(i)
      BY <3>1, DeliveredAdds
    <3>3. e.event = "delta" => new = {}
      BY <2>4 DEF Bare
    <3>. HIDE DEF new
    <3>. QED BY <3>2, <3>3
  <2>5. Delivered(i)' = Delivered(i)
    BY <2>1, <2>4, SameWire
  <2>. QED BY <2>2, <2>3, <2>5 DEF EmittedReceived
<1>. QED BY <1>1, <1>2

\* An item is yet to be done once those before it are; FinishReason puts its own first.
LEMMA StillListed ==
    ASSUME NEW s \in Seq(Items), NEW more \in Seq(Items), s # <<>>,
           Head(s) # "deliver", NEW n \in DOMAIN s, s[n] = "deliver"
    PROVE  \E m \in DOMAIN (more \o Tail(s)) : (more \o Tail(s))[m] = "deliver"
<1>. DEFINE t == more \o Tail(s)
<1>1. /\ Len(more) \in Nat /\ Len(s) \in Nat \ {0} /\ s[1] = Head(s)
      /\ DOMAIN s = 1 .. Len(s) /\ DOMAIN t = 1 .. Len(more) + Len(s) - 1
      /\ \A j \in 2 .. Len(s) : t[Len(more) + j - 1] = s[j]
  BY RestFacts
<1>. HIDE DEF t
<1>2. n \in 2 .. Len(s)
  BY <1>1
<1>3. Len(more) + n - 1 \in DOMAIN t
  BY <1>1, <1>2
<1>. QED BY <1>1, <1>2, <1>3 DEF t

LEMMA FinishItems ==
    /\ <<>> \in Seq(Items)
    /\ <<"emptyArgs", "markFinished", "stopBlock", "messageDelta", "markDelta">> \in Seq(Items)
    /\ <<"messageDelta", "markDelta">> \in Seq(Items)
<1>1. {"emptyArgs", "markFinished", "stopBlock", "messageDelta", "markDelta"} \subseteq Items
  BY DEF Items
<1>. QED BY <1>1

LEMMA DeliveringKept ==
    ASSUME Lists, Streaming, ~DeliverContent, ~ \E k \in Chunks : ReadChunk(k), Delivering
    PROVE  Delivering'
<1>0. todo["scanner"] \in Seq(Items)
  BY DEF Lists
<1>1. CASE todo'["scanner"] = todo["scanner"]
  BY <1>1 DEF Delivering
<1>2. ASSUME NEW item, NEW more \in Seq(Items), Doing("scanner", item), item # "deliver",
             Then("scanner", more)
      PROVE  Delivering'
  <2>1. todo["scanner"] # <<>> /\ Head(todo["scanner"]) = item
    BY <1>2 DEF Doing
  <2>2. todo'["scanner"] = more \o Tail(todo["scanner"])
    BY <1>2 DEF Then, Lists
  <2>3. PICK n \in DOMAIN todo["scanner"] : todo["scanner"][n] = "deliver"
    BY DEF Delivering
  <2>4. \E m \in DOMAIN (more \o Tail(todo["scanner"])) :
            (more \o Tail(todo["scanner"]))[m] = "deliver"
    BY <1>0, <1>2, <2>1, <2>3, StillListed
  <2>. QED BY <2>2, <2>4 DEF Delivering
<1>3. CASE FinishReason
  <2>1. PICK more \in Seq(Items) : Doing("scanner", "finish") /\ Then("scanner", more)
    BY <1>3, FinishItems DEF FinishReason
  <2>. QED BY <1>2, <2>1
<1>4. CASE \E item : ScannerDoes(item) /\ (item = "deliver" => DeliverContent)
  <2>1. PICK item : Doing("scanner", item) /\ Then("scanner", <<>>) /\ item # "deliver"
    BY <1>4 DEF ScannerDoes, Done
  <2>. QED BY <1>2, <2>1, FinishItems
<1>. QED BY <1>1, <1>3, <1>4, ScannersListChanges

LEMMA HeadDelivers ==
    ASSUME Lists', todo'["scanner"] # <<>>, Head(todo'["scanner"]) = "deliver"
    PROVE  Delivering'
<1>1. todo'["scanner"] \in Seq(Items)
  BY DEF Lists
<1>. DEFINE s == todo'["scanner"]
<1>2. 1 \in DOMAIN s /\ s[1] = "deliver"
  <2>1. s \in Seq(Items) /\ s # <<>> /\ Head(s) = "deliver"
    BY <1>1
  <2>. HIDE DEF s
  <2>. QED BY <2>1
<1>. QED BY <1>2 DEF Delivering

LEMMA ReadDelivers ==
    ASSUME Lists, NEW k, ReadChunk(k), HasContent(k)
    PROVE  Delivering'
<1>. DEFINE opening == IF NextBlock(k) = <<>> THEN <<>>
                       ELSE IF block.started THEN <<"emptyArgs", "stopBlock", "openNext">>
                       ELSE <<"openFirst", "markStarted">>
            end  == IF k.finish # "none" THEN <<"finish">> ELSE <<>>
            d == <<"deliver">>
<1>1. Plan(k) = (opening \o d) \o end
  BY DEF Plan
<1>0. {"finish", "emptyArgs", "stopBlock", "openNext", "openFirst", "markStarted", "deliver"}
        \subseteq Items
  BY DEF Items
<1>2. end \in Seq(Items)
  <2>1. <<"finish">> \in Seq(Items) /\ <<>> \in Seq(Items)
    BY <1>0, ShortLists
  <2>. QED BY <2>1
<1>3. opening \in Seq(Items)
  <2>1. /\ <<"emptyArgs", "stopBlock", "openNext">> \in Seq(Items)
        /\ <<"openFirst", "markStarted">> \in Seq(Items) /\ <<>> \in Seq(Items)
    BY <1>0, ShortLists
  <2>. QED BY <2>1
<1>4. d \in Seq(Items) /\ Len(d) = 1 /\ d[1] = "deliver"
  <2>1. d \in Seq(Items)
    BY <1>0, ShortLists
  <2>. QED BY <2>1
<1>. HIDE DEF opening, end, d
<1>. DEFINE c == opening \o d
<1>7. c \in Seq(Items) /\ Len(opening) + 1 \in 1 .. Len(c) /\ c[Len(opening) + 1] = "deliver"
  <2>1. /\ c \in Seq(Items) /\ Len(c) = Len(opening) + Len(d) /\ Len(opening) \in Nat
        /\ \A n \in 1 .. Len(d) : c[Len(opening) + n] = d[n]
    BY <1>3, <1>4, CatFacts
  <2>. HIDE DEF c
  <2>. QED BY <1>4, <2>1
<1>. HIDE DEF c
<1>5. Len(opening) + 1 \in DOMAIN (c \o end) /\ (c \o end)[Len(opening) + 1] = "deliver"
  BY <1>2, <1>7
<1>6. todo'["scanner"] = c \o end
  BY <1>1 DEF ReadChunk, Read, Schedule, Lists, c
<1>. QED BY <1>5, <1>6 DEF Delivering

\* Once a block is open, what it was opened for is delivered.
LEMMA OpensDeliver ==
    ASSUME Lists, Lists', Sound, Open \/ MarkStarted
    PROVE  Delivering' \/ ~block'.started
<1>0. ScannersList /\ InputTypes /\ BlockTypesHold /\ block \in Blocks
  BY DEF Sound, BlockTypesHold
<1>1. ASSUME NEW item \in {"openNext", "markStarted"}, Doing("scanner", item), Done("scanner"),
             stopReason' = stopReason
      PROVE  Delivering'
  <2>1. /\ stopReason = "none" /\ todo'["scanner"] # <<>>
             => <<item, Head(todo'["scanner"])>> \in ReadingSteps
        /\ stopReason # "none" /\ todo'["scanner"] # <<>>
             => <<item, Head(todo'["scanner"])>> \in FinishingSteps
        /\ stopReason = "none" /\ todo'["scanner"] = <<>>
             => item = IF input.chunk.finish = "none" THEN "deliver" ELSE "finish"
        /\ stopReason # "none" /\ todo'["scanner"] = <<>> => item = "markDelta"
    BY <1>0, <1>1, NextItem
  <2>2. todo'["scanner"] # <<>> /\ Head(todo'["scanner"]) = "deliver"
    BY <1>1, <2>1 DEF ReadingSteps, FinishingSteps
  <2>. QED BY <2>2, HeadDelivers
<1>2. CASE MarkStarted
  BY <1>1, <1>2 DEF MarkStarted
<1>3. CASE Open
  <2>1. PICK n \in 0 .. MaxChunks, s \in BOOLEAN :
          /\ OpenBlock(n, s)
          /\ \/ Doing("scanner", "openFirst") /\ s = FALSE
             \/ Doing("scanner", "openNext") /\ s = TRUE
          /\ Done("scanner") /\ stopReason' = stopReason
    BY <1>0, <1>3, OpenFacts
  <2>2. CASE Doing("scanner", "openNext")
    BY <1>1, <2>1, <2>2
  <2>3. CASE s = FALSE
    <3>1. PICK t, d, w : block' = [block EXCEPT !.type = t, !.index = n, !.id = d,
                                                !.owner = w, !.started = s]
      BY <2>1 DEF OpenBlock
    <3>2. block'.started = s
      BY <1>0, <3>1 DEF Blocks
    <3>. QED BY <2>3, <3>2
  <2>. QED BY <2>1, <2>2, <2>3
<1>. QED BY <1>2, <1>3

LEMMA OpenCallStep ==
    ASSUME Lists, Lists', Sound, Streaming, OpenCallEmitted
    PROVE  OpenCallEmitted'
<1>. SUFFICES ASSUME ~Delivering', block'.started, block'.type = "tool_use"
              PROVE  Emitted(block.owner)' = ArgsOf(tools'[block'.owner].buffer)
  BY DEF OpenCallEmitted, ArgsOf
<1>0. block \in Blocks /\ OfCall(block) /\ ToolTypes
  BY DEF Sound, BlockTypesHold
<1>1. \A i : Emitted(i)' = {n \in ArgsOf(tools'[i].buffer) : n <= tools'[i].emitted}
  BY DEF Emitted, ArgsOf
<1>2. Emitted(block.owner)'
        = {n \in ArgsOf(tools'[block'.owner].buffer) : n <= tools'[block'.owner].emitted}
  BY DEF Emitted, ArgsOf
<1>3. ~Open /\ ~MarkStarted
  BY OpensDeliver
<1>4. /\ block'.started = block.started /\ block'.type = block.type
      /\ block'.owner = block.owner
  <2>1. CASE block' = block
    BY <2>1
  <2>2. CASE \E g \in {"scanner", "main"} : MarkFinished(g)
    <3>1. block' = [block EXCEPT !.finished = TRUE]
      BY <2>2 DEF MarkFinished
    <3>. QED BY <1>0, <3>1 DEF Blocks
  <2>. QED BY <1>3, <2>1, <2>2, BlockChanges
<1>5. PICK o \in Calls : o = block.owner /\ o = block'.owner
  BY <1>0, <1>4 DEF OfCall
<1>6. SUFFICES Emitted(o)' = ArgsOf(tools'[o].buffer)
  BY <1>1, <1>2, <1>5
<1>7. CASE DeliverContent /\ FlushToolCallArgs
  BY <1>5, <1>7, Flushed
<1>8. CASE DeliverContent /\ ~FlushToolCallArgs
  BY <1>4, <1>8 DEF DeliverContent, DeliverText, DeliverThinking
<1>9. ASSUME ~DeliverContent, ~Delivering, ArgsOf(tools'[o].buffer) = ArgsOf(tools[o].buffer)
      PROVE  Emitted(o)' = ArgsOf(tools'[o].buffer)
  <2>1. Emitted(o) = ArgsOf(tools[o].buffer)
    BY <1>4, <1>5, <1>9 DEF OpenCallEmitted
  <2>2. Emitted(o)' = Emitted(o)
    BY <1>9, EmittedKept
  <2>. QED BY <1>9, <2>1, <2>2
<1>10. CASE ~DeliverContent /\ ~ \E k \in Chunks : ReadChunk(k)
  <2>1. ~Delivering
    BY <1>10, DeliveringKept
  <2>2. ArgsOf(tools'[o].buffer) = ArgsOf(tools[o].buffer)
    BY <1>10, BuffersKept
  <2>. QED BY <1>9, <1>10, <2>1, <2>2
<1>11. ASSUME NEW k \in Chunks, ReadChunk(k)
       PROVE  Emitted(o)' = ArgsOf(tools'[o].buffer)
  <2>1. ~Delivering /\ ~DeliverContent
    BY <1>11 DEF ReadChunk, Reading, Delivering, DeliverContent, Doing
  <2>2. k.calls = <<>>
    BY <1>11, ReadDelivers DEF HasContent
  <2>3. Fragments(k.calls, o) = {}
    BY <2>2 DEF Fragments
  <2>4. tools'[o].buffer = tools[o].buffer \o [n \in 1 .. 0 |-> "args"]
    <3>1. Cardinality(Fragments(k.calls, o)) = 0
      BY <2>3, FS_EmptySet
    <3>2. tools'[o].buffer
            = tools[o].buffer \o [n \in 1 .. Cardinality(Fragments(k.calls, o)) |-> "args"]
      BY <1>11, BuffersRead
    <3>. QED BY <3>1, <3>2
  <2>5. tools[o].buffer \in Seq({"args", "noArgs"})
    BY <1>0 DEF ToolTypes, ToolCalls
  <2>6. tools'[o].buffer = tools[o].buffer
    <3>1. [n \in 1 .. 0 |-> "args"] = <<>>
      OBVIOUS
    <3>. QED BY <2>4, <2>5, <3>1
  <2>. QED BY <1>9, <2>1, <2>6
<1>. QED BY <1>7, <1>8, <1>10, <1>11

LEMMA ArgsInit == Init => ArgsWell
<1>. SUFFICES ASSUME Init PROVE ArgsWell
  OBVIOUS
<1>1. /\ wire = <<>> /\ tools = [i \in Calls |-> NoTool]
      /\ input = [chunk |-> NoChunk, next |-> <<>>, lines |-> 0,
                  errors |-> 0, given |-> [i \in Calls |-> 0]]
      /\ block = [type |-> "text", index |-> 0, id |-> NoId, owner |-> 0,
                  started |-> FALSE, finished |-> FALSE]
  BY Zenon DEF Init
<1>2. \A i \in Calls : tools[i].buffer = <<>> /\ tools[i].emitted = 0 /\ input.given[i] = 0
  BY <1>1 DEF NoTool
<1>3. \A i \in Calls : ArgsOf(tools[i].buffer) = {} /\ Emitted(i) = {}
  BY <1>2 DEF ArgsOf, Emitted
<1>4. \A i \in Calls : Delivered(i) = {}
  BY <1>1 DEF Delivered, Positions
<1>5. IsFiniteSet({}) /\ Cardinality({}) = 0
  BY FS_EmptySet
<1>6. AllBuffered /\ EmittedReceived
  BY <1>2, <1>3, <1>4, <1>5 DEF AllBuffered, EmittedReceived
<1>7. OpenCallEmitted
  BY <1>1 DEF OpenCallEmitted
<1>. QED BY <1>6, <1>7 DEF ArgsWell

LEMMA ArgsStep ==
    ASSUME EndInv, EndInv', Sound, ArgsWell, Streaming
    PROVE  ArgsWell'
<1>1. Lists /\ Lists' /\ Unbroken
  BY DEF EndInv
<1>2. AllBuffered'
  BY <1>1, AllBufferedStep DEF ArgsWell
<1>3. Stays' => EmittedReceived'
  BY <1>1, ReceivedStep DEF ArgsWell
<1>4. OpenCallEmitted'
  BY <1>1, OpenCallStep DEF ArgsWell
<1>. QED BY <1>2, <1>3, <1>4 DEF ArgsWell

LEMMA ArgsImply == Sound /\ ArgsWell => ArgumentsKeepUp
<1>. SUFFICES ASSUME Sound, ArgsWell, scanner = "running", todo["scanner"] = <<>>, Stays,
                     block.started, block.type = "tool_use"
              PROVE  Cardinality(Delivered(block.owner)) = input.given[block.owner]
  BY DEF ArgumentsKeepUp, Stays
<1>1. block.owner \in Calls
  BY DEF Sound, BlockTypesHold, OfCall
<1>2. Emitted(block.owner) = ArgsOf(tools[block.owner].buffer)
  BY DEF ArgsWell, OpenCallEmitted, Delivering
<1>3. Cardinality(Delivered(block.owner)) = Cardinality(Emitted(block.owner))
  BY <1>1 DEF ArgsWell, EmittedReceived
<1>4. Cardinality(ArgsOf(tools[block.owner].buffer)) = input.given[block.owner]
  BY <1>1 DEF ArgsWell, AllBuffered
<1>. QED BY <1>2, <1>3, <1>4

\* When the scanner reads the next line, a client that stays has received every
\* argument fragment of the call whose block is open (accumulateToolCallDelta
\* and flushToolCallArgs), those included that came before the call's name did
\* and whatever main does to the block meanwhile.
THEOREM ArgumentsArrive == Spec => []ArgumentsKeepUp
<1>1. Init => WireInv /\ ArgsWell
  BY WireInit, ArgsInit
<1>2. WireInv /\ ArgsWell /\ [Next]_vars => (WireInv /\ ArgsWell)'
  <2>. SUFFICES ASSUME WireInv, ArgsWell, [Next]_vars PROVE WireInv' /\ ArgsWell'
    OBVIOUS
  <2>1. WireInv'
    BY WireStep DEF Streaming
  <2>2. EndInv /\ EndInv' /\ Sound
    BY <2>1 DEF WireInv
  <2>. QED BY <2>1, <2>2, ArgsStep DEF Streaming
<1>3. WireInv /\ ArgsWell => ArgumentsKeepUp
  BY ArgsImply DEF WireInv
<1>. QED BY <1>1, <1>2, <1>3, PTL DEF Spec
===============================================================================
