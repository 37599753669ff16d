--------------------------- MODULE BatchQueue_proofs ---------------------------
(***************************************************************************)
(* Proofs about BatchQueue, for any number of records and workers, any     *)
(* sizes of channel and batch and any number of failing writes.            *)
(***************************************************************************)
EXTENDS BatchQueue, FiniteSetTheorems, TLAPS

QueueTypes ==
    /\ kind \in Kinds
    /\ pc \in [Records -> CallerStates]
    /\ queue \in Seq(Records)
    /\ batch \in [Workers -> Seq(Records)]
    /\ wpc \in [Workers -> WorkerStates]
    /\ stopAt \in Nat
    /\ stored \in [Records -> Nat]
    /\ failed \in SUBSET Records

-----------------------------------------------------------------------------
(* Sequences without repetition, as channel and batches are.               *)

Distinct(s) == \A i, j \in DOMAIN s : i # j => s[i] # s[j]

LEMMA EmptySet == ToSet(<<>>) = {} /\ Distinct(<<>>)
BY DEF ToSet, Distinct

LEMMA AppendSet ==
    ASSUME NEW S, NEW s \in Seq(S), NEW e \in S
    PROVE  /\ Append(s, e) \in Seq(S)
           /\ ToSet(Append(s, e)) = ToSet(s) \union {e}
           /\ Distinct(s) /\ e \notin ToSet(s) => Distinct(Append(s, e))
<1>1. Len(s) \in Nat /\ DOMAIN s = 1 .. Len(s)
  OBVIOUS
<1>2. /\ Append(s, e) \in Seq(S) /\ DOMAIN Append(s, e) = 1 .. Len(s) + 1
      /\ \A i \in 1 .. Len(s) : Append(s, e)[i] = s[i]
      /\ Append(s, e)[Len(s) + 1] = e
  OBVIOUS
<1>3. ASSUME NEW i \in 1 .. Len(s) + 1 PROVE i \in 1 .. Len(s) \/ i = Len(s) + 1
  BY <1>1, <1>3
<1>4. 1 .. Len(s) \subseteq 1 .. Len(s) + 1 /\ Len(s) + 1 \in 1 .. Len(s) + 1
  BY <1>1
<1>5. ToSet(Append(s, e)) = ToSet(s) \union {e}
  BY <1>1, <1>2, <1>3, <1>4 DEF ToSet
<1>6. Distinct(s) /\ e \notin ToSet(s) => Distinct(Append(s, e))
  BY <1>1, <1>2, <1>3 DEF ToSet, Distinct
<1>. QED BY <1>2, <1>5, <1>6

LEMMA TailSet ==
    ASSUME NEW S, NEW s \in Seq(S), s # <<>>, Distinct(s)
    PROVE  /\ Head(s) \in S /\ Head(s) \in ToSet(s) /\ Tail(s) \in Seq(S)
           /\ ToSet(Tail(s)) = ToSet(s) \ {Head(s)}
           /\ Distinct(Tail(s))
<1>1. Len(s) \in Nat \ {0} /\ DOMAIN s = 1 .. Len(s) /\ Head(s) = s[1]
  OBVIOUS
<1>2. /\ Tail(s) \in Seq(S) /\ DOMAIN Tail(s) = 1 .. Len(s) - 1
      /\ \A i \in 1 .. Len(s) - 1 : Tail(s)[i] = s[i + 1]
  OBVIOUS
<1>3. ASSUME NEW i \in 1 .. Len(s) - 1 PROVE i + 1 \in 1 .. Len(s) /\ i + 1 # 1
  BY <1>1
<1>4. ASSUME NEW i \in 1 .. Len(s), i # 1
      PROVE  i - 1 \in 1 .. Len(s) - 1 /\ (i - 1) + 1 = i
  BY <1>1, <1>4
<1>5. 1 \in 1 .. Len(s)
  BY <1>1
<1>6. Head(s) \in S /\ Head(s) \in ToSet(s)
  BY <1>1, <1>5 DEF ToSet
<1>7. ToSet(Tail(s)) \subseteq ToSet(s) \ {Head(s)}
  <2>. SUFFICES ASSUME NEW i \in 1 .. Len(s) - 1
                PROVE  Tail(s)[i] \in ToSet(s) /\ Tail(s)[i] # Head(s)
    BY <1>2 DEF ToSet
  <2>. QED BY <1>1, <1>2, <1>3, <1>5 DEF ToSet, Distinct
<1>8. ToSet(s) \ {Head(s)} \subseteq ToSet(Tail(s))
  <2>. SUFFICES ASSUME NEW i \in 1 .. Len(s), s[i] # Head(s)
                PROVE  s[i] \in ToSet(Tail(s))
    BY <1>1 DEF ToSet
  <2>. QED BY <1>1, <1>2, <1>4 DEF ToSet
<1>9. Distinct(Tail(s))
  <2>. SUFFICES ASSUME NEW i \in 1 .. Len(s) - 1, NEW j \in 1 .. Len(s) - 1, i # j
                PROVE  Tail(s)[i] # Tail(s)[j]
    BY <1>2 DEF Distinct
  <2>1. i + 1 # j + 1
    BY <1>1
  <2>. QED BY <2>1, <1>1, <1>2, <1>3 DEF Distinct
<1>. QED BY <1>2, <1>6, <1>7, <1>8, <1>9

-----------------------------------------------------------------------------
(* The invariant                                                           *)

\* The record r is in exactly one place.
Holders(r) == {w \in Workers : r \in ToSet(batch[w])}

Waiting(r)  == pc[r] # "accepted"
Queued(r)   == r \in ToSet(queue)
Held(r)     == \E w \in Workers : Holders(r) = {w}
Written(r)  == stored[r] = 1
GivenUp(r)  == r \in failed
Unwritten(r) == stored[r] = 0 /\ r \notin failed

OnePlace(r) ==
    \/ Waiting(r) /\ ~Queued(r) /\ Holders(r) = {} /\ Unwritten(r)
    \/ ~Waiting(r) /\ Queued(r) /\ Holders(r) = {} /\ Unwritten(r)
    \/ ~Waiting(r) /\ ~Queued(r) /\ Held(r) /\ Unwritten(r)
    \/ ~Waiting(r) /\ ~Queued(r) /\ Holders(r) = {} /\ Written(r) /\ ~GivenUp(r)
    \/ ~Waiting(r) /\ ~Queued(r) /\ Holders(r) = {} /\ stored[r] = 0 /\ GivenUp(r)

PlacesInv ==
    /\ Distinct(queue)
    /\ \A w \in Workers : Distinct(batch[w])
    /\ \A r \in Records : OnePlace(r)

\* What a worker still holds when it stands where it stands.  Only the worker
\* of handler/async_logger.go leaves a batch behind, for the flush of Stop; the
\* workers of a closed queue leave when it is empty, and it stays so.
HandsInv(w) ==
    /\ wpc[w] = "select" /\ kind \notin Batched => batch[w] = <<>>
    /\ wpc[w] \in {"rows", "lastrows"} => kind = "lblog"
    /\ wpc[w] = "sending" => kind = "alert" /\ batch[w] = <<>>
    /\ wpc[w] = "done" => batch[w] = <<>> \/ (kind = "lblog" /\ stopAt < 4)
    /\ kind = "request" =>
         /\ wpc[w] \in {"select", "write", "done"}
         /\ wpc[w] = "done" => Did("close") /\ queue = <<>>
    /\ kind = "lblog" =>
         /\ stopAt = 3 => wpc[w] = "done"
         /\ stopAt = 4 => wpc[w] \in {"lastwrite", "lastrows", "done"}

StopInv ==
    /\ stopAt <= Len(StopPlan)
    /\ \A w \in Team : HandsInv(w)

Inv == QueueTypes /\ PlacesInv /\ StopInv

-----------------------------------------------------------------------------
(* The procedures of stopping                                              *)

Steps == {"flag", "signal", "close", "wait", "flush"}

LEMMA Plans ==
    ASSUME kind \in Kinds
    PROVE  /\ kind \in {"usage", "audit", "alert", "request", "lblog", "monitor"}
           /\ StopPlan \in Seq(Steps) /\ Len(StopPlan) \in 1 .. 4
           /\ kind = "request" => StopPlan = <<"close", "wait">>
           /\ kind = "lblog" => StopPlan = <<"flag", "signal", "wait", "flush">>
           /\ kind # "lblog" => \A i \in 1 .. Len(StopPlan) : StopPlan[i] # "flush"
<1>1. kind \in {"usage", "audit", "alert", "request", "lblog", "monitor"}
  BY QueueAssumption
<1>2. CASE kind = "usage"
  <2>1. StopPlan = <<"signal", "wait">>
    BY <1>2 DEF StopPlan, UsageClose
  <2>2. StopPlan \in Seq(Steps) /\ Len(StopPlan) = 2
    BY <2>1 DEF Steps
  <2>3. kind # "lblog" => \A i \in 1 .. 2 : StopPlan[i] # "flush"
    BY <1>2, <2>1
  <2>. QED BY <1>1, <1>2, <2>1, <2>2, <2>3
<1>3. CASE kind \in {"audit", "alert"}
  <2>1. StopPlan = <<"flag", "signal", "close", "wait">>
    BY <1>3 DEF StopPlan, AuditStop, AlertStop
  <2>2. StopPlan \in Seq(Steps) /\ Len(StopPlan) = 4
    BY <2>1 DEF Steps
  <2>3. kind # "lblog" => \A i \in 1 .. 4 : StopPlan[i] # "flush"
    BY <1>3, <2>1
  <2>. QED BY <1>1, <1>3, <2>1, <2>2, <2>3
<1>4. CASE kind = "request"
  <2>1. StopPlan = <<"close", "wait">>
    BY <1>4 DEF StopPlan, RequestShutdown
  <2>2. StopPlan \in Seq(Steps) /\ Len(StopPlan) = 2
    BY <2>1 DEF Steps
  <2>3. kind # "lblog" => \A i \in 1 .. 2 : StopPlan[i] # "flush"
    BY <1>4, <2>1
  <2>. QED BY <1>1, <1>4, <2>1, <2>2, <2>3
<1>5. CASE kind = "lblog"
  <2>1. StopPlan = <<"flag", "signal", "wait", "flush">>
    BY <1>5 DEF StopPlan, LBLogStop
  <2>2. StopPlan \in Seq(Steps) /\ Len(StopPlan) = 4
    BY <2>1 DEF Steps
  <2>3. kind # "lblog" => \A i \in 1 .. 4 : StopPlan[i] # "flush"
    BY <1>5, <2>1
  <2>. QED BY <1>1, <1>5, <2>1, <2>2, <2>3
<1>6. CASE kind = "monitor"
  <2>1. StopPlan = <<"flag", "signal", "wait">>
    BY <1>6 DEF StopPlan, MonitorStop
  <2>2. StopPlan \in Seq(Steps) /\ Len(StopPlan) = 3
    BY <2>1 DEF Steps
  <2>3. kind # "lblog" => \A i \in 1 .. 3 : StopPlan[i] # "flush"
    BY <1>6, <2>1
  <2>. QED BY <1>1, <1>6, <2>1, <2>2, <2>3
<1>. QED BY <1>1, <1>2, <1>3, <1>4, <1>5, <1>6

LEMMA DidIs ==
    ASSUME kind \in Kinds, stopAt \in Nat, stopAt <= Len(StopPlan), NEW x
    PROVE  Did(x) <=> \E i \in 1 .. stopAt : StopPlan[i] = x
<1>1. StopPlan \in Seq(Steps)
  BY Plans
<1>2. /\ SubSeq(StopPlan, 1, stopAt) \in Seq(Steps)
      /\ Len(SubSeq(StopPlan, 1, stopAt)) = stopAt
      /\ \A i \in 1 .. stopAt : SubSeq(StopPlan, 1, stopAt)[i] = StopPlan[i]
  BY <1>1
<1>3. DOMAIN SubSeq(StopPlan, 1, stopAt) = 1 .. stopAt
  BY <1>2
<1>. QED BY <1>2, <1>3 DEF Did, ToSet

\* What a step of the procedure does, apart from the flush.
LEMMA StopSteps ==
    ASSUME QueueTypes, stopAt <= Len(StopPlan), StopStep
    PROVE  /\ stopAt' = stopAt + 1 /\ stopAt' \in Nat
           /\ stopAt' <= Len(StopPlan)' /\ StopPlan' = StopPlan
           /\ \A x : Did(x) => Did(x)'
           /\ kind # "lblog" => wpc' = wpc
           /\ kind = "lblog" =>
                /\ stopAt' = 3 => Idle
                /\ stopAt' = 4 => Idle
                /\ stopAt' <= 3 => wpc' = wpc
                /\ stopAt' = 4 =>
                     wpc' = IF batch[TheWorker] # <<>>
                            THEN [wpc EXCEPT ![TheWorker] = "lastwrite"] ELSE wpc
<1>1. kind \in Kinds /\ stopAt \in Nat /\ kind' = kind /\ stopAt' = stopAt + 1
  BY DEF QueueTypes, StopStep
<1>2. StopPlan' = StopPlan
  BY <1>1 DEF StopPlan
<1>3. stopAt + 1 <= Len(StopPlan) /\ Len(StopPlan) \in 1 .. 4
  BY <1>1, Plans DEF StopStep
<1>4. stopAt' \in Nat /\ stopAt' <= Len(StopPlan)'
  BY <1>1, <1>2, <1>3
<1>5. ASSUME NEW x, Did(x) PROVE Did(x)'
  <2>1. PICK i \in 1 .. stopAt : StopPlan[i] = x
    BY <1>1, <1>5, DidIs
  <2>2. i \in 1 .. (stopAt + 1)
    BY <1>1
  <2>3. \A y : Did(y)' <=> \E j \in 1 .. (stopAt') : StopPlan'[j] = y
    <3>1. kind' \in Kinds /\ StopPlan' \in Seq(Steps)
      BY <1>1, <1>2, Plans
    <3>2. PICK n \in Nat : n = stopAt' /\ n = stopAt + 1 /\ n <= Len(StopPlan)
      BY <1>1, <1>3
    <3>3. PICK p \in Seq(Steps) : p = StopPlan' /\ p = StopPlan
      BY <3>1, <1>2
    <3>4. /\ Len(SubSeq(p, 1, n)) = n
          /\ \A j \in 1 .. n : SubSeq(p, 1, n)[j] = p[j]
          /\ DOMAIN SubSeq(p, 1, n) = 1 .. n
      BY <3>2, <3>3
    <3>. QED BY <3>2, <3>3, <3>4 DEF Did, ToSet
  <2>. QED BY <1>1, <1>2, <2>1, <2>2, <2>3
<1>6. kind # "lblog" => wpc' = wpc
  <2>1. kind # "lblog" => StopPlan[stopAt + 1] # "flush"
    BY <1>1, <1>3, Plans
  <2>. QED BY <2>1 DEF StopStep
<1>7. ASSUME kind = "lblog"
      PROVE  /\ stopAt' = 3 => Idle
             /\ stopAt' = 4 => Idle
             /\ stopAt' <= 3 => wpc' = wpc
             /\ stopAt' = 4 =>
                  wpc' = IF batch[TheWorker] # <<>>
                         THEN [wpc EXCEPT ![TheWorker] = "lastwrite"] ELSE wpc
  <2>1. StopPlan = <<"flag", "signal", "wait", "flush">>
    BY <1>7 DEF StopPlan, LBLogStop
  <2>2. PICK n \in 1 .. 4 : n = stopAt' /\ n = stopAt + 1
    <3>1. stopAt + 1 <= 4
      BY <1>3, <2>1
    <3>2. stopAt \in Nat /\ stopAt' = stopAt + 1
      BY <1>1
    <3>. QED BY <3>1, <3>2
  <2>3. /\ StopPlan[n] \in {"wait", "flush"} => Idle
        /\ wpc' = IF StopPlan[n] = "flush" /\ batch[TheWorker] # <<>>
                  THEN [wpc EXCEPT ![TheWorker] = "lastwrite"] ELSE wpc
    BY <2>2 DEF StopStep
  <2>4. /\ n = 3 => StopPlan[n] = "wait"
        /\ n = 4 => StopPlan[n] = "flush"
        /\ n <= 3 => StopPlan[n] # "flush"
    BY <2>1, <2>2
  <2>. QED BY <2>2, <2>3, <2>4
<1>. QED BY <1>1, <1>2, <1>4, <1>5, <1>6, <1>7

-----------------------------------------------------------------------------
(* What the callers and workers of all kinds of queue have in common       *)

Waits(r) ==
    /\ pc[r] # "accepted"
    /\ \E s \in CallerStates \ {"accepted"} : pc' = [pc EXCEPT ![r] = s]
    /\ UNCHANGED <<queue, stored, failed>>
    /\ UNCHANGED <<kind, batch, wpc, stopAt>>

Sends(r) ==
    /\ pc[r] # "accepted"
    /\ ~Did("close")
    /\ queue' = Append(queue, r) /\ pc' = [pc EXCEPT ![r] = "accepted"]
    /\ UNCHANGED <<stored, failed>>
    /\ UNCHANGED <<kind, batch, wpc, stopAt>>

LEMMA SendSteps ==
    ASSUME NEW r, NEW s \in CallerStates \ {"accepted"}, pc[r] # "accepted",
           Send(r, s), callerFrame
    PROVE  Waits(r) \/ Sends(r)
<1>1. CASE UNCHANGED queue /\ \E x \in {"refused", "panic"} : pc' = [pc EXCEPT ![r] = x]
  BY <1>1 DEF Waits, callerFrame, table, CallerStates
<1>2. CASE UNCHANGED queue /\ pc' = [pc EXCEPT ![r] = s]
  BY <1>2 DEF Waits, callerFrame, table
<1>3. CASE ~Did("close") /\ queue' = Append(queue, r)
           /\ pc' = [pc EXCEPT ![r] = "accepted"]
  BY <1>3 DEF Sends, callerFrame, table
<1>. QED BY <1>1, <1>2, <1>3 DEF Send

LEMMA CallerSteps ==
    ASSUME NEW r \in Records, Caller(r)
    PROVE  Waits(r) \/ Sends(r) \/ SyncWrite(r)
<1>. USE DEF CallerStates
<1>1. CASE RecordUsage(r)
  BY <1>1, SendSteps DEF RecordUsage
<1>2. CASE LogEvent(r)
  BY <1>2 DEF LogEvent, Waits, callerFrame, table
<1>3. CASE LogEventSends(r)
  BY <1>3, SendSteps DEF LogEventSends
<1>4. CASE queueAlert(r)
  BY <1>4 DEF queueAlert, Waits, callerFrame, table
<1>5. CASE queueAlertMarks(r)
  BY <1>5 DEF queueAlertMarks, Waits, callerFrame, table
<1>6. CASE queueAlertSends(r)
  BY <1>6, SendSteps DEF queueAlertSends
<1>7. CASE LogAsync(r)
  BY <1>7, SendSteps DEF LogAsync
<1>8. CASE Log(r)
  BY <1>8, SendSteps DEF Log
<1>9. CASE RecordRequest(r)
  BY <1>9, SendSteps DEF RecordRequest
<1>. QED BY <1>1, <1>2, <1>3, <1>4, <1>5, <1>6, <1>7, <1>8, <1>9 DEF Caller

\* A worker that leaves writes its batch first where the code says so; it
\* leaves a queue that is read to the end only when that is empty.
Leaves(w) ==
    \E flushes \in BOOLEAN :
        /\ Leave(w, flushes)
        /\ kind \in {"usage", "audit"} => flushes
        /\ kind \in {"request", "lblog"} => ~flushes
        /\ kind = "request" => Drained

LEMMA WorkerSteps ==
    ASSUME NEW w, Worker(w)
    PROVE  Take(w) \/ (Tick(w) /\ kind \in Batched) \/ Leaves(w) \/ WriteBatch(w) \/ WriteRow(w)
<1>1. kind \in {"usage", "audit"} /\ Leave(w, TRUE) => Leaves(w)
  <2>1. kind \in {"usage", "audit"} => kind # "request" /\ kind # "lblog"
    OBVIOUS
  <2>. QED BY <2>1, Zenon DEF Leaves
<1>2. kind \in {"alert", "lblog", "monitor"} /\ Leave(w, FALSE) => Leaves(w)
  <2>1. kind \in {"alert", "lblog", "monitor"} =>
          kind # "request" /\ kind # "usage" /\ kind # "audit"
    OBVIOUS
  <2>. QED BY <2>1, Zenon DEF Leaves
<1>3. kind = "request" /\ Drained /\ Leave(w, FALSE) => Leaves(w)
  <2>1. kind = "request" => kind # "usage" /\ kind # "audit"
    OBVIOUS
  <2>. QED BY <2>1, Zenon DEF Leaves
<1>4. CASE usageWorker(w)
  BY <1>1, <1>4 DEF usageWorker, Batched
<1>5. CASE auditWorker(w)
  <2>1. kind = "audit"
    BY <1>5 DEF auditWorker
  <2>2. Take(w) \/ Tick(w) \/ Leave(w, TRUE)
    BY <1>5, Zenon DEF auditWorker
  <2>. QED BY <1>1, <2>1, <2>2, Zenon DEF Batched
<1>6. CASE alertWorker(w)
  <2>1. kind = "alert"
    BY <1>6 DEF alertWorker
  <2>2. Take(w) \/ Leave(w, FALSE)
    BY <1>6, Zenon DEF alertWorker
  <2>. QED BY <1>2, <2>1, <2>2, Zenon
<1>7. CASE requestWorker(w)
  BY <1>3, <1>7, Zenon DEF requestWorker
<1>8. CASE lblogWorker(w)
  <2>1. kind = "lblog"
    BY <1>8 DEF lblogWorker
  <2>2. Take(w) \/ Tick(w) \/ Leave(w, FALSE)
    BY <1>8, Zenon DEF lblogWorker
  <2>. QED BY <1>2, <2>1, <2>2, Zenon DEF Batched
<1>9. CASE monitorWorker(w)
  <2>1. kind = "monitor"
    BY <1>9 DEF monitorWorker
  <2>2. Take(w) \/ Leave(w, FALSE)
    BY <1>9, Zenon DEF monitorWorker
  <2>. QED BY <1>2, <2>1, <2>2, Zenon
<1>. QED BY <1>4, <1>5, <1>6, <1>7, <1>8, <1>9 DEF Worker

\* The steps of Next, as the proofs below take them apart.
LEMMA NextSteps ==
    ASSUME Next
    PROVE  \/ \E r \in Records : Waits(r) \/ Sends(r) \/ SyncWrite(r)
           \/ \E w \in Team : \/ Take(w) \/ (Tick(w) /\ kind \in Batched) \/ Leaves(w)
                              \/ WriteBatch(w) \/ WriteRow(w) \/ Sent(w)
           \/ WindowPasses \/ Cancel \/ StopStep
<1>1. CASE \E r \in Records : Caller(r)
  BY <1>1, CallerSteps
<1>2. CASE \E w \in Team : Worker(w)
  BY <1>2, WorkerSteps
<1>3. CASE \E w \in Team : Sent(w)
  BY <1>3
<1>4. CASE WindowPasses \/ Cancel \/ StopCalled \/ StopGoesOn
  BY <1>4 DEF StopCalled, StopGoesOn
<1>. QED BY <1>1, <1>2, <1>3, <1>4, Zenon DEF Next

LEMMA TeamWorks == Team \subseteq Workers /\ Team # {}
BY QueueAssumption DEF Team

-----------------------------------------------------------------------------
LEMMA TypesInit == ASSUME Init PROVE QueueTypes
BY DEF Init, QueueTypes, CallerStates, WorkerStates

LEMMA TypesStep ==
    ASSUME QueueTypes, Distinct(queue), \A w \in Workers : Distinct(batch[w]),
           [Next]_vars
    PROVE  QueueTypes'
<1>1. CASE UNCHANGED vars
  BY <1>1 DEF vars, QueueTypes
<1>2. ASSUME NEW r \in Records, Waits(r) PROVE QueueTypes'
  BY <1>2 DEF Waits, QueueTypes
<1>3. ASSUME NEW r \in Records, Sends(r) PROVE QueueTypes'
  BY <1>3 DEF Sends, QueueTypes, CallerStates
<1>4. ASSUME NEW r \in Records, SyncWrite(r) PROVE QueueTypes'
  BY <1>4 DEF SyncWrite, workers, QueueTypes, CallerStates
<1>5. ASSUME NEW w \in Team, Take(w) PROVE QueueTypes'
  <2>1. queue' \in Seq(Records) /\ Head(queue) \in Records
    BY <1>5, TailSet DEF Take, QueueTypes
  <2>2. w \in Workers /\ batch[w] \in Seq(Records)
    BY TeamWorks DEF QueueTypes
  <2>3. Append(batch[w], Head(queue)) \in Seq(Records)
    BY <2>1, <2>2
  <2>4. batch' \in [Workers -> Seq(Records)]
    BY <1>5, <2>2, <2>3 DEF Take, QueueTypes
  <2>5. wpc' \in [Workers -> WorkerStates]
    BY <1>5 DEF Take, QueueTypes, WorkerStates
  <2>. QED BY <1>5, <2>1, <2>4, <2>5 DEF Take, workerFrame, callers, table, QueueTypes
<1>6. ASSUME NEW w \in Team, Tick(w) PROVE QueueTypes'
  BY <1>6 DEF Tick, workerFrame, callers, table, QueueTypes, WorkerStates
<1>7. ASSUME NEW w \in Team, Leaves(w) PROVE QueueTypes'
  BY <1>7 DEF Leaves, Leave, workerFrame, callers, table, QueueTypes, WorkerStates
<1>8. ASSUME NEW w \in Team, WriteBatch(w) PROVE QueueTypes'
  <2>1. w \in Workers /\ batch[w] \in Seq(Records) /\ ToSet(batch[w]) \subseteq Records
    BY TeamWorks DEF QueueTypes, ToSet
  <2>2. After(w) \in WorkerStates
    BY DEF After, WorkerStates
  <2>3. \E x \in {"sending", "rows", "lastrows", After(w)} : wpc' = [wpc EXCEPT ![w] = x]
    BY <1>8 DEF WriteBatch
  <2>6. wpc' \in [Workers -> WorkerStates]
    BY <2>2, <2>3 DEF QueueTypes, WorkerStates
  <2>7. batch' = [batch EXCEPT ![w] = <<>>] \/ batch' = batch
    BY <1>8 DEF WriteBatch
  <2>8. failed' = failed \cup ToSet(batch[w]) \/ failed' = failed
    BY <1>8 DEF WriteBatch
  <2>9. failed' \in SUBSET Records
    BY <2>1, <2>8 DEF QueueTypes
  <2>4. batch' \in [Workers -> Seq(Records)]
    <3>1. batch \in [Workers -> Seq(Records)] /\ <<>> \in Seq(Records)
      BY DEF QueueTypes
    <3>. QED BY <2>7, <3>1
  <2>5. stored' \in [Records -> Nat]
    <3>1. \A r \in Records : stored[r] + 1 \in Nat /\ stored[r] + 0 \in Nat
      BY DEF QueueTypes
    <3>2. \/ stored' = stored
          \/ stored' = [r \in Records |-> stored[r] + IF r \in ToSet(batch[w]) THEN 1 ELSE 0]
      BY <1>8 DEF WriteBatch
    <3>. QED BY <3>1, <3>2 DEF QueueTypes
  <2>. QED BY <1>8, <2>4, <2>5, <2>6, <2>9 DEF WriteBatch, workerFrame, callers, QueueTypes
<1>9. ASSUME NEW w \in Team, WriteRow(w) PROVE QueueTypes'
  <2>1. w \in Workers /\ batch[w] \in Seq(Records)
    BY TeamWorks DEF QueueTypes
  <2>2. After(w) \in WorkerStates
    BY DEF After, WorkerStates
  <2>3. batch[w] # <<>> => Head(batch[w]) \in Records /\ Tail(batch[w]) \in Seq(Records)
    BY <2>1, TailSet
  <2>4. wpc' \in [Workers -> WorkerStates]
    BY <1>9, <2>2 DEF WriteRow, QueueTypes, WorkerStates
  <2>5. batch' \in [Workers -> Seq(Records)] /\ failed' \in SUBSET Records
    BY <1>9, <2>1, <2>3 DEF WriteRow, QueueTypes, table
  <2>6. stored' \in [Records -> Nat]
    BY <1>9, <2>3 DEF WriteRow, QueueTypes, table
  <2>. QED BY <1>9, <2>4, <2>5, <2>6 DEF WriteRow, workerFrame, callers, QueueTypes
<1>12. ASSUME NEW w \in Team, Sent(w) PROVE QueueTypes'
  BY <1>12 DEF Sent, workerFrame, callers, table, QueueTypes, WorkerStates
<1>10. ASSUME WindowPasses \/ Cancel PROVE QueueTypes'
  BY <1>10 DEF WindowPasses, Cancel, callerFrame, callers, workers, table, QueueTypes
<1>11. ASSUME StopStep PROVE QueueTypes'
  <2>1. stopAt' \in Nat
    BY <1>11 DEF StopStep, QueueTypes
  <2>2. wpc' \in [Workers -> WorkerStates]
    BY <1>11 DEF StopStep, QueueTypes, WorkerStates
  <2>. QED BY <1>11, <2>1, <2>2 DEF StopStep, callers, table, QueueTypes
<1>. QED BY <1>1, <1>2, <1>3, <1>4, <1>5, <1>6, <1>7, <1>8, <1>9, <1>10, <1>11, <1>12, NextSteps

-----------------------------------------------------------------------------
(* Every record is in one place                                            *)

LEMMA PlacesInit == ASSUME Init PROVE PlacesInv
<1>1. ToSet(<<>>) = {} /\ Distinct(<<>>)
  BY EmptySet
<1>2. \A r \in Records : OnePlace(r)
  BY <1>1 DEF Init, OnePlace, Waiting, Queued, Holders, Unwritten
<1>. QED BY <1>1, <1>2 DEF Init, PlacesInv

\* Another batch in the hands of w.
LEMMA NewBatch ==
    ASSUME NEW w \in Workers, NEW b, batch \in [Workers -> Seq(Records)],
           batch' = [batch EXCEPT ![w] = b], NEW r
    PROVE  /\ r \in ToSet(b) => Holders(r)' = Holders(r) \union {w}
           /\ r \notin ToSet(b) => Holders(r)' = Holders(r) \ {w}
<1>1. \A v \in Workers : batch'[v] = IF v = w THEN b ELSE batch[v]
  OBVIOUS
<1>. QED BY <1>1 DEF Holders

LEMMA PlacesSame ==
    ASSUME PlacesInv, UNCHANGED <<queue, batch, stored, failed>>,
           \A r \in Records : Waiting(r)' <=> Waiting(r)
    PROVE  PlacesInv'
<1>1. \A r \in Records : Holders(r)' = Holders(r)
  BY DEF Holders
<1>2. \A r \in Records : (Queued(r)' <=> Queued(r)) /\ (Unwritten(r)' <=> Unwritten(r))
                     /\ (Written(r)' <=> Written(r)) /\ (GivenUp(r)' <=> GivenUp(r))
                     /\ stored'[r] = stored[r]
  BY DEF Queued, Unwritten, Written, GivenUp
<1>3. \A r \in Records : Held(r)' <=> Held(r)
  BY <1>1 DEF Held
<1>4. ASSUME NEW r \in Records PROVE OnePlace(r)'
  <2>1. OnePlace(r)
    BY DEF PlacesInv
  <2>. QED BY <1>1, <1>2, <1>3, <2>1 DEF OnePlace
<1>. QED BY <1>4 DEF PlacesInv

LEMMA PlacesCaller ==
    ASSUME QueueTypes, PlacesInv, NEW r \in Records,
           Waits(r) \/ Sends(r) \/ SyncWrite(r)
    PROVE  PlacesInv'
<1>1. CASE Waits(r)
  <2>1. PICK s \in CallerStates \ {"accepted"} : pc' = [pc EXCEPT ![r] = s]
    BY <1>1 DEF Waits
  <2>2. \A x \in Records : Waiting(x)' <=> Waiting(x)
    BY <1>1, <2>1 DEF Waits, Waiting, QueueTypes
  <2>. QED BY <1>1, <2>2, PlacesSame DEF Waits
<1>2. CASE Sends(r)
  <2>1. Waiting(r) /\ OnePlace(r)
    BY <1>2 DEF Sends, Waiting, PlacesInv
  <2>2. ~Queued(r) /\ Holders(r) = {} /\ Unwritten(r)
    BY <2>1 DEF OnePlace
  <2>3. ToSet(queue') = ToSet(queue) \union {r} /\ Distinct(queue')
    BY <1>2, <2>2, AppendSet DEF Sends, QueueTypes, PlacesInv, Queued
  <2>4. \A x \in Records : Waiting(x)' <=> (Waiting(x) /\ x # r)
    BY <1>2 DEF Sends, Waiting, QueueTypes
  <2>5. \A x \in Records : Holders(x)' = Holders(x) /\ stored'[x] = stored[x]
    BY <1>2 DEF Sends, Holders
  <2>6. failed' = failed
    BY <1>2 DEF Sends
  <2>7. ASSUME NEW x \in Records PROVE OnePlace(x)'
    <3>1. CASE x = r
      BY <2>2, <2>3, <2>4, <2>5, <2>6, <3>1 DEF OnePlace, Unwritten, Queued
    <3>2. CASE x # r
      <4>1. OnePlace(x)
        BY DEF PlacesInv
      <4>2. Held(x)' <=> Held(x)
        BY <1>2, <2>5 DEF Held
      <4>3. Queued(x)' <=> Queued(x)
        BY <2>3, <3>2 DEF Queued
      <4>4. Waiting(x)' <=> Waiting(x)
        BY <2>4, <3>2
      <4>. QED BY <2>5, <2>6, <4>1, <4>2, <4>3, <4>4
               DEF OnePlace, Unwritten, Written, GivenUp
    <3>. QED BY <3>1, <3>2
  <2>8. batch' = batch
    BY <1>2 DEF Sends
  <2>. QED BY <2>3, <2>7, <2>8 DEF PlacesInv
<1>3. CASE SyncWrite(r)
  <2>1. Waiting(r) /\ OnePlace(r)
    BY <1>3 DEF SyncWrite, Waiting, PlacesInv
  <2>2. ~Queued(r) /\ Holders(r) = {} /\ stored[r] = 0 /\ r \notin failed
    BY <2>1 DEF OnePlace, Unwritten
  <2>3. queue' = queue /\ batch' = batch
    BY <1>3 DEF SyncWrite, workers
  <2>4. \A x \in Records : Waiting(x)' <=> (Waiting(x) /\ x # r)
    BY <1>3 DEF SyncWrite, Waiting, QueueTypes
  <2>5. \A x \in Records : Holders(x)' = Holders(x) /\ (Queued(x)' <=> Queued(x))
    BY <2>3 DEF Holders, Queued
  <2>6. \/ stored'[r] = 1 /\ failed' = failed
        \/ stored'[r] = 0 /\ failed' = failed \union {r}
    BY <1>3, <2>2 DEF SyncWrite, QueueTypes
  <2>7. \A x \in Records : x # r => stored'[x] = stored[x] /\ (x \in failed' <=> x \in failed)
    BY <1>3 DEF SyncWrite, QueueTypes
  <2>8. ASSUME NEW x \in Records PROVE OnePlace(x)'
    <3>1. CASE x = r
      BY <2>2, <2>4, <2>5, <2>6, <3>1 DEF OnePlace, Written, GivenUp
    <3>2. CASE x # r
      <4>1. OnePlace(x)
        BY DEF PlacesInv
      <4>2. Held(x)' <=> Held(x)
        BY <2>5 DEF Held
      <4>. QED BY <2>4, <2>5, <2>7, <3>2, <4>1, <4>2
               DEF OnePlace, Unwritten, Written, GivenUp
    <3>. QED BY <3>1, <3>2
  <2>. QED BY <2>3, <2>8 DEF PlacesInv
<1>. QED BY <1>1, <1>2, <1>3

LEMMA PlacesTake ==
    ASSUME QueueTypes, PlacesInv, NEW w \in Workers, Take(w)
    PROVE  PlacesInv'
<1>1. PICK r : r = Head(queue)
  OBVIOUS
<1>2. queue # <<>> /\ queue' = Tail(queue) /\ batch' = [batch EXCEPT ![w] = Append(@, r)]
  BY <1>1 DEF Take
<1>3. pc' = pc /\ stored' = stored /\ failed' = failed
  BY DEF Take, workerFrame, callers, table
<1>4. /\ r \in Records /\ r \in ToSet(queue)
      /\ ToSet(queue') = ToSet(queue) \ {r} /\ Distinct(queue')
  BY <1>1, <1>2, TailSet DEF QueueTypes, PlacesInv
<1>5. ~Waiting(r) /\ Holders(r) = {} /\ Unwritten(r)
  <2>1. OnePlace(r) /\ Queued(r)
    BY <1>4 DEF PlacesInv, Queued
  <2>. QED BY <2>1 DEF OnePlace
<1>6. batch[w] \in Seq(Records) /\ r \notin ToSet(batch[w]) /\ Distinct(batch[w])
  BY <1>5 DEF QueueTypes, Holders, PlacesInv
<1>7. ToSet(Append(batch[w], r)) = ToSet(batch[w]) \union {r} /\ Distinct(Append(batch[w], r))
  BY <1>4, <1>6, AppendSet
<1>8. \A v \in Workers : Distinct(batch'[v])
  BY <1>2, <1>7 DEF PlacesInv, QueueTypes
<1>9. ASSUME NEW x \in Records PROVE OnePlace(x)'
  <2>1. /\ x \in ToSet(Append(batch[w], r)) => Holders(x)' = Holders(x) \union {w}
        /\ x \notin ToSet(Append(batch[w], r)) => Holders(x)' = Holders(x) \ {w}
    BY <1>2, NewBatch DEF QueueTypes
  <2>2. CASE x = r
    <3>1. Holders(r)' = {w}
      BY <1>5, <1>7, <2>1, <2>2
    <3>2. Held(r)'
      BY <3>1 DEF Held
    <3>. QED BY <1>3, <1>4, <1>5, <2>2, <3>2 DEF OnePlace, Waiting, Queued, Unwritten
  <2>3. CASE x # r
    <3>1. x \in ToSet(Append(batch[w], r)) <=> w \in Holders(x)
      BY <1>7, <2>3 DEF Holders
    <3>2. Holders(x)' = Holders(x)
      BY <2>1, <3>1
    <3>3. Held(x)' <=> Held(x)
      BY <3>2 DEF Held
    <3>4. Queued(x)' <=> Queued(x)
      BY <1>4, <2>3 DEF Queued
    <3>5. OnePlace(x)
      BY DEF PlacesInv
    <3>. QED BY <1>3, <3>2, <3>3, <3>4, <3>5
             DEF OnePlace, Waiting, Unwritten, Written, GivenUp
  <2>. QED BY <2>2, <2>3
<1>. QED BY <1>4, <1>8, <1>9 DEF PlacesInv

\* A worker puts the records of "done" into the table or gives them up, and
\* keeps the rest of its batch.
LEMMA PlacesWrite ==
    ASSUME QueueTypes, PlacesInv, NEW w \in Workers, NEW rest, NEW done,
           UNCHANGED <<pc, queue>>, batch' = [batch EXCEPT ![w] = rest],
           Distinct(rest), done \subseteq ToSet(batch[w]),
           ToSet(rest) = ToSet(batch[w]) \ done,
           \/ failed' = failed /\ \A x \in Records :
                stored'[x] = IF x \in done THEN stored[x] + 1 ELSE stored[x]
           \/ stored' = stored /\ failed' = failed \union done
    PROVE  PlacesInv'
<1>1. \A v \in Workers : Distinct(batch'[v])
  BY DEF PlacesInv, QueueTypes
<1>2. ASSUME NEW x \in Records PROVE OnePlace(x)'
  <2>1. /\ x \in ToSet(rest) => Holders(x)' = Holders(x) \union {w}
        /\ x \notin ToSet(rest) => Holders(x)' = Holders(x) \ {w}
    BY NewBatch DEF QueueTypes
  <2>2. OnePlace(x)
    BY DEF PlacesInv
  <2>3. CASE x \in done
    <3>1. w \in Holders(x)
      BY <2>3 DEF Holders
    <3>2. ~Waiting(x) /\ ~Queued(x) /\ Held(x) /\ stored[x] = 0 /\ x \notin failed
      BY <2>2, <3>1 DEF OnePlace, Unwritten
    <3>3. Holders(x) = {w}
      BY <3>1, <3>2 DEF Held
    <3>4. Holders(x)' = {}
      BY <2>1, <2>3, <3>3
    <3>5. \/ stored'[x] = 1 /\ x \notin failed'
          \/ stored'[x] = 0 /\ x \in failed'
      BY <2>3, <3>2
    <3>. QED BY <3>2, <3>4, <3>5 DEF OnePlace, Waiting, Queued, Written, GivenUp
  <2>4. CASE x \notin done
    <3>1. x \in ToSet(rest) <=> w \in Holders(x)
      BY <2>4 DEF Holders
    <3>2. Holders(x)' = Holders(x)
      BY <2>1, <3>1
    <3>3. Held(x)' <=> Held(x)
      BY <3>2 DEF Held
    <3>4. stored'[x] = stored[x] /\ (x \in failed' <=> x \in failed)
      BY <2>4
    <3>. QED BY <2>2, <3>2, <3>3, <3>4
             DEF OnePlace, Waiting, Queued, Unwritten, Written, GivenUp
  <2>. QED BY <2>3, <2>4
<1>. QED BY <1>1, <1>2 DEF PlacesInv

LEMMA PlacesWriteBatch ==
    ASSUME QueueTypes, PlacesInv, NEW w \in Workers, WriteBatch(w)
    PROVE  PlacesInv'
<1>1. pc' = pc /\ queue' = queue
  BY DEF WriteBatch, workerFrame, callers
<1>2. CASE /\ batch' = [batch EXCEPT ![w] = <<>>]
           /\ \/ failed' = failed /\ \A x \in Records :
                   stored'[x] = IF x \in ToSet(batch[w]) THEN stored[x] + 1 ELSE stored[x]
              \/ stored' = stored /\ failed' = failed \union ToSet(batch[w])
  <2>1. ToSet(<<>>) = ToSet(batch[w]) \ ToSet(batch[w]) /\ Distinct(<<>>)
    BY EmptySet
  <2>. QED BY <1>1, <1>2, <2>1, PlacesWrite
<1>3. CASE UNCHANGED <<batch, stored, failed>>
  BY <1>1, <1>3, PlacesSame DEF Waiting
<1>4. ASSUME stored' = [r \in Records |-> stored[r] + IF r \in ToSet(batch[w]) THEN 1 ELSE 0]
      PROVE  \A x \in Records :
               stored'[x] = IF x \in ToSet(batch[w]) THEN stored[x] + 1 ELSE stored[x]
  BY <1>4 DEF QueueTypes
<1>. QED BY <1>2, <1>3, <1>4 DEF WriteBatch

LEMMA PlacesWriteRow ==
    ASSUME QueueTypes, PlacesInv, NEW w \in Workers, WriteRow(w)
    PROVE  PlacesInv'
<1>1. pc' = pc /\ queue' = queue
  BY DEF WriteRow, workerFrame, callers
<1>2. CASE UNCHANGED <<batch, stored, failed>>
  BY <1>1, <1>2, PlacesSame DEF Waiting
<1>3. CASE /\ batch[w] # <<>> /\ batch' = [batch EXCEPT ![w] = Tail(@)]
           /\ \/ stored' = [stored EXCEPT ![Head(batch[w])] = @ + 1] /\ failed' = failed
              \/ stored' = stored /\ failed' = failed \union {Head(batch[w])}
  <2>1. /\ Head(batch[w]) \in Records /\ Head(batch[w]) \in ToSet(batch[w])
        /\ ToSet(Tail(batch[w])) = ToSet(batch[w]) \ {Head(batch[w])}
        /\ Distinct(Tail(batch[w]))
    BY <1>3, TailSet DEF QueueTypes, PlacesInv
  <2>2. \/ failed' = failed /\ \A x \in Records :
             stored'[x] = IF x \in {Head(batch[w])} THEN stored[x] + 1 ELSE stored[x]
        \/ stored' = stored /\ failed' = failed \union {Head(batch[w])}
    BY <1>3, <2>1 DEF QueueTypes
  <2>3. {Head(batch[w])} \subseteq ToSet(batch[w])
    BY <2>1
  <2>. QED BY <1>1, <1>3, <2>1, <2>2, <2>3, PlacesWrite
<1>. QED BY <1>2, <1>3 DEF WriteRow, table

LEMMA PlacesStep == ASSUME QueueTypes, PlacesInv, [Next]_vars PROVE PlacesInv'
<1>1. CASE UNCHANGED vars
  BY <1>1, PlacesSame DEF vars, Waiting
<1>2. ASSUME NEW r \in Records, Waits(r) \/ Sends(r) \/ SyncWrite(r) PROVE PlacesInv'
  BY <1>2, PlacesCaller
<1>3. ASSUME NEW w \in Team, Take(w) PROVE PlacesInv'
  BY <1>3, PlacesTake, TeamWorks
<1>4. ASSUME NEW w \in Team, Tick(w) \/ Leaves(w) \/ Sent(w) PROVE PlacesInv'
  <2>1. UNCHANGED <<queue, batch, stored, failed>> /\ pc' = pc
    BY <1>4 DEF Tick, Leaves, Leave, Sent, workerFrame, callers, table
  <2>. QED BY <2>1, PlacesSame DEF Waiting
<1>5. ASSUME NEW w \in Team, WriteBatch(w) PROVE PlacesInv'
  BY <1>5, PlacesWriteBatch, TeamWorks
<1>6. ASSUME NEW w \in Team, WriteRow(w) PROVE PlacesInv'
  BY <1>6, PlacesWriteRow, TeamWorks
<1>7. CASE WindowPasses \/ Cancel \/ StopStep
  <2>1. UNCHANGED <<queue, batch, stored, failed>> /\ pc' = pc
    BY <1>7 DEF WindowPasses, Cancel, StopStep, callerFrame, callers, workers, table
  <2>. QED BY <2>1, PlacesSame DEF Waiting
<1>. QED BY <1>1, <1>2, <1>3, <1>4, <1>5, <1>6, <1>7, NextSteps

-----------------------------------------------------------------------------
(* What stopping leaves behind                                             *)

LEMMA StopInit == ASSUME Init PROVE StopInv
<1>1. kind \in Kinds /\ stopAt = 0 /\ Len(StopPlan) \in 1 .. 4
  BY Plans DEF Init
<1>2. \A w \in Workers : wpc[w] = "select" /\ batch[w] = <<>>
  BY DEF Init
<1>3. ASSUME NEW w \in Workers PROVE HandsInv(w)
  BY <1>1, <1>2 DEF HandsInv
<1>. QED BY <1>1, <1>3, TeamWorks DEF StopInv

\* A step in which the procedure of stopping makes no step.
LEMMA StopFrame ==
    ASSUME QueueTypes, StopInv, kind' = kind, stopAt' = stopAt
    PROVE  /\ stopAt' <= Len(StopPlan)' /\ Team' = Team
           /\ \A x : Did(x)' <=> Did(x)
BY DEF StopInv, StopPlan, Team, Did

\* Nothing changes for the worker v.
LEMMA HandsSame ==
    ASSUME NEW v, HandsInv(v), kind' = kind, stopAt' = stopAt,
           wpc'[v] = wpc[v], batch'[v] = batch[v],
           Did("close") => Did("close")',
           kind = "request" /\ wpc[v] = "done" => queue' = queue
    PROVE  HandsInv(v)'
BY DEF HandsInv

LEMMA StopCaller ==
    ASSUME QueueTypes, StopInv, NEW r \in Records,
           Waits(r) \/ Sends(r) \/ SyncWrite(r)
    PROVE  StopInv'
<1>1. UNCHANGED <<kind, batch, wpc, stopAt>>
  BY DEF Waits, Sends, SyncWrite, workers
<1>2. queue' = queue \/ ~Did("close")
  BY DEF Waits, Sends, SyncWrite, workers
<1>3. /\ stopAt' <= Len(StopPlan)' /\ Team' = Team /\ \A x : Did(x)' <=> Did(x)
  BY <1>1, StopFrame
<1>4. ASSUME NEW v \in Team PROVE HandsInv(v)'
  <2>1. HandsInv(v)
    BY DEF StopInv
  <2>2. kind = "request" /\ wpc[v] = "done" => queue' = queue
    BY <1>2, <2>1 DEF HandsInv
  <2>. QED BY <1>1, <1>3, <2>1, <2>2, HandsSame
<1>. QED BY <1>3, <1>4 DEF StopInv

LEMMA StopWorker ==
    ASSUME QueueTypes, StopInv, NEW w \in Team,
           Take(w) \/ (Tick(w) /\ kind \in Batched) \/ Leaves(w) \/ WriteBatch(w) \/ WriteRow(w)
             \/ Sent(w)
    PROVE  StopInv'
<1>1. kind' = kind /\ stopAt' = stopAt
  BY DEF Take, Tick, Leaves, Leave, WriteBatch, WriteRow, Sent, workerFrame
<1>2. /\ stopAt' <= Len(StopPlan)' /\ Team' = Team /\ \A x : Did(x)' <=> Did(x)
  BY <1>1, StopFrame
<1>3. HandsInv(w) /\ w \in Workers
  BY TeamWorks DEF StopInv
<1>4. stopAt <= 4
  <2>1. stopAt \in Nat /\ stopAt <= Len(StopPlan)
    BY DEF QueueTypes, StopInv
  <2>2. PICK n \in 1 .. 4 : n = Len(StopPlan)
    BY Plans DEF QueueTypes
  <2>3. n \in {1, 2, 3, 4} /\ stopAt <= n
    BY <2>1, <2>2
  <2>4. n = 1 \/ n = 2 \/ n = 3 \/ n = 4
    BY <2>3
  <2>. QED BY <2>1, <2>3, <2>4
<1>5. queue' = queue \/ queue # <<>>
  BY DEF Take, Tick, Leaves, Leave, WriteBatch, WriteRow, Sent
<1>6. ASSUME NEW v \in Team, v # w PROVE HandsInv(v)'
  <2>1. HandsInv(v) /\ v \in Workers
    BY TeamWorks DEF StopInv
  <2>2. wpc'[v] = wpc[v]
    BY <1>6, <2>1 DEF Take, Tick, Leaves, Leave, WriteBatch, WriteRow, Sent, QueueTypes
  <2>3. batch'[v] = batch[v]
    BY <1>6, <2>1 DEF Take, Tick, Leaves, Leave, WriteBatch, WriteRow, Sent, QueueTypes
  <2>4. kind = "request" /\ wpc[v] = "done" => queue' = queue
    BY <1>5, <2>1 DEF HandsInv
  <2>. QED BY <1>1, <1>2, <2>1, <2>2, <2>3, <2>4, HandsSame
<1>7. HandsInv(w)'
  <2>. USE <1>1, <1>3
  <2>1. CASE Take(w)
    <3>1. wpc[w] = "select" /\ wpc'[w] \in {"select", "write"}
      BY <2>1 DEF Take, QueueTypes
    <3>2. wpc'[w] = "select" => kind \in Batched
      BY <2>1 DEF Take, QueueTypes
    <3>3. kind = "lblog" => stopAt # 3 /\ stopAt # 4
      BY <3>1 DEF HandsInv
    <3>. QED BY <3>1, <3>2, <3>3 DEF HandsInv
  <2>2. CASE Tick(w) /\ kind \in Batched
    <3>1. wpc[w] = "select" /\ wpc'[w] = "write" /\ kind # "request"
      BY <2>2 DEF Tick, QueueTypes, Batched
    <3>2. kind = "lblog" => stopAt # 3 /\ stopAt # 4
      BY <3>1 DEF HandsInv
    <3>. QED BY <3>1, <3>2 DEF HandsInv
  <2>3. CASE Leaves(w)
    <3>1. PICK flushes \in BOOLEAN :
              /\ Leave(w, flushes)
              /\ kind \in {"usage", "audit"} => flushes
              /\ kind \in {"request", "lblog"} => ~flushes
              /\ kind = "request" => Drained
      BY <2>3 DEF Leaves
    <3>2. /\ wpc[w] = "select" /\ batch' = batch /\ queue' = queue
          /\ wpc'[w] = IF flushes /\ batch[w] # <<>> THEN "lastwrite" ELSE "done"
      BY <3>1 DEF Leave, QueueTypes
    <3>3. kind = "lblog" => stopAt # 3 /\ stopAt # 4
      BY <3>2 DEF HandsInv
    <3>4. kind = "request" => /\ wpc'[w] = "done" /\ Did("close")' /\ queue' = <<>>
      BY <1>2, <3>1, <3>2 DEF Drained
    <3>5. wpc'[w] = "done" => batch[w] = <<>> \/ kind = "lblog"
      BY <3>1, <3>2 DEF HandsInv, Batched
    <3>6. stopAt \in Nat /\ (kind = "lblog" => stopAt < 4)
      BY <1>4, <3>3 DEF QueueTypes
    <3>7. kind = "lblog" => wpc'[w] = "done"
      BY <3>1, <3>2
    <3>8. wpc'[w] \in {"lastwrite", "done"}
      BY <3>2
    <3>. QED BY <3>2, <3>3, <3>4, <3>5, <3>6, <3>7, <3>8 DEF HandsInv
  <2>4. CASE WriteBatch(w)
    <3>1. wpc[w] \in {"write", "lastwrite"} /\ queue' = queue
      BY <2>4 DEF WriteBatch
    <3>2. /\ wpc[w] = "write" => After(w) = "select"
          /\ wpc[w] = "lastwrite" => After(w) = "done"
      BY DEF After
    <3>3. kind = "lblog" => stopAt # 3 /\ (stopAt = 4 => wpc[w] = "lastwrite")
      BY <3>1 DEF HandsInv
    <3>4. CASE batch'[w] = <<>> /\ wpc'[w] = After(w)
      <4>1. kind = "request" => wpc[w] = "write"
        BY <3>1 DEF HandsInv
      <4>. QED BY <3>1, <3>2, <3>3, <3>4, <4>1 DEF HandsInv
    <3>5. CASE /\ kind = "lblog"
               /\ wpc'[w] = IF wpc[w] = "write" THEN "rows" ELSE "lastrows"
      BY <3>1, <3>3, <3>5 DEF HandsInv
    <3>7. CASE batch'[w] = <<>> /\ wpc'[w] = "sending" /\ kind = "alert"
      BY <3>1, <3>7 DEF HandsInv
    <3>6. \/ batch' = [batch EXCEPT ![w] = <<>>] /\ wpc' = [wpc EXCEPT ![w] = After(w)]
          \/ batch' = [batch EXCEPT ![w] = <<>>] /\ wpc' = [wpc EXCEPT ![w] = "sending"] /\ kind = "alert"
          \/ kind = "lblog" /\ wpc' = [wpc EXCEPT ![w] = IF @ = "write" THEN "rows" ELSE "lastrows"]
      BY <2>4 DEF WriteBatch
    <3>. QED BY <3>4, <3>5, <3>6, <3>7 DEF QueueTypes
  <2>5. CASE WriteRow(w)
    <3>1. wpc[w] \in {"rows", "lastrows"} /\ kind = "lblog"
      BY <2>5 DEF WriteRow, HandsInv
    <3>2. stopAt # 3 /\ (stopAt = 4 => wpc[w] = "lastrows")
      BY <3>1 DEF HandsInv
    <3>3. \/ batch[w] = <<>> /\ wpc' = [wpc EXCEPT ![w] = After(w)] /\ batch' = batch
          \/ wpc' = wpc
      BY <2>5 DEF WriteRow
    <3>4. \/ batch'[w] = <<>> /\ wpc'[w] = After(w)
          \/ wpc'[w] = wpc[w]
      BY <3>3 DEF QueueTypes
    <3>5. After(w) = IF wpc[w] = "rows" THEN "select" ELSE "done"
      BY <3>1 DEF After
    <3>6. kind \in Batched
      BY <3>1 DEF Batched
    <3>. QED BY <3>1, <3>2, <3>4, <3>5, <3>6 DEF HandsInv
  <2>6. CASE Sent(w)
    <3>1. wpc[w] = "sending" /\ wpc'[w] = "select" /\ batch' = batch
      BY <2>6 DEF Sent, QueueTypes
    <3>2. kind = "alert"
      BY <3>1 DEF HandsInv
    <3>. QED BY <3>1, <3>2 DEF HandsInv
  <2>. QED BY <2>1, <2>2, <2>3, <2>4, <2>5, <2>6
<1>. QED BY <1>2, <1>6, <1>7 DEF StopInv

LEMMA StopGoes ==
    ASSUME QueueTypes, StopInv, StopStep
    PROVE  StopInv'
<1>1. /\ stopAt' = stopAt + 1 /\ stopAt' <= Len(StopPlan)' /\ \A x : Did(x) => Did(x)'
      /\ kind # "lblog" => wpc' = wpc
      /\ kind = "lblog" =>
           /\ stopAt' = 3 => Idle
           /\ stopAt' = 4 => Idle
           /\ stopAt' <= 3 => wpc' = wpc
           /\ stopAt' = 4 =>
                wpc' = IF batch[TheWorker] # <<>>
                       THEN [wpc EXCEPT ![TheWorker] = "lastwrite"] ELSE wpc
  BY StopSteps DEF StopInv
<1>2. kind' = kind /\ batch' = batch /\ queue' = queue /\ Team' = Team
  BY DEF StopStep, Team
<1>3. PICK n \in 1 .. 4 : n = stopAt' /\ n = stopAt + 1
  <2>1. stopAt' = stopAt + 1 /\ stopAt \in Nat /\ stopAt' <= Len(StopPlan)'
    BY <1>1 DEF QueueTypes
  <2>2. Len(StopPlan)' = Len(StopPlan) /\ Len(StopPlan) \in 1 .. 4
    BY <1>2, Plans DEF QueueTypes, StopPlan
  <2>3. stopAt + 1 <= Len(StopPlan)
    BY <2>1, <2>2
  <2>. QED BY <2>1, <2>2, <2>3
<1>4. ASSUME NEW v \in Team PROVE HandsInv(v)'
  <2>1. HandsInv(v) /\ v \in Workers
    BY TeamWorks DEF StopInv
  <2>2. CASE kind # "lblog"
    BY <1>1, <1>2, <2>1, <2>2 DEF HandsInv
  <2>3. CASE kind = "lblog" /\ n < 3
    <3>1. stopAt' = n /\ n # 3 /\ n # 4 /\ n < 4 /\ n <= 3
      BY <1>3, <2>3
    <3>2. stopAt' # 3 /\ stopAt' # 4 /\ stopAt' < 4 /\ wpc' = wpc
      BY <1>1, <2>3, <3>1
    <3>. QED BY <1>2, <2>1, <2>3, <3>2 DEF HandsInv
  <2>4. CASE kind = "lblog" /\ n = 3
    <3>1. stopAt' = 3 /\ stopAt' < 4 /\ wpc' = wpc /\ wpc[v] = "done"
      BY <1>1, <1>3, <2>4 DEF Idle
    <3>. QED BY <1>2, <2>1, <2>4, <3>1 DEF HandsInv
  <2>5. CASE kind = "lblog" /\ n = 4
    <3>1. stopAt' = 4 /\ wpc[v] = "done" /\ v = TheWorker
      BY <1>1, <1>3, <2>5 DEF Idle, Team
    <3>2. wpc'[v] = IF batch[v] # <<>> THEN "lastwrite" ELSE "done"
      BY <1>1, <2>1, <2>5, <3>1 DEF QueueTypes
    <3>3. wpc'[v] \in {"lastwrite", "done"} /\ (wpc'[v] = "done" => batch[v] = <<>>)
      BY <3>2
    <3>4. kind # "request"
      BY <2>5
    <3>. QED BY <1>2, <2>5, <3>1, <3>3, <3>4 DEF HandsInv
  <2>6. n < 3 \/ n = 3 \/ n = 4
    OBVIOUS
  <2>. QED BY <2>2, <2>3, <2>4, <2>5, <2>6
<1>. QED BY <1>1, <1>2, <1>4 DEF StopInv

LEMMA StopInvStep == ASSUME QueueTypes, StopInv, [Next]_vars PROVE StopInv'
<1>1. CASE UNCHANGED <<kind, stopAt, wpc, batch, queue>>
  <2>1. stopAt' <= Len(StopPlan)' /\ Team' = Team /\ \A x : Did(x)' <=> Did(x)
    BY <1>1, StopFrame
  <2>2. ASSUME NEW v \in Team PROVE HandsInv(v)'
    BY <1>1, <2>1, HandsSame DEF StopInv
  <2>. QED BY <2>1, <2>2 DEF StopInv
<1>2. UNCHANGED vars => UNCHANGED <<kind, stopAt, wpc, batch, queue>>
  BY DEF vars
<1>3. WindowPasses \/ Cancel => UNCHANGED <<kind, stopAt, wpc, batch, queue>>
  BY DEF WindowPasses, Cancel, callerFrame, callers, workers
<1>. QED BY <1>1, <1>2, <1>3, NextSteps, StopCaller, StopWorker, StopGoes

-----------------------------------------------------------------------------
\* Types, the places of records and the progress of the stop procedure together are
\* inductive, for every kind of queue.
THEOREM Invariance == Spec => []Inv
<1>1. Init => Inv
  BY TypesInit, PlacesInit, StopInit DEF Inv
<1>2. Inv /\ [Next]_vars => Inv'
  <2>. SUFFICES ASSUME Inv, [Next]_vars PROVE Inv'
    OBVIOUS
  <2>1. QueueTypes /\ PlacesInv /\ StopInv
    BY DEF Inv
  <2>2. Distinct(queue) /\ \A w \in Workers : Distinct(batch[w])
    BY <2>1 DEF PlacesInv
  <2>. QED BY <2>1, <2>2, TypesStep, PlacesStep, StopInvStep DEF Inv
<1>. QED BY <1>1, <1>2, PTL DEF Spec

\* On every queue of the program, with any number of callers, workers, failing
\* writes and whatever moment the stop falls into, a record handed over is in
\* one place: lost by no worker, written by none twice.
THEOREM RecordsOnce == Spec => []EveryRecordOnce
<1>1. ASSUME Inv PROVE EveryRecordOnce
  <2>. SUFFICES ASSUME NEW r \in Records PROVE Places(r) = 1
    BY DEF EveryRecordOnce
  <2>1. OnePlace(r)
    BY <1>1 DEF Inv, PlacesInv
  <2>2. /\ Holders(r) = {} => Cardinality(Holders(r)) = 0
        /\ Held(r) => Cardinality(Holders(r)) = 1
    BY FS_EmptySet, FS_Singleton DEF Held
  <2>3. Places(r) = One(Waiting(r)) + One(Queued(r)) + Cardinality(Holders(r))
                      + stored[r] + One(GivenUp(r))
    BY DEF Places, Waiting, Queued, Holders, GivenUp
  <2>4. CASE Waiting(r) /\ ~Queued(r) /\ Holders(r) = {} /\ Unwritten(r)
    BY <2>2, <2>3, <2>4 DEF One, Unwritten, GivenUp
  <2>5. CASE ~Waiting(r) /\ Queued(r) /\ Holders(r) = {} /\ Unwritten(r)
    BY <2>2, <2>3, <2>5 DEF One, Unwritten, GivenUp
  <2>6. CASE ~Waiting(r) /\ ~Queued(r) /\ Held(r) /\ Unwritten(r)
    BY <2>2, <2>3, <2>6 DEF One, Unwritten, GivenUp
  <2>7. CASE ~Waiting(r) /\ ~Queued(r) /\ Holders(r) = {} /\ Written(r) /\ ~GivenUp(r)
    BY <2>2, <2>3, <2>7 DEF One, Written
  <2>8. CASE ~Waiting(r) /\ ~Queued(r) /\ Holders(r) = {} /\ stored[r] = 0 /\ GivenUp(r)
    BY <2>2, <2>3, <2>8 DEF One
  <2>. QED BY <2>1, <2>4, <2>5, <2>6, <2>7, <2>8 DEF OnePlace
<1>. QED BY <1>1, Invariance, PTL

\* When Stop, Close or Shutdown has returned, no worker of any of the queues
\* holds a record any more, and the closed queues have been read to the end.
THEOREM StopFlushes == Spec => []StoppedMeansFlushed
<1>1. ASSUME Inv PROVE StoppedMeansFlushed
  <2>. SUFFICES ASSUME stopAt = Len(StopPlan), Idle
                PROVE  /\ \A w \in Team : batch[w] = <<>>
                       /\ kind = "request" => queue = <<>>
    BY DEF StoppedMeansFlushed, Returned
  <2>1. \A w \in Team : wpc[w] = "done" /\ HandsInv(w)
    BY <1>1 DEF Idle, Inv, StopInv
  <2>2. kind = "lblog" => ~(stopAt < 4)
    <3>1. kind \in Kinds /\ stopAt \in Nat
      BY <1>1 DEF Inv, QueueTypes
    <3>2. ASSUME kind = "lblog" PROVE ~(stopAt < 4)
      <4>1. StopPlan = <<"flag", "signal", "wait", "flush">>
        BY <3>1, <3>2, Plans
      <4>2. stopAt = 4
        BY <4>1
      <4>. QED BY <4>2
    <3>. QED BY <3>2
  <2>. QED BY <2>1, <2>2, TeamWorks DEF HandsInv
<1>. QED BY <1>1, Invariance, PTL
=============================================================================
