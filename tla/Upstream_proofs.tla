----------------------------- MODULE Upstream_proofs -----------------------------
(***************************************************************************)
(* Theorems about Upstream, for any retry budgets, timeouts and back-offs, *)
(* any set of refusals and any request.                                    *)
(***************************************************************************)
EXTENDS Upstream, TLAPS

LEMMA ConstantsOK ==
    /\ RetryCount \in Nat \ {0} /\ Max429 \in Nat /\ MaxStallRetries \in Nat
    /\ BackoffBase \in Nat \ {0} /\ BackoffMax \in Nat \ {0} /\ Timeout \in Nat \ {0}
    /\ ConnectTimeout \in Nat \ {0} /\ HeaderTimeout \in Nat \ {0}
    /\ Max429Delay \in Nat \ {0} /\ StallTimeout \in Nat \ {0}
    /\ MaxRetries \in [Retryable -> Nat]
BY UpstreamAssumption

LEMMA DeadlineOK ==
    /\ Deadline \in Nat
    /\ Deadline >= 2 * HeaderTimeout
BY ConstantsOK DEF Deadline, LargerOf

\* A back-off is a number of ticks, and never more than BackoffMax.
LEMMA BackoffOK ==
    ASSUME NEW n \in 1..RetryCount
    PROVE  Backoff(n) \in Nat /\ Backoff(n) <= BackoffMax
<1>1. 2 ^ (n - 1) \in Nat
  BY UpstreamAssumption
<1>2. \A x, y \in Nat : x * y \in Nat
  OBVIOUS
<1>3. BackoffBase * 2 ^ (n - 1) \in Nat
  BY <1>1, <1>2, ConstantsOK
<1>. QED BY <1>3, ConstantsOK DEF Backoff, SmallerOf

-----------------------------------------------------------------------------
(* Types                                                                   *)

LEMMA TypeInit == Init => TypeOK
<1>. SUFFICES ASSUME Init PROVE TypeOK
  OBVIOUS
<1>1. PICK s \in Setups : mode = s.mode /\ endpoint = s.endpoint /\ quirks = s.quirks
  BY DEF Init
<1>2. /\ mode \in {"stream", "nonstream"}
      /\ endpoint \in {"chat", "responses", "flat-tools"}
      /\ quirks \subseteq {"tool_choice", "tool_call_id"}
  BY <1>1, UpstreamAssumption
<1>. QED BY <1>2 DEF Init, TypeOK

LEMMA TypeStep == TypeOK /\ [Next]_vars => TypeOK'
<1>. SUFFICES ASSUME TypeOK, [Next]_vars PROVE TypeOK'
  OBVIOUS
<1>. USE ConstantsOK, DeadlineOK DEF TypeOK, same, client, engine, waits
<1>1. ASSUME FreshClient
      PROVE  /\ attempt' \in Nat /\ count429' \in Nat /\ sent' \in Nat /\ elapsed' \in Nat
             /\ (quirks' = quirks => fixed' \subseteq quirks') /\ raw' \in BOOLEAN
             /\ dawdled' \in BOOLEAN
  BY <1>1 DEF FreshClient
<1>2. ASSUME EnterClient
      PROVE  FreshClient /\ pc' = "loop" /\ timer' \in Nat /\ limit' \in Nat /\ late' \in Nat
  BY <1>2 DEF EnterClient
<1>3. ASSUME NEW text, Return(text)
      PROVE  FreshClient /\ pc' \in {"engine", "answer"} /\ timer' \in Nat /\ limit' \in Nat
  BY <1>3 DEF Return
<1>4. ASSUME Send
      PROVE  pc' = "inflight" /\ sent' \in Nat /\ timer' \in Nat /\ limit' \in Nat
  BY <1>4 DEF Send
<1>5. ASSUME NEW text, Again(text)
      PROVE  /\ pc' = "loop" /\ timer' \in Nat /\ limit' \in Nat
             /\ attempt' \in Nat /\ count429' \in Nat /\ sent' \in Nat /\ elapsed' \in Nat
             /\ dawdled' = dawdled
  BY <1>5 DEF Again
<1>6. ASSUME NEW kind, Finish(kind)
      PROVE  pc' = "done" /\ reply' = kind /\ timer' \in Nat /\ limit' \in Nat
  BY <1>6 DEF Finish
<1>7. CASE StartRequest
  BY <1>7, <1>1, <1>2 DEF StartRequest
<1>8. CASE StartTooLate
  BY <1>8 DEF StartTooLate
<1>9. CASE LoopTop
  <2>1. CASE \E text : Return(text)
    BY <2>1, <1>9, <1>1, <1>3 DEF LoopTop
  <2>2. CASE pc' = "backoff" /\ attempt \in 1..RetryCount /\ timer' = Backoff(attempt)
             /\ limit' = timer' /\ UNCHANGED <<client, err>>
    BY <2>2, <1>9, BackoffOK DEF LoopTop
  <2>3. CASE Send /\ UNCHANGED <<attempt, count429, lastErr, elapsed, fixed, raw, dawdled, err>>
    BY <2>3, <1>9, <1>4 DEF LoopTop
  <2>. QED BY <1>9, <2>1, <2>2, <2>3 DEF LoopTop
<1>10. CASE BackoffEnds
  BY <1>10, <1>4 DEF BackoffEnds
<1>11. CASE Wait429Ends
  <2>1. CASE Return({"cancelled", "timeout"})
    BY <2>1, <1>11, <1>1, <1>3 DEF Wait429Ends
  <2>2. CASE pc' = "loop" /\ limit' = 0 /\ UNCHANGED <<timer, client, err>>
    BY <2>2, <1>11 DEF Wait429Ends
  <2>. QED BY <1>11, <2>1, <2>2 DEF Wait429Ends
<1>12. CASE DoFails
  BY <1>12, <1>5 DEF DoFails
<1>13. ASSUME NEW body, BadRequestRewritten(body)
       PROVE  TypeOK'
  <2>1. Rewrite(body) \subseteq quirks
    BY DEF Rewrite
  <2>2. raw' \in BOOLEAN
    BY <1>13 DEF BadRequestRewritten, StreamsUpstream
  <2>. QED BY <1>13, <1>5, <2>1, <2>2 DEF BadRequestRewritten
<1>14. ASSUME NEW status, NEW body, ErrorAnswer(status, body)
       PROVE  TypeOK'
  <2>1. CASE \E text : Return(text)
    BY <2>1, <1>14, <1>1, <1>3 DEF ErrorAnswer
  <2>2. CASE (\E text : Again(text)) /\ UNCHANGED <<fixed, raw>>
    BY <2>2, <1>14, <1>5 DEF ErrorAnswer
  <2>. QED BY <1>14, <2>1, <2>2 DEF ErrorAnswer
<1>15. ASSUME NEW body, NEW delay \in 1..Max429Delay, RateLimited(body, delay)
       PROVE  TypeOK'
  <2>1. exhausted' \in BOOLEAN
    BY <1>15, Zenon DEF RateLimited
  <2>2. CASE count429 >= Max429 \/ Classify429(body, 0) = "quota_exhausted"
    <3>1. Return({"rate limit"}) /\ UNCHANGED <<cooldown, same, engine, gone, reply>>
      BY <2>2, <1>15, Zenon DEF RateLimited
    <3>. QED BY <2>1, <3>1, <1>1, <1>3
  <2>3. CASE ~(count429 >= Max429 \/ Classify429(body, 0) = "quota_exhausted")
    <3>1. /\ count429' = count429 + 1
          /\ cooldown' = LargerOf(cooldown, delay)
          /\ pc' = "wait429"
          /\ timer' = delay
          /\ limit' = IF StreamsUpstream THEN Deadline - SmallerOf(elapsed, Deadline)
                      ELSE limit
          /\ UNCHANGED <<attempt, sent, elapsed, fixed, raw, dawdled, err>>
      BY <2>3, <1>15, Zenon DEF RateLimited
    <3>4. UNCHANGED <<same, engine, gone, reply>>
      BY <1>15, Zenon DEF RateLimited
    <3>2. Deadline - SmallerOf(elapsed, Deadline) \in Nat
      BY DEF SmallerOf
    <3>3. LargerOf(cooldown, delay) \in Nat
      BY DEF LargerOf
    <3>. QED BY <2>1, <3>1, <3>2, <3>3, <3>4
  <2>. QED BY <2>2, <2>3
<1>16. CASE StreamOpens
  BY <1>16, <1>1 DEF StreamOpens, HandOver
<1>17. CASE Answered
  <2>1. CASE Again({"empty"}) /\ UNCHANGED <<fixed, raw>>
    BY <2>1, <1>17, <1>5 DEF Answered
  <2>2. CASE Return({"empty"})
    BY <2>2, <1>17, <1>1, <1>3 DEF Answered
  <2>3. CASE pc' = "answered" /\ timer' = 0 /\ limit' = 0 /\ FreshClient /\ UNCHANGED err
    BY <2>3, <1>17, <1>1 DEF Answered
  <2>. QED BY <1>17, <2>1, <2>2, <2>3 DEF Answered
<1>18. CASE EngineFails
  BY <1>18 DEF EngineFails
<1>19. CASE EngineBacksOff
  <2>1. ClassifyError(err) \in Retryable
    BY <1>19 DEF EngineBacksOff, IsRetryable
  <2>2. tries' \in [Retryable -> Nat]
    BY <1>19, <2>1 DEF EngineBacksOff
  <2>. QED BY <1>19, <2>2 DEF EngineBacksOff
<1>20. CASE EngineWakes
  <2>1. CASE EnterClient
    BY <2>1, <1>20, <1>1, <1>2 DEF EngineWakes
  <2>2. CASE /\ pc' = "done" /\ timer' = 0 /\ limit' = 0
             /\ reply' = IF stalls = 0 THEN "api_error" ELSE "overloaded_error"
             /\ UNCHANGED <<client, err, engine>>
    <3>1. reply' \in {"api_error", "overloaded_error"}
      BY <2>2
    <3>2. UNCHANGED <<same, gone, cooldown, exhausted>>
      BY <1>20 DEF EngineWakes
    <3>. QED BY <2>2, <3>1, <3>2
  <2>. QED BY <1>20, <2>1, <2>2 DEF EngineWakes
<1>21. CASE FirstData
  BY <1>21, <1>6 DEF FirstData
<1>22. CASE FirstReadFails
  BY <1>22, <1>6 DEF FirstReadFails
<1>23. CASE CallerLeft
  BY <1>23, <1>6 DEF CallerLeft
<1>24. CASE Stalled
  <2>1. CASE stalls < MaxStallRetries
    <3>1. EnterClient /\ stalls' = stalls + 1 /\ calls' = 1 /\ UNCHANGED reply
      BY <2>1, <1>24 DEF Stalled
    <3>2. tries' \in [Retryable -> Nat]
      BY <2>1, <1>24 DEF Stalled
    <3>3. UNCHANGED <<same, err, gone, cooldown, exhausted>>
      BY <1>24 DEF Stalled
    <3>. QED BY <3>1, <3>2, <3>3, <1>1, <1>2
  <2>2. CASE ~(stalls < MaxStallRetries)
    <3>1. Finish("overloaded_error") /\ UNCHANGED <<client, engine>>
      BY <2>2, <1>24, Zenon DEF Stalled
    <3>2. UNCHANGED <<same, err, gone, cooldown, exhausted>>
      BY <1>24 DEF Stalled
    <3>. QED BY <3>1, <3>2, <1>6
  <2>. QED BY <2>1, <2>2
<1>25. CASE AnswerError
  <2>1. SendErrorResponse(err) \in {"overloaded_error", "api_error"}
    BY DEF SendErrorResponse
  <2>. QED BY <1>25, <1>6, <2>1 DEF AnswerError
<1>26. CASE Assembled
  BY <1>26 DEF Assembled
<1>27. CASE AnswerResponse
  BY <1>27, <1>6 DEF AnswerResponse
<1>28. CASE Disconnect
  BY <1>28 DEF Disconnect
<1>29. CASE OtherCooldown
  BY <1>29 DEF OtherCooldown, LargerOf
<1>30. CASE Tick
  BY <1>30 DEF Tick, LargerOf, SmallerOf
<1>31. CASE UNCHANGED vars
  BY <1>31 DEF vars
<1>32. CASE ErrorHeaders
  BY <1>32 DEF ErrorHeaders
<1>33. CASE Peeked
  BY <1>33 DEF Peeked, HandOver
<1>34. CASE Dawdle
  <2>1. UNCHANGED <<same, pc, attempt, count429, sent, fixed, raw, engine, gone,
                    exhausted, reply>>
    BY <1>34 DEF Dawdle
  <2>2. timer' \in Nat /\ dawdled' \in BOOLEAN
    <3>1. timer' \in {timer, timer - 1} /\ (timer' = timer - 1 => timer > 0)
      BY <1>34 DEF Dawdle
    <3>2. timer' \in Nat
      BY <3>1
    <3>3. dawdled' = dawdled \/ dawdled' = TRUE
      BY <1>34, Zenon DEF Dawdle
    <3>4. dawdled' \in BOOLEAN
      BY <3>3, Zenon
    <3>. QED BY <3>2, <3>4
  <2>3. limit' \in Nat
    <3>1. limit' \in {limit, limit - 1} /\ (limit' = limit - 1 => limit > 0)
      BY <1>34 DEF Dawdle
    <3>. QED BY <3>1
  <2>4. elapsed' \in Nat /\ cooldown' \in Nat
    BY <1>34 DEF Dawdle, LargerOf, SmallerOf
  <2>. QED BY <2>1, <2>2, <2>3, <2>4
<1>. QED
  BY <1>7, <1>8, <1>9, <1>10, <1>11, <1>12, <1>13, <1>14, <1>15, <1>16, <1>17, <1>18,
     <1>19, <1>20, <1>21, <1>22, <1>23, <1>24, <1>25, <1>26, <1>27, <1>28, <1>29, <1>30,
     <1>31, <1>32, <1>33, <1>34
     DEF Next, Client, Transport, ErrorBody, Handler, Done

\* Every variable keeps its type.
THEOREM UpstreamTypes == Spec => []TypeOK
BY TypeInit, TypeStep, PTL DEF Spec
-----------------------------------------------------------------------------
(* The invariants                                                          *)

\* The client's counters: what has been sent is what has been tried and what
\* has been sat out; between two calls of the client they are zero.
Attempts ==
    /\ pc \in {"loop", "backoff", "wait429"} => sent = attempt + count429
    /\ pc \in {"inflight", "reading"} => sent = attempt + count429 + 1
    /\ pc \in {"backoff", "inflight", "reading", "wait429"} => attempt <= RetryCount
    /\ pc = "loop" => attempt <= RetryCount + 1
    /\ pc = "backoff" => attempt >= 1
    /\ pc = "wait429" => count429 >= 1
    /\ count429 <= Max429
    /\ pc \notin {"loop", "backoff", "inflight", "reading", "wait429"} =>
          attempt = 0 /\ count429 = 0 /\ sent = 0 /\ elapsed = 0

\* What the engine's categories have used of their budgets together.
Used == tries["rate_limit"] + tries["server_error"] + tries["network"]

\* Every client call of an engine run but the first was paid for before.
Runs ==
    /\ \A c \in Retryable : tries[c] <= MaxRetries[c]
    /\ calls <= 1 + Used
    /\ pc = "engine_sleep" => calls <= Used
    /\ pc = "start" => calls = 0 /\ Used = 0

\* Once the late call has begun, nothing can begin another.
LateCalls ==
    /\ late <= 1
    /\ late = 1 => /\ gone /\ pc \notin {"start", "engine_sleep"}
                   /\ pc \in {"peek", "stall"} => timer > 0

\* How much time a streaming call has lost before its second request, if no
\* body of an error has taken longer than the headers may.
FirstAttemptTime ==
    StreamsUpstream /\ ~dawdled =>
      /\ pc = "loop" /\ sent = 0 => elapsed = 0
      /\ pc \in {"inflight", "reading"} /\ sent = 1 => elapsed + timer <= ConnectTimeout + HeaderTimeout
      /\ pc = "loop" /\ sent = 1 =>
            elapsed <= ConnectTimeout + HeaderTimeout +
                         (IF count429 = 0 THEN 0 ELSE Max429Delay)
      /\ pc = "wait429" /\ sent = 1 =>
            /\ elapsed + timer <= ConnectTimeout + HeaderTimeout + Max429Delay
            /\ FirstAttemptFits => timer < limit

LEMMA AttemptsInit == Init => Attempts
BY ConstantsOK DEF Init, Attempts

LEMMA AttemptsStep == TypeOK /\ Attempts /\ [Next]_vars => Attempts'
<1>. SUFFICES ASSUME TypeOK, Attempts, [Next]_vars PROVE Attempts'
  OBVIOUS
<1>. USE ConstantsOK DEF Attempts, TypeOK, client, engine, waits
<1>1. ASSUME FreshClient PROVE attempt' = 0 /\ count429' = 0 /\ sent' = 0 /\ elapsed' = 0
  BY <1>1 DEF FreshClient
<1>2. ASSUME EnterClient PROVE FreshClient /\ pc' = "loop"
  BY <1>2 DEF EnterClient
<1>3. ASSUME NEW text, Return(text) PROVE FreshClient /\ pc' \in {"engine", "answer"}
  BY <1>3 DEF Return
<1>4. ASSUME Send PROVE pc' = "inflight" /\ sent' = sent + 1
  BY <1>4 DEF Send
<1>5. ASSUME NEW text, Again(text)
      PROVE  /\ pc' = "loop" /\ attempt' = attempt + 1
             /\ count429' = count429 /\ sent' = sent /\ elapsed' = elapsed
  BY <1>5 DEF Again
<1>6. ASSUME NEW kind, Finish(kind) PROVE pc' = "done"
  BY <1>6 DEF Finish
<1>7. CASE StartRequest
  BY <1>7, <1>1, <1>2, <1>3, <1>4, <1>5, <1>6 DEF StartRequest
<1>8. CASE StartTooLate
  BY <1>8, <1>1, <1>2, <1>3, <1>4, <1>5, <1>6 DEF StartTooLate
<1>9. CASE LoopTop
  <2>1. CASE \E text : Return(text)
    BY <2>1, <1>9, <1>1, <1>3 DEF LoopTop
  <2>2. CASE ~(\E text : Return(text))
    BY <2>2, <1>9, <1>4 DEF LoopTop
  <2>. QED BY <2>1, <2>2
<1>10. CASE BackoffEnds
  BY <1>10, <1>1, <1>2, <1>3, <1>4, <1>5, <1>6 DEF BackoffEnds
<1>11. CASE Wait429Ends
  BY <1>11, <1>1, <1>2, <1>3, <1>4, <1>5, <1>6 DEF Wait429Ends
<1>12. CASE DoFails
  BY <1>12, <1>1, <1>2, <1>3, <1>4, <1>5, <1>6 DEF DoFails
<1>13. ASSUME NEW body, BadRequestRewritten(body)
       PROVE  Attempts'
  BY <1>13, <1>1, <1>2, <1>3, <1>4, <1>5, <1>6 DEF BadRequestRewritten
<1>14. ASSUME NEW status, NEW body, ErrorAnswer(status, body)
       PROVE  Attempts'
  <2>1. CASE \E text : Return(text)
    BY <2>1, <1>1, <1>3
  <2>2. CASE ~(\E text : Return(text))
    <3>1. pc = "reading" /\ (\E text : Again(text))
      BY <2>2, <1>14 DEF ErrorAnswer
    <3>. QED BY <3>1, <1>5
  <2>. QED BY <2>1, <2>2
<1>15. ASSUME NEW body, NEW delay \in 1..Max429Delay, RateLimited(body, delay)
       PROVE  Attempts'
  <2>1. CASE count429 >= Max429 \/ Classify429(body, 0) = "quota_exhausted"
    <3>1. Return({"rate limit"})
      BY <2>1, <1>15, Zenon DEF RateLimited
    <3>2. FreshClient /\ pc' \in {"engine", "answer"}
      BY <3>1, <1>3
    <3>. QED BY <3>2, <1>1
  <2>2. CASE ~(count429 >= Max429 \/ Classify429(body, 0) = "quota_exhausted")
    <3>1. /\ count429' = count429 + 1 /\ pc' = "wait429"
          /\ UNCHANGED <<attempt, sent>>
      BY <2>2, <1>15, Zenon DEF RateLimited
    <3>2. pc = "reading" /\ count429 < Max429
      BY <2>2, <1>15 DEF RateLimited
    <3>. QED BY <3>1, <3>2
  <2>. QED BY <2>1, <2>2
<1>16. CASE StreamOpens
  BY <1>16, <1>1, <1>2, <1>3, <1>4, <1>5, <1>6 DEF StreamOpens, HandOver
<1>17. CASE Answered
  <2>1. CASE pc = "inflight" /\ Again({"empty"})
    BY <2>1, <1>5
  <2>2. CASE Return({"empty"})
    BY <2>2, <1>1, <1>3
  <2>3. CASE FreshClient /\ pc' = "answered"
    BY <2>3, <1>1
  <2>. QED BY <1>17, <2>1, <2>2, <2>3 DEF Answered
<1>18. CASE EngineFails
  BY <1>18, <1>1, <1>2, <1>3, <1>4, <1>5, <1>6 DEF EngineFails
<1>19. CASE EngineBacksOff
  BY <1>19, <1>1, <1>2, <1>3, <1>4, <1>5, <1>6 DEF EngineBacksOff
<1>20. CASE EngineWakes
  BY <1>20, <1>1, <1>2, <1>3, <1>4, <1>5, <1>6 DEF EngineWakes
<1>21. CASE FirstData
  BY <1>21, <1>1, <1>2, <1>3, <1>4, <1>5, <1>6 DEF FirstData
<1>22. CASE FirstReadFails
  BY <1>22, <1>1, <1>2, <1>3, <1>4, <1>5, <1>6 DEF FirstReadFails
<1>23. CASE CallerLeft
  BY <1>23, <1>1, <1>2, <1>3, <1>4, <1>5, <1>6 DEF CallerLeft
<1>24. CASE Stalled
  <2>1. CASE stalls < MaxStallRetries
    <3>1. EnterClient
      BY <2>1, <1>24 DEF Stalled
    <3>. QED BY <3>1, <1>1, <1>2
  <2>2. CASE ~(stalls < MaxStallRetries)
    <3>1. Finish("overloaded_error") /\ UNCHANGED client
      BY <2>2, <1>24, Zenon DEF Stalled
    <3>. QED BY <3>1, <1>24, <1>6 DEF Stalled
  <2>. QED BY <2>1, <2>2
<1>25. CASE AnswerError
  BY <1>25, <1>1, <1>2, <1>3, <1>4, <1>5, <1>6 DEF AnswerError
<1>26. CASE Assembled
  BY <1>26, <1>1, <1>2, <1>3, <1>4, <1>5, <1>6 DEF Assembled
<1>27. CASE AnswerResponse
  BY <1>27, <1>1, <1>2, <1>3, <1>4, <1>5, <1>6 DEF AnswerResponse
<1>28. CASE Disconnect
  BY <1>28, <1>1, <1>2, <1>3, <1>4, <1>5, <1>6 DEF Disconnect
<1>29. CASE OtherCooldown
  BY <1>29, <1>1, <1>2, <1>3, <1>4, <1>5, <1>6 DEF OtherCooldown
<1>30. CASE Tick
  BY <1>30 DEF Tick, Waiting
<1>31. CASE UNCHANGED vars
  BY <1>31, <1>1, <1>2, <1>3, <1>4, <1>5, <1>6 DEF vars
<1>32. CASE ErrorHeaders
  BY <1>32 DEF ErrorHeaders, client, waits
<1>33. CASE Peeked
  BY <1>33 DEF Peeked, HandOver, client, waits
<1>34. CASE Dawdle
  BY <1>34 DEF Dawdle, waits
<1>. QED
  BY <1>7, <1>8, <1>9, <1>10, <1>11, <1>12, <1>13, <1>14, <1>15,
     <1>16, <1>17, <1>18, <1>19, <1>20, <1>21, <1>22, <1>23, <1>24,
     <1>25, <1>26, <1>27, <1>28, <1>29, <1>30, <1>31, <1>32, <1>33, <1>34
     DEF Next, Client, Transport, ErrorBody, Handler, Done

LEMMA RunsInit == Init => Runs
BY ConstantsOK DEF Init, Runs, Used, Retryable

LEMMA RunsStep == TypeOK /\ Runs /\ [Next]_vars => Runs'
<1>. SUFFICES ASSUME TypeOK, Runs, [Next]_vars PROVE Runs'
  OBVIOUS
<1>. USE ConstantsOK DEF Runs, TypeOK, engine
<1>1. ASSUME EnterClient PROVE pc' = "loop"
  BY <1>1 DEF EnterClient
<1>2. ASSUME NEW text, Return(text) PROVE pc' \in {"engine", "answer"}
  BY <1>2 DEF Return
<1>3. ASSUME Send PROVE pc' = "inflight"
  BY <1>3 DEF Send
<1>4. ASSUME NEW text, Again(text) PROVE pc' = "loop"
  BY <1>4 DEF Again
<1>5. ASSUME NEW kind, Finish(kind) PROVE pc' = "done"
  BY <1>5 DEF Finish
<1>6. ASSUME UNCHANGED <<tries, calls>>, pc' \notin {"start", "engine_sleep"} \/ pc' = pc
      PROVE  Runs'
  BY <1>6 DEF Used, Retryable
<1>7. CASE StartRequest
  BY <1>7, <1>1 DEF StartRequest, Used, Retryable
<1>8. CASE StartTooLate
  BY <1>8, <1>1, <1>2, <1>3, <1>4, <1>5, <1>6 DEF StartTooLate
<1>9. CASE LoopTop
  <2>1. UNCHANGED <<tries, calls>> /\ pc' \in {"engine", "answer", "backoff", "inflight"}
    BY <1>9, <1>1, <1>2, <1>3, <1>4, <1>5, <1>6 DEF LoopTop
  <2>. QED BY <2>1, <1>6
<1>10. CASE BackoffEnds
  BY <1>10, <1>1, <1>2, <1>3, <1>4, <1>5, <1>6 DEF BackoffEnds
<1>11. CASE Wait429Ends
  BY <1>11, <1>1, <1>2, <1>3, <1>4, <1>5, <1>6 DEF Wait429Ends
<1>12. CASE DoFails
  BY <1>12, <1>1, <1>2, <1>3, <1>4, <1>5, <1>6 DEF DoFails
<1>13. ASSUME NEW body, BadRequestRewritten(body)
       PROVE  Runs'
  BY <1>13, <1>1, <1>2, <1>3, <1>4, <1>5, <1>6 DEF BadRequestRewritten
<1>14. ASSUME NEW status, NEW body, ErrorAnswer(status, body)
       PROVE  Runs'
  BY <1>14, <1>1, <1>2, <1>3, <1>4, <1>5, <1>6 DEF ErrorAnswer
<1>15. ASSUME NEW body, NEW delay \in 1..Max429Delay, RateLimited(body, delay)
       PROVE  Runs'
  <2>1. UNCHANGED <<tries, calls>>
    BY <1>15, Zenon DEF RateLimited
  <2>2. pc' \in {"engine", "answer", "wait429"}
    <3>1. CASE count429 >= Max429 \/ Classify429(body, 0) = "quota_exhausted"
      <4>1. Return({"rate limit"})
        BY <3>1, <1>15, Zenon DEF RateLimited
      <4>. QED BY <4>1, <1>2
    <3>2. CASE ~(count429 >= Max429 \/ Classify429(body, 0) = "quota_exhausted")
      BY <3>2, <1>15, Zenon DEF RateLimited
    <3>. QED BY <3>1, <3>2
  <2>. QED BY <2>1, <2>2, <1>6
<1>16. CASE StreamOpens
  BY <1>16, <1>1, <1>2, <1>3, <1>4, <1>5, <1>6 DEF StreamOpens, HandOver
<1>17. CASE Answered
  BY <1>17, <1>1, <1>2, <1>3, <1>4, <1>5, <1>6 DEF Answered
<1>18. CASE EngineFails
  BY <1>18, <1>1, <1>2, <1>3, <1>4, <1>5, <1>6 DEF EngineFails
<1>19. CASE EngineBacksOff
  <2>. DEFINE c == ClassifyError(err)
  <2>1. /\ c \in Retryable /\ tries[c] < MaxRetries[c]
        /\ tries' = [tries EXCEPT ![c] = tries[c] + 1]
        /\ pc' = "engine_sleep" /\ calls' = calls
    BY <1>19 DEF EngineBacksOff, IsRetryable
  <2>. HIDE DEF c
  <2>2. Used' = Used + 1
    BY <2>1 DEF Used, Retryable
  <2>3. \A d \in Retryable : tries'[d] <= MaxRetries[d]
    BY <2>1
  <2>4. Used \in Nat
    BY DEF Used, Retryable
  <2>. QED BY <2>1, <2>2, <2>3, <2>4
<1>20. CASE EngineWakes
  <2>1. CASE EnterClient /\ calls' = calls + 1 /\ UNCHANGED tries
    BY <2>1, <1>20, <1>1 DEF EngineWakes, Used, Retryable
  <2>2. CASE pc' = "done" /\ UNCHANGED engine
    BY <2>2, <1>20, <1>6 DEF EngineWakes
  <2>. QED BY <1>20, <2>1, <2>2 DEF EngineWakes
<1>21. CASE FirstData
  BY <1>21, <1>1, <1>2, <1>3, <1>4, <1>5, <1>6 DEF FirstData
<1>22. CASE FirstReadFails
  BY <1>22, <1>1, <1>2, <1>3, <1>4, <1>5, <1>6 DEF FirstReadFails
<1>23. CASE CallerLeft
  BY <1>23, <1>1, <1>2, <1>3, <1>4, <1>5, <1>6 DEF CallerLeft
<1>24. CASE Stalled
  <2>1. CASE stalls < MaxStallRetries
    <3>1. EnterClient /\ tries' = [c \in Retryable |-> 0] /\ calls' = 1
      BY <2>1, <1>24 DEF Stalled
    <3>. QED BY <3>1, <1>1 DEF Used, Retryable
  <2>2. CASE ~(stalls < MaxStallRetries)
    <3>1. Finish("overloaded_error") /\ UNCHANGED engine
      BY <2>2, <1>24, Zenon DEF Stalled
    <3>. QED BY <3>1, <1>5, <1>6
  <2>. QED BY <2>1, <2>2
<1>25. CASE AnswerError
  BY <1>25, <1>1, <1>2, <1>3, <1>4, <1>5, <1>6 DEF AnswerError
<1>26. CASE Assembled
  BY <1>26, <1>1, <1>2, <1>3, <1>4, <1>5, <1>6 DEF Assembled
<1>27. CASE AnswerResponse
  BY <1>27, <1>1, <1>2, <1>3, <1>4, <1>5, <1>6 DEF AnswerResponse
<1>28. CASE Disconnect
  BY <1>28, <1>1, <1>2, <1>3, <1>4, <1>5, <1>6 DEF Disconnect
<1>29. CASE OtherCooldown
  BY <1>29, <1>1, <1>2, <1>3, <1>4, <1>5, <1>6 DEF OtherCooldown
<1>30. CASE Tick
  BY <1>30, <1>1, <1>2, <1>3, <1>4, <1>5, <1>6 DEF Tick
<1>31. CASE UNCHANGED vars
  BY <1>31, <1>1, <1>2, <1>3, <1>4, <1>5, <1>6 DEF vars
<1>32. CASE ErrorHeaders
  BY <1>32, <1>6 DEF ErrorHeaders
<1>33. CASE Peeked
  BY <1>33, <1>6 DEF Peeked, HandOver
<1>34. CASE Dawdle
  BY <1>34, <1>6 DEF Dawdle
<1>. QED
  BY <1>7, <1>8, <1>9, <1>10, <1>11, <1>12, <1>13, <1>14, <1>15,
     <1>16, <1>17, <1>18, <1>19, <1>20, <1>21, <1>22, <1>23, <1>24,
     <1>25, <1>26, <1>27, <1>28, <1>29, <1>30, <1>31, <1>32, <1>33, <1>34
     DEF Next, Client, Transport, ErrorBody, Handler, Done

LEMMA LateCallsInit == Init => LateCalls
BY DEF Init, LateCalls

LEMMA LateCallsStep == TypeOK /\ LateCalls /\ [Next]_vars => LateCalls'
<1>. SUFFICES ASSUME TypeOK, LateCalls, [Next]_vars PROVE LateCalls'
  OBVIOUS
<1>. USE ConstantsOK DEF LateCalls, TypeOK, engine
<1>1. ASSUME EnterClient PROVE pc' = "loop" /\ late' = IF gone THEN late + 1 ELSE late
  BY <1>1 DEF EnterClient
<1>2. ASSUME NEW text, Return(text) PROVE pc' \in {"engine", "answer"}
  BY <1>2 DEF Return
<1>3. ASSUME Send PROVE pc' = "inflight"
  BY <1>3 DEF Send
<1>4. ASSUME NEW text, Again(text) PROVE pc' = "loop"
  BY <1>4 DEF Again
<1>5. ASSUME NEW kind, Finish(kind) PROVE pc' = "done"
  BY <1>5 DEF Finish
<1>6. ASSUME UNCHANGED <<late, gone>>, pc' \notin {"start", "engine_sleep", "peek", "stall"}
      PROVE  LateCalls'
  BY <1>6
<1>7. CASE StartRequest
  BY <1>7, <1>1, <1>2, <1>3, <1>4, <1>5, <1>6 DEF StartRequest
<1>8. CASE StartTooLate
  BY <1>8, <1>1, <1>2, <1>3, <1>4, <1>5, <1>6 DEF StartTooLate
<1>9. CASE LoopTop
  <2>1. UNCHANGED <<late, gone>> /\ pc' \in {"engine", "answer", "backoff", "inflight"}
    BY <1>9, <1>1, <1>2, <1>3, <1>4, <1>5, <1>6 DEF LoopTop
  <2>. QED BY <2>1, <1>6
<1>10. CASE BackoffEnds
  BY <1>10, <1>1, <1>2, <1>3, <1>4, <1>5, <1>6 DEF BackoffEnds
<1>11. CASE Wait429Ends
  BY <1>11, <1>1, <1>2, <1>3, <1>4, <1>5, <1>6 DEF Wait429Ends
<1>12. CASE DoFails
  BY <1>12, <1>1, <1>2, <1>3, <1>4, <1>5, <1>6 DEF DoFails
<1>13. ASSUME NEW body, BadRequestRewritten(body)
       PROVE  LateCalls'
  BY <1>13, <1>1, <1>2, <1>3, <1>4, <1>5, <1>6 DEF BadRequestRewritten
<1>14. ASSUME NEW status, NEW body, ErrorAnswer(status, body)
       PROVE  LateCalls'
  BY <1>14, <1>1, <1>2, <1>3, <1>4, <1>5, <1>6 DEF ErrorAnswer
<1>15. ASSUME NEW body, NEW delay \in 1..Max429Delay, RateLimited(body, delay)
       PROVE  LateCalls'
  <2>1. UNCHANGED <<late, gone>>
    BY <1>15, Zenon DEF RateLimited
  <2>2. pc' \in {"engine", "answer", "wait429"}
    <3>1. CASE count429 >= Max429 \/ Classify429(body, 0) = "quota_exhausted"
      <4>1. Return({"rate limit"})
        BY <3>1, <1>15, Zenon DEF RateLimited
      <4>. QED BY <4>1, <1>2
    <3>2. CASE ~(count429 >= Max429 \/ Classify429(body, 0) = "quota_exhausted")
      BY <3>2, <1>15, Zenon DEF RateLimited
    <3>. QED BY <3>1, <3>2
  <2>. QED BY <2>1, <2>2, <1>6
<1>16. CASE StreamOpens
  BY <1>16, <1>1, <1>2, <1>3, <1>4, <1>5, <1>6 DEF StreamOpens, HandOver
<1>17. CASE Answered
  BY <1>17, <1>1, <1>2, <1>3, <1>4, <1>5, <1>6 DEF Answered
<1>18. CASE EngineFails
  BY <1>18, <1>1, <1>2, <1>3, <1>4, <1>5, <1>6 DEF EngineFails
<1>19. CASE EngineBacksOff
  BY <1>19, <1>1, <1>2, <1>3, <1>4, <1>5, <1>6 DEF EngineBacksOff
<1>20. CASE EngineWakes
  <2>1. CASE EnterClient /\ UNCHANGED gone
    BY <2>1, <1>20, <1>1 DEF EngineWakes
  <2>2. CASE pc' = "done" /\ UNCHANGED <<late, gone>>
    BY <2>2, <1>6
  <2>. QED BY <1>20, <2>1, <2>2 DEF EngineWakes
<1>21. CASE FirstData
  BY <1>21, <1>1, <1>2, <1>3, <1>4, <1>5, <1>6 DEF FirstData
<1>22. CASE FirstReadFails
  BY <1>22, <1>1, <1>2, <1>3, <1>4, <1>5, <1>6 DEF FirstReadFails
<1>23. CASE CallerLeft
  BY <1>23, <1>1, <1>2, <1>3, <1>4, <1>5, <1>6 DEF CallerLeft
<1>24. CASE Stalled
  <2>1. UNCHANGED gone /\ late = 0
    BY <1>24 DEF Stalled
  <2>2. CASE stalls < MaxStallRetries
    <3>1. EnterClient
      BY <2>2, <1>24 DEF Stalled
    <3>. QED BY <2>1, <3>1, <1>1
  <2>3. CASE ~(stalls < MaxStallRetries)
    <3>1. Finish("overloaded_error") /\ UNCHANGED late
      BY <2>3, <1>24, Zenon DEF Stalled
    <3>. QED BY <2>1, <3>1, <1>5, <1>6
  <2>. QED BY <2>2, <2>3
<1>25. CASE AnswerError
  BY <1>25, <1>1, <1>2, <1>3, <1>4, <1>5, <1>6 DEF AnswerError
<1>26. CASE Assembled
  BY <1>26, <1>1, <1>2, <1>3, <1>4, <1>5, <1>6 DEF Assembled
<1>27. CASE AnswerResponse
  BY <1>27, <1>1, <1>2, <1>3, <1>4, <1>5, <1>6 DEF AnswerResponse
<1>28. CASE Disconnect
  BY <1>28, <1>1, <1>2, <1>3, <1>4, <1>5, <1>6 DEF Disconnect
<1>29. CASE OtherCooldown
  BY <1>29, <1>1, <1>2, <1>3, <1>4, <1>5, <1>6 DEF OtherCooldown
<1>30. CASE Tick
  BY <1>30 DEF Tick, Waiting
<1>31. CASE UNCHANGED vars
  BY <1>31 DEF vars, waits
<1>32. CASE ErrorHeaders
  BY <1>32, <1>6 DEF ErrorHeaders, client, waits
<1>33. CASE Peeked
  BY <1>33 DEF Peeked, HandOver, client, waits
<1>34. CASE Dawdle
  BY <1>34, <1>6 DEF Dawdle
<1>. QED
  BY <1>7, <1>8, <1>9, <1>10, <1>11, <1>12, <1>13, <1>14, <1>15,
     <1>16, <1>17, <1>18, <1>19, <1>20, <1>21, <1>22, <1>23, <1>24,
     <1>25, <1>26, <1>27, <1>28, <1>29, <1>30, <1>31, <1>32, <1>33, <1>34
     DEF Next, Client, Transport, ErrorBody, Handler, Done

LEMMA FirstAttemptTimeInit == Init => FirstAttemptTime
BY DEF Init, FirstAttemptTime

LEMMA FirstAttemptTimeStep == TypeOK /\ Attempts /\ FirstAttemptTime /\ [Next]_vars => FirstAttemptTime'
<1>. SUFFICES ASSUME TypeOK, Attempts, FirstAttemptTime, [Next]_vars PROVE FirstAttemptTime'
  OBVIOUS
<1>. USE ConstantsOK DEF FirstAttemptTime, TypeOK, Attempts, client, engine, waits
<1>1. ASSUME FreshClient PROVE attempt' = 0 /\ count429' = 0 /\ sent' = 0 /\ elapsed' = 0
  BY <1>1 DEF FreshClient
<1>2. ASSUME EnterClient PROVE FreshClient /\ pc' = "loop"
  BY <1>2 DEF EnterClient
<1>3. ASSUME NEW text, Return(text) PROVE FreshClient /\ pc' \in {"engine", "answer"}
  BY <1>3 DEF Return
<1>4. ASSUME Send
      PROVE  pc' = "inflight" /\ sent' = sent + 1 /\ timer' = ConnectTimeout + HeaderTimeout
  BY <1>4 DEF Send
<1>5. ASSUME NEW text, Again(text)
      PROVE  /\ pc' = "loop" /\ attempt' = attempt + 1
             /\ count429' = count429 /\ sent' = sent /\ elapsed' = elapsed
             /\ dawdled' = dawdled
  BY <1>5 DEF Again
<1>6. ASSUME NEW kind, Finish(kind) PROVE pc' = "done"
  BY <1>6 DEF Finish
<1>7. ASSUME pc' \notin {"loop", "backoff", "inflight", "reading", "wait429"}
      PROVE  FirstAttemptTime'
  BY <1>7
<1>8. CASE StartRequest
  BY <1>8, <1>1, <1>2, <1>3, <1>4, <1>5, <1>6, <1>7 DEF StartRequest, StreamsUpstream, same
<1>9. CASE StartTooLate
  BY <1>9, <1>1, <1>2, <1>3, <1>4, <1>5, <1>6, <1>7 DEF StartTooLate
<1>10. CASE LoopTop
  <2>1. CASE \E text : Return(text)
    BY <2>1, <1>3, <1>7
  <2>2. CASE pc' = "backoff"
    BY <2>2
  <2>3. CASE Send /\ UNCHANGED <<elapsed, attempt, count429, dawdled>>
    <3>1. pc = "loop" /\ UNCHANGED <<mode, endpoint>>
      BY <1>10 DEF LoopTop, same
    <3>. QED BY <2>3, <3>1, <1>4 DEF StreamsUpstream
  <2>. QED BY <1>10, <2>1, <2>2, <2>3 DEF LoopTop
<1>11. CASE BackoffEnds
  BY <1>11, <1>1, <1>2, <1>3, <1>4, <1>5, <1>6, <1>7 DEF BackoffEnds, StreamsUpstream, same
<1>12. CASE Wait429Ends
  BY <1>12, <1>3, <1>7 DEF Wait429Ends, StreamsUpstream, same
<1>13. CASE DoFails
  BY <1>13, <1>1, <1>2, <1>3, <1>4, <1>5, <1>6, <1>7 DEF DoFails, StreamsUpstream, same
<1>14. ASSUME NEW body, BadRequestRewritten(body)
       PROVE  FirstAttemptTime'
  BY <1>14, <1>1, <1>2, <1>3, <1>4, <1>5, <1>6, <1>7 DEF BadRequestRewritten, StreamsUpstream, same
<1>15. ASSUME NEW status, NEW body, ErrorAnswer(status, body)
       PROVE  FirstAttemptTime'
  <2>1. CASE \E text : Return(text)
    BY <2>1, <1>3, <1>7
  <2>2. CASE ~(\E text : Return(text))
    <3>1. pc = "reading" /\ (\E text : Again(text)) /\ UNCHANGED <<mode, endpoint>>
      BY <2>2, <1>15 DEF ErrorAnswer, same
    <3>. QED BY <3>1, <1>5 DEF StreamsUpstream
  <2>. QED BY <2>1, <2>2
<1>16. ASSUME NEW body, NEW delay \in 1..Max429Delay, RateLimited(body, delay)
       PROVE  FirstAttemptTime'
  <2>1. CASE count429 >= Max429 \/ Classify429(body, 0) = "quota_exhausted"
    <3>1. Return({"rate limit"})
      BY <2>1, <1>16, Zenon DEF RateLimited
    <3>2. pc' \in {"engine", "answer"}
      BY <3>1, <1>3
    <3>. QED BY <3>2, <1>7
  <2>2. CASE ~(count429 >= Max429 \/ Classify429(body, 0) = "quota_exhausted")
    <3>1. /\ pc' = "wait429" /\ timer' = delay
          /\ limit' = IF StreamsUpstream THEN Deadline - SmallerOf(elapsed, Deadline)
                      ELSE limit
          /\ UNCHANGED <<sent, elapsed, dawdled>>
      BY <2>2, <1>16, Zenon DEF RateLimited
    <3>2. pc = "reading" /\ UNCHANGED <<mode, endpoint>>
      BY <1>16 DEF RateLimited, same
    <3>3. SUFFICES ASSUME StreamsUpstream, ~dawdled, sent = 1
                   PROVE  /\ elapsed + timer' <= ConnectTimeout + HeaderTimeout + Max429Delay
                          /\ FirstAttemptFits => timer' < limit'
      BY <3>1, <3>2 DEF StreamsUpstream
    <3>4. elapsed + timer <= ConnectTimeout + HeaderTimeout
      BY <3>2, <3>3
    <3>5. CASE FirstAttemptFits
      <4>1. elapsed <= Deadline /\ Max429Delay < Deadline - elapsed
        BY <3>4, <3>5, DeadlineOK DEF FirstAttemptFits
      <4>2. limit' = Deadline - elapsed
        BY <3>1, <3>3, <4>1, DeadlineOK DEF SmallerOf
      <4>. QED BY <3>1, <3>4, <4>1, <4>2
    <3>. QED BY <3>1, <3>4, <3>5
  <2>. QED BY <2>1, <2>2
<1>17. CASE StreamOpens
  BY <1>17, <1>1, <1>2, <1>3, <1>4, <1>5, <1>6, <1>7 DEF StreamOpens, HandOver
<1>18. CASE Answered
  <2>1. CASE pc = "inflight" /\ Again({"empty"}) /\ UNCHANGED <<mode, endpoint>>
    BY <2>1, <1>5 DEF StreamsUpstream
  <2>2. CASE Return({"empty"})
    BY <2>2, <1>3, <1>7
  <2>3. CASE FreshClient /\ pc' = "answered"
    BY <2>3, <1>7
  <2>. QED BY <1>18, <2>1, <2>2, <2>3 DEF Answered, same
<1>19. CASE EngineFails
  BY <1>19, <1>1, <1>2, <1>3, <1>4, <1>5, <1>6, <1>7 DEF EngineFails
<1>20. CASE EngineBacksOff
  BY <1>20, <1>1, <1>2, <1>3, <1>4, <1>5, <1>6, <1>7 DEF EngineBacksOff
<1>21. CASE EngineWakes
  BY <1>21, <1>1, <1>2, <1>3, <1>4, <1>5, <1>6, <1>7 DEF EngineWakes, StreamsUpstream, same
<1>22. CASE FirstData
  BY <1>22, <1>1, <1>2, <1>3, <1>4, <1>5, <1>6, <1>7 DEF FirstData
<1>23. CASE FirstReadFails
  BY <1>23, <1>1, <1>2, <1>3, <1>4, <1>5, <1>6, <1>7 DEF FirstReadFails
<1>24. CASE CallerLeft
  BY <1>24, <1>1, <1>2, <1>3, <1>4, <1>5, <1>6, <1>7 DEF CallerLeft
<1>25. CASE Stalled
  <2>1. CASE stalls < MaxStallRetries
    <3>1. EnterClient
      BY <2>1, <1>25 DEF Stalled
    <3>. QED BY <3>1, <1>1, <1>2
  <2>2. CASE ~(stalls < MaxStallRetries)
    <3>1. Finish("overloaded_error")
      BY <2>2, <1>25, Zenon DEF Stalled
    <3>. QED BY <3>1, <1>6, <1>7
  <2>. QED BY <2>1, <2>2
<1>26. CASE AnswerError
  BY <1>26, <1>1, <1>2, <1>3, <1>4, <1>5, <1>6, <1>7 DEF AnswerError
<1>27. CASE Assembled
  BY <1>27, <1>1, <1>2, <1>3, <1>4, <1>5, <1>6, <1>7 DEF Assembled
<1>28. CASE AnswerResponse
  BY <1>28, <1>1, <1>2, <1>3, <1>4, <1>5, <1>6, <1>7 DEF AnswerResponse
<1>29. CASE Disconnect
  BY <1>29, <1>1, <1>2, <1>3, <1>4, <1>5, <1>6, <1>7 DEF Disconnect, StreamsUpstream, same
<1>30. CASE OtherCooldown
  BY <1>30, <1>1, <1>2, <1>3, <1>4, <1>5, <1>6, <1>7 DEF OtherCooldown, StreamsUpstream, same
<1>31. CASE Tick
  <2>1. /\ UNCHANGED <<mode, endpoint, pc, sent, count429, dawdled>>
        /\ timer > 0 /\ timer' = timer - 1 /\ limit' = limit - 1
        /\ pc # "loop"
    BY <1>31 DEF Tick, Waiting, same
  <2>2. PICK e \in {elapsed, elapsed + 1, Deadline + 1} :
           elapsed' = e /\ e \in Nat /\ e <= elapsed + 1
    <3>1. elapsed' = elapsed \/ elapsed' = SmallerOf(elapsed + 1, Deadline + 1)
      BY <1>31 DEF Tick
    <3>2. /\ SmallerOf(elapsed + 1, Deadline + 1) \in {elapsed + 1, Deadline + 1}
          /\ SmallerOf(elapsed + 1, Deadline + 1) <= elapsed + 1
      BY DeadlineOK DEF SmallerOf, TypeOK
    <3>3. CASE elapsed' = elapsed
      BY <3>3
    <3>4. CASE elapsed' = SmallerOf(elapsed + 1, Deadline + 1)
      BY <3>2, <3>4, DeadlineOK
    <3>. QED BY <3>1, <3>3, <3>4
  <2>. QED BY <2>1, <2>2 DEF StreamsUpstream, TypeOK
<1>32. CASE UNCHANGED vars
  BY <1>32 DEF vars, StreamsUpstream, same
<1>33. CASE ErrorHeaders
  BY <1>33 DEF ErrorHeaders, StreamsUpstream, same
<1>34. CASE Peeked
  BY <1>34, <1>7 DEF Peeked, HandOver, client, waits
<1>35. CASE Dawdle
  BY <1>35 DEF Dawdle, SmallerOf, StreamsUpstream, same
<1>. QED
  BY <1>8, <1>9, <1>10, <1>11, <1>12, <1>13, <1>14, <1>15, <1>16,
     <1>17, <1>18, <1>19, <1>20, <1>21, <1>22, <1>23, <1>24, <1>25,
     <1>26, <1>27, <1>28, <1>29, <1>30, <1>31, <1>32, <1>33, <1>34, <1>35
     DEF Next, Client, Transport, ErrorBody, Handler, Done


-----------------------------------------------------------------------------
(* The theorems                                                            *)

UpstreamInv == TypeOK /\ Attempts /\ Runs /\ LateCalls /\ FirstAttemptTime

LEMMA UpstreamInvariant == Spec => []UpstreamInv
<1>1. Init => UpstreamInv
  BY TypeInit, AttemptsInit, RunsInit, LateCallsInit, FirstAttemptTimeInit DEF UpstreamInv
<1>2. UpstreamInv /\ [Next]_vars => UpstreamInv'
  BY TypeStep, AttemptsStep, RunsStep, LateCallsStep, FirstAttemptTimeStep DEF UpstreamInv
<1>. QED BY <1>1, <1>2, PTL DEF Spec

\* The nested loops stay within their budgets, whatever these are and however
\* the upstream's answers alternate between the categories of the engine.
THEOREM EffortStaysBounded == Spec => []EffortBounded
<1>1. UpstreamInv => EffortBounded
  <2>. SUFFICES ASSUME UpstreamInv PROVE EffortBounded
    OBVIOUS
  <2>1. sent <= RetryCount + 1 + Max429
    BY ConstantsOK DEF UpstreamInv, TypeOK, Attempts
  <2>2. calls <= 1 + MaxRetries["rate_limit"] + MaxRetries["server_error"]
                   + MaxRetries["network"]
    BY ConstantsOK DEF UpstreamInv, TypeOK, Runs, Used, Retryable
  <2>. QED BY <2>1, <2>2 DEF EffortBounded
<1>. QED BY <1>1, UpstreamInvariant, PTL

\* After the caller has left at most one more client call begins, whatever the
\* budgets of the loops around the client are.
THEOREM LateCallAtMostOnce == Spec => []AtMostOneLateCall
<1>1. UpstreamInv => AtMostOneLateCall
  BY DEF UpstreamInv, LateCalls, AtMostOneLateCall
<1>. QED BY <1>1, UpstreamInvariant, PTL

\* A streaming client call that gives up for lack of time or attempts has sent
\* its request twice, for any timeouts that satisfy FirstAttemptFits, unless
\* the body of an error outlasted the time for its headers: the floor
\* of retryDeadline is high enough for the slowest first attempt.
THEOREM SlowAttemptLeavesRoom == Spec => AtLeastOneRetry
<1>1. UpstreamInv /\ [Next]_vars =>
        [(/\ FirstAttemptFits /\ StreamsUpstream /\ ~dawdled
          /\ pc \in {"loop", "wait429"} /\ pc' \in {"engine", "answer"})
            => sent >= 2]_vars
  <2>. SUFFICES ASSUME UpstreamInv, Next, FirstAttemptFits, StreamsUpstream, ~dawdled,
                       pc \in {"loop", "wait429"}, pc' \in {"engine", "answer"}
                PROVE  sent >= 2
    BY DEF vars
  <2>. USE ConstantsOK, DeadlineOK
       DEF UpstreamInv, TypeOK, Attempts, FirstAttemptTime, FirstAttemptFits
  <2>1. LoopTop \/ Wait429Ends
    <3>1. ~Transport /\ ~ErrorBody /\ ~Peeked
      BY DEF Transport, DoFails, ErrorHeaders, ErrorBody, BadRequestRewritten,
         ErrorAnswer, RateLimited, StreamOpens, Answered, Peeked
    <3>2. ~Handler
      BY DEF Handler, StartRequest, StartTooLate, EngineFails, EngineBacksOff,
         EngineWakes, FirstData, FirstReadFails, CallerLeft, Stalled, AnswerError,
         AnswerResponse
    <3>3. ~BackoffEnds /\ ~Assembled
      BY DEF BackoffEnds, Assembled
    <3>4. ~Disconnect /\ ~OtherCooldown /\ ~Tick /\ ~Dawdle /\ ~Done
      BY DEF Disconnect, OtherCooldown, Tick, Dawdle, Done, vars
    <3>. QED BY <3>1, <3>2, <3>3, <3>4 DEF Next, Client
  <2>2. CASE Wait429Ends
    BY <2>2 DEF Wait429Ends
  <2>3. CASE LoopTop
    <3>1. \/ attempt > RetryCount
          \/ elapsed > Deadline
          \/ attempt \in 1..RetryCount /\ elapsed + Backoff(attempt) > Deadline
      BY <2>3 DEF LoopTop, Send
    <3>2. CASE attempt > RetryCount
      BY <2>3, <3>2 DEF LoopTop
    <3>3. CASE elapsed > Deadline
      BY <2>3, <3>3 DEF LoopTop
    <3>4. CASE attempt \in 1..RetryCount /\ elapsed + Backoff(attempt) > Deadline
      <4>1. Backoff(attempt) \in Nat /\ Backoff(attempt) <= BackoffMax
        BY <3>4, BackoffOK
      <4>. QED BY <2>3, <3>4, <4>1 DEF LoopTop
    <3>. QED BY <3>1, <3>2, <3>3, <3>4
  <2>. QED BY <2>1, <2>2, <2>3
<1>. QED BY <1>1, UpstreamInvariant, PTL DEF Spec, AtLeastOneRetry
===============================================================================
