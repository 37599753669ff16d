------------------------------ MODULE Upstream ------------------------------
(***************************************************************************)
(* One request on its way to the upstream provider: the message handler,   *)
(* for a stream the retry engine, the OpenAI client with its retry loop    *)
(* and its separate budget for 429 answers, and the wait for the first     *)
(* data of a stream.  The upstream and the client's connection are the     *)
(* environment.  Time is counted in ticks that pass while the goroutine    *)
(* waits; `elapsed`, `timer` and `limit` are relative to the present.      *)
(***************************************************************************)
EXTENDS UpstreamErrors

CONSTANTS
    Setups,          \* what is asked of which endpoint: [mode, endpoint, quirks]
    Refusals,        \* the answers other than 200 the upstream gives: [status, body]
    RetryCount,      \* retries of the client's own loop
    Max429,          \* 429 answers one call of the client sits out
    BackoffBase, BackoffMax,
    Timeout,         \* the configured request timeout
    ConnectTimeout,  \* dial and TLS handshake of the transport
    HeaderTimeout,   \* the transport's wait for response headers
    Max429Delay,     \* the longest wait after one 429
    StallTimeout, MaxStallRetries,
    MaxRetries       \* of the engine, per retryable category

ASSUME UpstreamAssumption ==
    /\ Setups \subseteq [mode : {"stream", "nonstream"},
                        endpoint : {"chat", "responses", "flat-tools"},
                        quirks : SUBSET {"tool_choice", "tool_call_id"}]
    /\ Refusals \subseteq [status : 400..599, body : SUBSET Features]
    /\ RetryCount \in Nat \ {0} /\ Max429 \in Nat /\ MaxStallRetries \in Nat
    /\ \A n \in 0..RetryCount : 2 ^ n \in Nat
    /\ {BackoffBase, BackoffMax, Timeout, ConnectTimeout, HeaderTimeout,
        Max429Delay, StallTimeout} \subseteq Nat \ {0}
    /\ MaxRetries \in [Retryable -> Nat]

VARIABLES
    mode,      \* "stream" or "nonstream": what the caller asked for
    endpoint,  \* the configured upstream endpoint
    pc,
    quirks,    \* what of the request an upstream may reject and ask to rewrite
    fixed,     \* what of it this client call has rewritten
    raw,       \* the body about to be sent skipped prepareBody
    attempt, count429, lastErr,  \* the client's loop
    sent,      \* requests the current client call has sent
    elapsed,   \* ticks since it began, no further than Deadline + 1
    timer,     \* ticks until what the goroutine waits for
    limit,     \* ticks until the context of the attempt or of the 429 wait ends
    err,       \* the text of the error the client call returned
    tries,     \* categoryAttempts of the engine
    calls,     \* client calls of the current engine run
    stalls,    \* stalled streams given up so far
    gone,      \* the caller has disconnected
    late,      \* client calls begun after that
    cooldown,  \* ticks until the limiter's cooldown of this config ends
    dawdled,   \* (history) in this client call the body of an error outlasted
               \* the time there is for its headers
    exhausted, \* the upstream has said that a quota is used up
    reply      \* what the caller was answered

client == <<attempt, count429, lastErr, sent, elapsed, fixed, raw, dawdled>>
engine == <<tries, calls, stalls, late>>
waits == <<timer, limit>>
vars == <<mode, endpoint, quirks, pc, client, waits, err, engine, gone, cooldown,
          exhausted, reply>>

LargerOf(a, b) == IF a > b THEN a ELSE b
SmallerOf(a, b) == IF a < b THEN a ELSE b

(* Mutant: the timeout as configured.                                      *)
DeadlineWithoutFloor == Timeout

(* retryDeadline: the configured timeout, but never less than twice the    *)
(* time one attempt may wait for its headers.                              *)
Deadline == LargerOf(Timeout, 2 * HeaderTimeout)

(* OpenAIClient.CalculateBackoff *)
Backoff(n) == IF n <= 0 THEN 0 ELSE SmallerOf(BackoffBase * 2 ^ (n - 1), BackoffMax)

(* CreateChatCompletion streams upstream on the responses endpoint even if *)
(* the caller did not ask for a stream.                                    *)
StreamsUpstream == mode = "stream" \/ endpoint = "responses"

-----------------------------------------------------------------------------
Init ==
    /\ \E s \in Setups :
          mode = s.mode /\ endpoint = s.endpoint /\ quirks = s.quirks
    /\ pc = "start"
    /\ fixed = {} /\ raw = FALSE /\ dawdled = FALSE
    /\ attempt = 0 /\ count429 = 0 /\ lastErr = {} /\ sent = 0 /\ elapsed = 0
    /\ timer = 0 /\ limit = 0
    /\ err = {}
    /\ tries = [c \in Retryable |-> 0] /\ calls = 0 /\ stalls = 0 /\ late = 0
    /\ gone = FALSE
    /\ cooldown = 0
    /\ exhausted = FALSE
    /\ reply = "none"

(* The locals of a client call are zero outside of it.  The body went      *)
(* through prepareBody; what an earlier call rewrote is forgotten, because *)
(* the rewritten request is local to that call.                            *)
FreshClient ==
    /\ attempt' = 0 /\ count429' = 0 /\ lastErr' = {} /\ sent' = 0 /\ elapsed' = 0
    /\ fixed' = {} /\ raw' = FALSE /\ dawdled' = FALSE

EnterClient ==
    /\ pc' = "loop"
    /\ FreshClient
    /\ timer' = 0 /\ limit' = 0
    /\ late' = IF gone THEN late + 1 ELSE late

Return(text) ==
    /\ FreshClient
    /\ err' = text
    /\ pc' = IF mode = "stream" THEN "engine" ELSE "answer"
    /\ timer' = 0 /\ limit' = 0

same == <<mode, endpoint, quirks>>

StartRequest ==
    /\ pc = "start" /\ ~gone
    /\ EnterClient
    /\ calls' = IF mode = "stream" THEN 1 ELSE calls
    /\ UNCHANGED <<same, err, tries, stalls, gone, cooldown, exhausted, reply>>

(* The caller had left before the request was sent: a 408 nobody reads.    *)
StartTooLate ==
    /\ pc = "start" /\ gone
    /\ pc' = "done"
    /\ UNCHANGED <<same, client, waits, err, engine, gone, cooldown, exhausted, reply>>

-----------------------------------------------------------------------------
(* The client: one iteration of its loop, up to sending the request.       *)
Send ==
    /\ pc' = "inflight"
    /\ sent' = sent + 1
    /\ timer' = ConnectTimeout + HeaderTimeout
    /\ limit' = IF StreamsUpstream THEN ConnectTimeout + HeaderTimeout ELSE 2 * Timeout

LoopTop ==
    /\ pc = "loop"
    /\ \/ attempt > RetryCount /\ Return(lastErr)
       \/ attempt <= RetryCount /\ elapsed > Deadline /\ Return({"timeout"})
       \/ /\ attempt \in 1..RetryCount /\ elapsed <= Deadline
          /\ elapsed + Backoff(attempt) > Deadline
          /\ Return(lastErr)
       \/ /\ attempt \in 1..RetryCount
          /\ elapsed + Backoff(attempt) <= Deadline
          /\ pc' = "backoff" /\ timer' = Backoff(attempt) /\ limit' = timer'
          /\ UNCHANGED <<client, err>>
       \/ /\ attempt = 0 /\ elapsed <= Deadline
          /\ Send
          /\ UNCHANGED <<attempt, count429, lastErr, elapsed, fixed, raw, dawdled, err>>
    /\ UNCHANGED <<same, engine, gone, cooldown, exhausted, reply>>

BackoffEnds ==
    /\ pc = "backoff" /\ timer = 0
    /\ Send
    /\ UNCHANGED <<same, attempt, count429, lastErr, elapsed, fixed, raw, dawdled, err,
                   engine, gone, cooldown, exhausted, reply>>

(* `continue` after a failure that counts against RetryCount.              *)
Again(text) ==
    /\ pc' = "loop" /\ attempt' = attempt + 1 /\ lastErr' = text
    /\ timer' = 0 /\ limit' = 0
    /\ UNCHANGED <<count429, sent, elapsed, dawdled, err>>

(* http.Client.Do fails: a *url.Error is a net.Error; once the context of  *)
(* a non-streaming attempt has expired it also is its deadline error.      *)
DoFails ==
    /\ pc = "inflight"
    /\ \E text \in IF limit = 0 /\ ~StreamsUpstream
                     THEN {{"net.Error", "cancelled", "timeout"}}
                     ELSE {{"net.Error"}, {"net.Error", "timeout"}} :
          Again(text)
    /\ UNCHANGED <<same, fixed, raw, engine, gone, cooldown, exhausted, reply>>

(* The headers of an answer that is not 200 are here, and ReadAll waits for *)
(* the rest: without a timeout on a streamed call.                         *)
ErrorHeaders ==
    /\ pc = "inflight"
    /\ pc' = "reading"
    /\ UNCHANGED <<same, client, waits, err, engine, gone, cooldown, exhausted, reply>>

(* What a 400 makes the client rewrite: both once, the call id only        *)
(* without a stream.                                                       *)
Rewrite(body) ==
    IF ~StreamsUpstream /\ "no tool output" \in body /\ "tool_call_id" \in quirks \ fixed
    THEN {"tool_call_id"}
    ELSE IF "tool_choice.name" \in body /\ "tool_choice" \in quirks \ fixed
    THEN {"tool_choice"} ELSE {}

(* normalizeToolCallIDsForRetry and normalizeToolChoiceForRetry: the next  *)
(* iteration sends the rewritten request; only the stream path prepares    *)
(* its body for the endpoint again.                                        *)
BadRequestRewritten(body) ==
    /\ pc = "reading" /\ Rewrite(body) # {}
    /\ Again(body \cup {Status(400)})
    /\ fixed' = fixed \cup Rewrite(body)
    /\ raw' = ~StreamsUpstream
    /\ UNCHANGED <<same, engine, gone, cooldown, exhausted, reply>>

(* Every other answer that is neither 200 nor 429.                         *)
ErrorAnswer(status, body) ==
    LET routing == status = 400 /\ "routing" \in body /\ attempt < RetryCount
        text == ClassifyOpenAIError(body) \cup {Status(status)}
    IN  /\ pc = "reading"
        /\ status # 429
        /\ status = 400 => Rewrite(body) = {}
        /\ IF routing THEN Again(body \cup {Status(status)}) /\ UNCHANGED <<fixed, raw>>
           ELSE IF isRetryableHTTPStatus(status, body) /\ attempt < RetryCount
           THEN Again(text) /\ UNCHANGED <<fixed, raw>>
           ELSE Return(text)
        /\ UNCHANGED <<same, engine, gone, cooldown, exhausted, reply>>

(* 429: the client's own budget, then WaitWith429Backoff.  An exhausted    *)
(* quota ends the call; otherwise the limiter notes the cooldown and the   *)
(* client waits as long as its context allows.                             *)
RateLimited(body, delay) ==
    /\ pc = "reading"
    /\ exhausted' = (exhausted \/
          (count429 < Max429 /\ Classify429(body, 0) = "quota_exhausted"))
    /\ IF count429 >= Max429 \/ Classify429(body, 0) = "quota_exhausted"
       THEN Return({"rate limit"}) /\ UNCHANGED cooldown
       ELSE /\ count429' = count429 + 1
            /\ cooldown' = LargerOf(cooldown, delay)
            /\ pc' = "wait429"
            /\ timer' = delay
            /\ limit' = IF StreamsUpstream THEN Deadline - SmallerOf(elapsed, Deadline)
                        ELSE limit
            /\ lastErr' = ClassifyOpenAIError(body) \cup {Status(429)}
            /\ UNCHANGED <<attempt, sent, elapsed, fixed, raw, dawdled, err>>
    /\ UNCHANGED <<same, engine, gone, reply>>

(* The wait is over: the same attempt again, or the context ended first.   *)
Wait429Ends ==
    /\ pc = "wait429"
    /\ \/ /\ timer = 0
          /\ pc' = "loop" /\ limit' = 0
          /\ UNCHANGED <<timer, client, err>>
       \/ limit = 0 /\ Return({"cancelled", "timeout"})
    /\ UNCHANGED <<same, engine, gone, cooldown, exhausted, reply>>

(* 200 on a streaming call: the body is handed over unread, but for the    *)
(* responses endpoint, whose format is told from its first bytes: that     *)
(* read has no timeout and does not watch the caller.                      *)
HandOver == pc' = IF mode = "stream" THEN "stall" ELSE "assemble"

StreamOpens ==
    /\ pc = "inflight" /\ StreamsUpstream
    /\ IF endpoint = "responses" THEN pc' = "peek" ELSE HandOver
    /\ timer' = StallTimeout /\ limit' = StallTimeout
    /\ FreshClient
    /\ UNCHANGED <<same, err, engine, gone, cooldown, exhausted, reply>>

Peeked ==
    /\ pc = "peek"
    /\ HandOver
    /\ UNCHANGED <<same, client, waits, err, engine, gone, cooldown, exhausted, reply>>

(* 200 on a plain call: an unreadable or empty answer counts as a failure. *)
Answered ==
    /\ pc = "inflight" /\ ~StreamsUpstream
    /\ \/ attempt < RetryCount /\ Again({"empty"}) /\ UNCHANGED <<fixed, raw>>
       \/ attempt >= RetryCount /\ Return({"empty"})
       \/ /\ pc' = "answered" /\ timer' = 0 /\ limit' = 0
          /\ FreshClient /\ UNCHANGED err
    /\ UNCHANGED <<same, engine, gone, cooldown, exhausted, reply>>

-----------------------------------------------------------------------------
(* The engine (retry.Engine.Execute) after a failed call: the category of  *)
(* the new error chooses the strategy; every category has its own count,   *)
(* which lasts for the whole run.                                          *)
EngineFails ==
    /\ pc = "engine"
    /\ \/ gone
       \/ ~IsRetryable(err)
       \/ /\ IsRetryable(err)
          /\ tries[ClassifyError(err)] >= MaxRetries[ClassifyError(err)]
    /\ pc' = "done"
    /\ reply' = IF stalls = 0 THEN "api_error" ELSE "overloaded_error"
    /\ UNCHANGED <<same, client, waits, err, engine, gone, cooldown, exhausted>>

(* Mutant: a category starts again once another has had its turn.          *)
OneBudgetAtATime ==
    /\ pc = "engine" /\ ~gone
    /\ IsRetryable(err)
    /\ LET c == ClassifyError(err)
       IN  /\ tries[c] < MaxRetries[c]
           /\ tries' = [d \in Retryable |-> IF d = c THEN tries[c] + 1 ELSE 0]
    /\ pc' = "engine_sleep" /\ timer' = 1 /\ limit' = 1
    /\ err' = {}
    /\ UNCHANGED <<same, client, calls, stalls, late, gone, cooldown,
                   exhausted, reply>>

EngineBacksOff ==
    /\ pc = "engine" /\ ~gone
    /\ IsRetryable(err)
    /\ LET c == ClassifyError(err)
       IN  /\ tries[c] < MaxRetries[c]
           /\ tries' = [tries EXCEPT ![c] = @ + 1]
    /\ pc' = "engine_sleep" /\ timer' = 1 /\ limit' = 1
    /\ err' = {}
    /\ UNCHANGED <<same, client, calls, stalls, late, gone, cooldown,
                   exhausted, reply>>

(* The select between the timer and the caller's context: when both are    *)
(* ready either may win.                                                   *)
EngineWakes ==
    /\ pc = "engine_sleep"
    /\ \/ /\ timer = 0
          /\ EnterClient
          /\ calls' = calls + 1
          /\ UNCHANGED <<err, tries, stalls, reply>>
       \/ /\ gone
          /\ pc' = "done" /\ timer' = 0 /\ limit' = 0
          /\ reply' = IF stalls = 0 THEN "api_error" ELSE "overloaded_error"
          /\ UNCHANGED <<client, err, engine>>
    /\ UNCHANGED <<same, gone, cooldown, exhausted>>

-----------------------------------------------------------------------------
(* WaitForFirstData and the stall loop of the handler.                     *)
Finish(kind) ==
    /\ pc' = "done" /\ reply' = kind
    /\ timer' = 0 /\ limit' = 0

FirstData ==
    /\ pc = "stall"
    /\ Finish("stream")
    /\ UNCHANGED <<same, client, err, engine, gone, cooldown, exhausted>>

FirstReadFails ==
    /\ pc = "stall"
    /\ Finish(IF gone THEN "none" ELSE "api_error")
    /\ UNCHANGED <<same, client, err, engine, gone, cooldown, exhausted>>

CallerLeft ==
    /\ pc = "stall" /\ gone
    /\ Finish("none")
    /\ UNCHANGED <<same, client, err, engine, gone, cooldown, exhausted>>

(* Mutant: a stall is not counted.                                         *)
StallForgotten ==
    /\ pc = "stall" /\ timer = 0
    /\ IF stalls < MaxStallRetries
       THEN /\ EnterClient
            /\ UNCHANGED stalls
            /\ tries' = [c \in Retryable |-> 0] /\ calls' = 1
            /\ UNCHANGED reply
       ELSE /\ Finish("overloaded_error")
            /\ UNCHANGED <<client, engine>>
    /\ UNCHANGED <<same, err, gone, cooldown, exhausted>>

(* A stalled stream is closed and a new engine run makes the next one.     *)
Stalled ==
    /\ pc = "stall" /\ timer = 0
    /\ IF stalls < MaxStallRetries
       THEN /\ EnterClient
            /\ stalls' = stalls + 1
            /\ tries' = [c \in Retryable |-> 0] /\ calls' = 1
            /\ UNCHANGED reply
       ELSE /\ Finish("overloaded_error")
            /\ UNCHANGED <<client, engine>>
    /\ UNCHANGED <<same, err, gone, cooldown, exhausted>>

-----------------------------------------------------------------------------
(* The caller who did not ask for a stream is answered once: an error is   *)
(* put into words, an answer without text and tool calls is refused by     *)
(* ValidateResponseContent.  Assembling an upstream stream has no timeout. *)
AnswerError ==
    /\ pc = "answer"
    /\ Finish(SendErrorResponse(err))
    /\ UNCHANGED <<same, client, err, engine, gone, cooldown, exhausted>>

Assembled ==
    /\ pc = "assemble"
    /\ \/ pc' = "answered" /\ UNCHANGED err
       \/ pc' = "answer" /\ err' = {}
    /\ timer' = 0 /\ limit' = 0
    /\ UNCHANGED <<same, client, engine, gone, cooldown, exhausted, reply>>

AnswerResponse ==
    /\ pc = "answered"
    /\ \E kind \in {"json", "overloaded_error"} : Finish(kind)
    /\ UNCHANGED <<same, client, err, engine, gone, cooldown, exhausted>>

-----------------------------------------------------------------------------
Disconnect ==
    /\ ~gone /\ pc # "done"
    /\ gone' = TRUE
    /\ UNCHANGED <<same, pc, client, waits, err, engine, cooldown, exhausted, reply>>

(* Another request for the same config got a 429 shortly before this one.  *)
OtherCooldown ==
    /\ pc = "start"
    /\ \E d \in 1..Max429Delay : cooldown' = LargerOf(cooldown, d)
    /\ UNCHANGED <<same, pc, client, waits, err, engine, gone, exhausted, reply>>

(* Mutant: a timer runs to its end whether the caller is there or not.     *)
WaitsOut ==
    \/ pc \in {"backoff", "inflight", "wait429", "engine_sleep", "stall"}
    \/ pc = "reading" /\ ~StreamsUpstream

(* Time passes while the goroutine waits.  It wakes when its timer or its  *)
(* context is due, and at once when it watches a caller who has left.      *)
Waiting ==
    \/ pc \in {"backoff", "inflight", "wait429"}
    \/ pc = "reading" /\ ~StreamsUpstream
    \/ pc \in {"engine_sleep", "stall"} /\ ~gone

Tick ==
    /\ Waiting /\ timer > 0 /\ limit > 0
    /\ timer' = timer - 1 /\ limit' = limit - 1
    /\ elapsed' = IF pc \in {"engine_sleep", "stall"} THEN elapsed
                  ELSE SmallerOf(elapsed + 1, Deadline + 1)
    /\ cooldown' = LargerOf(cooldown - 1, 0)
    /\ UNCHANGED <<same, pc, attempt, count429, lastErr, sent, fixed, raw, dawdled, err,
                   engine, gone, exhausted, reply>>

(* Nothing wakes a reader of the body of a streamed call's error.          *)
Dawdle ==
    /\ pc = "reading" /\ StreamsUpstream
    /\ IF timer > 0 /\ limit > 0
       THEN timer' = timer - 1 /\ limit' = limit - 1 /\ UNCHANGED dawdled
       ELSE dawdled' = TRUE /\ UNCHANGED waits
    /\ elapsed' = SmallerOf(elapsed + 1, Deadline + 1)
    /\ cooldown' = LargerOf(cooldown - 1, 0)
    /\ UNCHANGED <<same, pc, attempt, count429, lastErr, sent, fixed, raw, err,
                   engine, gone, exhausted, reply>>

Done == pc = "done" /\ UNCHANGED vars

Client == LoopTop \/ BackoffEnds \/ Wait429Ends
Transport == DoFails \/ ErrorHeaders \/ StreamOpens \/ Answered
ErrorBody ==
    \E a \in Refusals :
        \/ a.status = 400 /\ BadRequestRewritten(a.body)
        \/ ErrorAnswer(a.status, a.body)
        \/ a.status = 429 /\ \E delay \in 1..Max429Delay : RateLimited(a.body, delay)
Handler ==
    \/ StartRequest \/ StartTooLate \/ EngineFails \/ EngineBacksOff \/ EngineWakes
    \/ FirstData \/ FirstReadFails \/ CallerLeft \/ Stalled
    \/ AnswerError \/ AnswerResponse

Next ==
    \/ Client \/ Transport \/ ErrorBody \/ Peeked \/ Handler \/ Assembled
    \/ Disconnect \/ OtherCooldown \/ Tick \/ Dawdle \/ Done

Spec == Init /\ [][Next]_vars

(* The goroutine runs on, time passes, the transport brings headers or     *)
(* fails within its timeouts, and the context of a plain call ends the     *)
(* read of its body.  Nothing bounds the other reads: see RequestEnds.     *)
FairSpec ==
    /\ Spec
    /\ WF_vars(Client) /\ WF_vars(Transport) /\ WF_vars(Handler) /\ WF_vars(Tick)
    /\ WF_vars(~StreamsUpstream /\ ErrorBody)

-----------------------------------------------------------------------------
TypeOK ==
    /\ mode \in {"stream", "nonstream"}
    /\ endpoint \in {"chat", "responses", "flat-tools"}
    /\ pc \in {"start", "loop", "backoff", "inflight", "reading", "wait429", "peek",
              "engine", "engine_sleep", "stall", "assemble", "answer", "answered", "done"}
    /\ quirks \subseteq {"tool_choice", "tool_call_id"}
    /\ fixed \subseteq quirks /\ raw \in BOOLEAN /\ dawdled \in BOOLEAN
    /\ attempt \in Nat /\ count429 \in Nat /\ sent \in Nat
    /\ elapsed \in Nat /\ timer \in Nat /\ limit \in Nat /\ cooldown \in Nat
    /\ calls \in Nat /\ stalls \in Nat /\ late \in Nat
    /\ tries \in [Retryable -> Nat]
    /\ gone \in BOOLEAN /\ exhausted \in BOOLEAN
    /\ reply \in {"none", "stream", "json", "overloaded_error", "api_error"}

(* The first attempt, however slow, leaves room for the wait before the    *)
(* second: by default 300s of TLS handshake and at most 120s of waiting    *)
(* against 600s for the headers, which the environment may set lower.      *)
FirstAttemptFits ==
    /\ ConnectTimeout + BackoffMax <= HeaderTimeout
    /\ ConnectTimeout + Max429Delay < HeaderTimeout

(* A client call that streams and ends for lack of time or of attempts has *)
(* sent its request at least twice, however slow the upstream was with its *)
(* headers and however small the configured timeout is (retryDeadline), if *)
(* one attempt may wait that long for its headers.  Only the body of an    *)
(* error, for which there is no timeout, can use up the time of the second *)
(* attempt.                                                                *)
AtLeastOneRetry ==
    [][(/\ FirstAttemptFits /\ StreamsUpstream /\ ~dawdled
        /\ pc \in {"loop", "wait429"} /\ pc' \in {"engine", "answer"})
            => sent >= 2]_vars

(* The nested loops stay within their budgets: the client's own retries    *)
(* and its 429 waits, and per run of the engine the sum of what each       *)
(* category allows, however the categories alternate.                      *)
EffortBounded ==
    /\ sent <= RetryCount + 1 + Max429
    /\ calls <= 1 + MaxRetries["rate_limit"] + MaxRetries["server_error"]
                  + MaxRetries["network"]

(* After the caller has left, the select of the engine or of the stall     *)
(* detector may lose its race once: at most one more client call begins.   *)
AtMostOneLateCall == late <= 1

(* The reads of the upstream's answer that no timer and no caller ends: the *)
(* body of an error, the first bytes that tell the format, and a stream    *)
(* assembled for a caller who asked for none.                              *)
Unguarded == pc \in {"peek", "assemble"} \/ (pc = "reading" /\ StreamsUpstream)

(* Whatever the upstream and the caller do, the handler comes to an end,   *)
(* unless the upstream falls silent in one of the unguarded reads.         *)
RequestEnds == []<>(~Unguarded) => <>(pc = "done")

(* "No point retrying": once the upstream has said that a quota is used    *)
(* up, no request follows.                                                 *)
QuotaIsFinal == [][exhausted /\ pc # "inflight" => pc' # "inflight"]_vars

(* The learned cooldown is enforced: no request is sent while it lasts.    *)
CooldownHonoured == [][pc # "inflight" /\ pc' = "inflight" => cooldown = 0]_vars

(* Every request goes out in the shape prepareBody gives it.               *)
BodyPrepared == pc = "inflight" /\ raw => endpoint = "chat"
=============================================================================
