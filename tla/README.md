# TLA+ specifications of the Claude-to-OpenAI proxy

The program (`src/backend`, Go) is a proxy: it takes requests in the format of
Anthropic's Messages API or of OpenAI's Responses API, converts them, sends them
to an OpenAI-compatible upstream and converts the answers back. A
*configuration* is one upstream; a *load balancer* is a set of configurations
(its *nodes*) behind one API key. This directory holds TLA+ models of the parts
of it that are hard to test, TLC configurations that check them on small
instances, and proofs for TLAPS.

All paths below are relative to `src/backend/` unless they start with `src/`.

## 1. The system

| component | state it keeps | operations | talks to |
|---|---|---|---|
| circuit breaker (`handler/circuit_breaker.go`, `database/circuit_breaker.go`) | in memory: sliding window of results, `halfOpenAttempts`; in SQLite: a row with the state and the deadline of an open breaker | `Call`, `RecordSuccess/Failure`, `Reset`, `GetState` | called by the retry handler around each attempt; row read by the selector, written by the reset endpoint |
| selector (`handler/enhanced_selector.go`) | connection counts, round-robin index, dynamic weights | `SelectConfig`, `ReleaseConnection` | reads health rows and breaker rows |
| retry handler (`handler/retry_handler.go`) | none | `ExecuteWithRetry` | selector, then breaker, then the handler's function |
| health checker (`handler/health_checker.go`) | `running`, `stopChan`; a row per node with consecutive counts | `Start`, `Stop`, `CheckNode` | upstream (HEAD request), health rows |
| monitor, alert manager (`handler/monitor.go`, `alert_manager.go`) | a bounded log channel; alerts, request logs and minute statistics in SQLite | `RecordRequest`, periodic aggregation and checks | told of each request by `ExecuteRequest` |
| manager and registry (`handler/lb_manager.go`) | `running`, a context; a map of managers | `Start`, `Stop`, `GetManager`, `StopAll`, `ExecuteRequest` | owns all of the above |
| message handler (`handler/handler.go`, `stall_detector.go`) | per request only | `CreateMessage`, `executeMessageRequestWithConfig` | key lookup, sessions, `ExecuteRequest`, retry engine, converter |
| Responses handler (`handler/responses.go`, `converter/responses.go`) | per stream: items written, tool calls, timers; two goroutines | `HandleResponses`, `ConvertOpenAIStreamingToResponses` | upstream client |
| upstream client (`client/openai_client.go`, `responses_converter.go`) | per call: attempts, 429 answers, the body as rewritten; a bridge goroutine for one stream format | `CreateChatCompletion(Stream)` | upstream over HTTP, limiter |
| retry engine, 429 limiter (`retry/`, `ratelimit/`) | attempts per category; a cooldown per configuration | `Engine.Execute`, `WaitWith429Backoff` | upstream client |
| streaming conversion (`converter/response_converter.go`, `streaming_state.go`, `heartbeat.go`, `sse_utils.go`) | per stream: the open content block, the tool calls, the writer's `closed` flag; three goroutines | `PrepareSSEStream`, `ConsumeSSEStream`, `AbortSSEStream` | upstream body, client connection |
| format conversions (`converter/claude.go`, `openai.go`, `normalizer.go`, `factory.go`, ...) | a global converter with one configuration; a bounded cache of thought signatures | parse and build requests and responses | every request |
| tenants' admission (`security/`, `handler/security_middleware.go`) | counters of rate limits, cached quota objects, IP rules in memory; rows of all of them and of API keys | middlewares; sweep, reset worker; administration | wraps a route |
| background queues (`security/usage_tracker.go`, `audit_logger.go`, `alert_manager.go`, `database/async_logger.go`, `session_interruptions.go`, `handler/async_logger.go`, `monitor.go`) | a channel and a batch each | hand over, write, stop | SQLite |
| request log (`database/logs.go`, `log_storage.go`, `log_cleanup.go`) | rows, body files by day, statistics by day | insert, move bodies, clean up, migrate | worker goroutines, cleaner |
| configurations (`database/models.go`, `config_cache.go`, `load_balancer.go`) | rows, a cache by key | create, update, renew, delete, look up | `CreateMessage`, administration |
| sessions (`handler/session_handler.go`, `database/session.go`) | session rows with counters, message rows | `GetOrCreateSession`, `SaveMessages` | each attempt of a request |

`PROJECT.json` lists every component, with those that are not modelled, and
every hazard with its line and the properties about it.

### What is hard

* **State in two places.** The breaker's window is in memory and its state a
  row that overlapping calls read and write back whole; quotas are rows and
  shared objects in a cache; IP rules a table and a copy; configurations a table
  and a cache with an expiry; log bodies a row or a file. Nowhere is a lock or
  a transaction held over both.
* **Decisions on what was read a while ago.** The load balancer reads health and
  breakers node by node; a rate limit's counter is fetched from a map from which
  the sweep may remove it before it is locked; a session is counted, then written.
* **Many goroutines, one stream.** Scanner, main and heartbeat of a Messages
  stream, scanner and main of a Responses stream, and a bridge between two
  formats share connections and pipes; a stream ends through eight events, in any phase.
* **Nested retries** (handler, engine, client, 429 waits) with separate budgets
  and deadlines, against a caller who may leave at any moment.
* **Repairs of what clients send.** Histories with missing, doubled or
  interrupted calls are rewritten in several passes over several turns.
* **Stopping.** Queues, checkers and managers are stopped by flags, closed
  channels and cancelled contexts, in different orders.

What makes each part correct: streams that obey their protocol in every ending;
argument fragments, results, prompts and records that are neither lost nor
doubled; budgets, windows and quotas that hold; refusals that are justified;
caches that are not too old; bodies readable until their time; everything ends.

## 2. The modules

| module | what it is |
|---|---|
| `CircuitBreaker`, `AbstractBreaker`, `BreakerRefinement` | one breaker, statement by statement; what a breaker promises; the refinement between them |
| `HealthChecker` | checks of one node by any number of managers |
| `LoadBalancer` | requests over a selector, breakers and retries |
| `SSEStream` | one streaming request of the Messages API |
| `UpstreamErrors`, `Upstream` | how errors are classified; one request on its way to the upstream, with all its retries |
| `ResponsesBridge`, `ResponsesStream` | an upstream answer and the bridge between two formats; one request to `/v1/responses` on top of it |
| `Conversion`, `Conversation` | the pure conversions; conversations over several turns that use them |
| `BatchQueue` | the background queues |
| `Tenancy`, `RateLimiter`, `QuotaManager`, `IPFilter`, `ApiKeys`, `Admission` | the parts of admission, and the middlewares that compose them |
| `LogStore`, `ConfigStore`, `Sessions`, `Supervision`, `Persistence` | what the server keeps, and the module that puts the parts side by side |
| `*_proofs` | proofs about the module they are named after (`CircuitBreaker_proofs` also of `BreakerRefinement`, `LoadBalancer_proofs` also of `HealthChecker`) |
| `MC*` | the instances TLC checks |

### CircuitBreaker

`row` is the row of `circuit_breaker_states` (`NoRow` before the first upsert),
`requests` and `halfOpenAttempts` are the fields of `DefaultCircuitBreaker`, and
`call[c]` holds where call `c` is together with its local variables: the state
it runs under (`mode`), the result of the function, its copy of the attempts,
and `seen`, the row it read and will write back.

The actions follow `Call`: `GetState`, `Initialize` and `Reread` are the three
statements of `getOrInitializeState`; `Dispatch` is the switch; `ToHalfOpen` and
`EnterHalfOpen` lead into `executeInHalfOpen`; `FinishClosed` and
`FinishHalfOpen` are the return of the caller's function; `RecordRead` and
`RecordWrite` are the two statements of `RecordSuccess`/`RecordFailure`;
`ShouldOpen`, `TripOpen`, `BackToOpen`, `DropAttempts`, `ToClosed` and
`ClearMemory` the rest of the two paths. `ResetMemory`/`ResetRow` are `Reset`,
`ResetCircuitBreaker` the endpoint that writes only the row, `Restart` a restart
of the process. Every SQL statement may fail instead (`SqlFails`), up to
`MaxFaults` times.

Time is relative: an open row carries the ticks left to its deadline, a window
record its age, so no clock has to be bounded. `failure_count` and
`success_count` are left out; nothing reads them to decide anything.

### HealthChecker

`row` is the row of `health_statuses` of one configuration, `manager[m]` where the
check loop of load balancer manager `m` is, and `check[c]` the local variables of
one `CheckNode` goroutine, which runs under the context of its `Owner`. `Start`,
`Stop` and `LoopEnds` are the life of a manager; `CheckAllNodes` starts a check
at a tick, `PerformHealthCheck`, `GetStatus` and `UpdateStatus` are its request
and its two statements, and `RowAfter` is what one more result makes of a row.
`up` is the upstream as a HEAD request in time would find it. The consecutive
counts stop at their thresholds, which nothing can tell from counting on.

### LoadBalancer

`healthy`, `breaker` and `tests` are the rows and counters of the nodes,
`connectionCounts` and `roundRobinIndex` the selector's fields, `request[r]` the
local variables of one client request; `lost` is a history variable that counts
connections nobody will release, so `ConnectionAccounting` says that there is no
other leak than that of `handler.go:213`, not that there is none. A request steps through `Look` (one node of
`getHealthyConfigs`) or `LookFails` (a read that fails: of the health, which drops the node,
or of the breaker, which then counts as closed, `circuit_breaker.go:188`), `Pick` or `NoneAvailable`, then `Reject`, `AdmitClosed` or
`AdmitTest` (the breaker), `Execute` (the handler's function with its deferred
release), `RecordClosed` or `RecordTest`, and `Backoff`.

Abstractions: the admission and the bookkeeping of a breaker are one step each
(their statements are in `CircuitBreaker`), whether a failure takes the error
rate over the threshold is a choice, and health changes at any time.
`Look` reads the health and the breaker of one node in one step. Dynamic
weights are constants. A cancelled manager context in back-off, and a second
load balancer over the same configurations, are not in the model. A database
error inside `Call` returns without running the function, like a rejection; it
would lose a connection in the same way.

### SSEStream

`main`, `scanner` and `heartbeat` say where the three goroutines are, and `todo`
is the list of what the scanner and main have yet to do for the chunk or the
ending at hand: one item, hence at most one write to the client, per step. `block` is the
`current*` and `sentContentBlock*` state, `tools` is `toolCalls`, `ready` holds the events
that arrived before main reached its `select`, and `wire` is what the client has
received after `message_start`.

`ReadChunk` takes any chunk of the constant set `Chunks`; `NextBlock`,
`ShouldStartNewBlock`, `DetectBlockType` and `Plan` are the state machine over
blocks, `Accumulated` the folding of tool-call fragments, `OpenBlock`,
`DeliverContent`, `FlushToolCallArgs`, `EmitEmptyToolArgs`, `FinishReason` the
emission. `ReadMalformed`, `ReadLast` and `Panic` are the ways the scanner ends.
In main, `Connect`, `FirstData`, `Stalled` and `CheckFails` are the handler up to
the first data, `Select` and `TimeOut` the select, and `Ending` is what follows
each event: the normal completion, `finishAbortedStream` (`Abort`), or the short
path for a client that has gone.

A chunk is reduced to what the state machine distinguishes: the kind of its
text, whether it has reasoning, the tool-call fragments (index, and whether each has an id, a
name, arguments), and the finish reason. An argument fragment is the token
`"args"`, the empty object the converter makes up is `"noArgs"`. Token usage is left out. A panic is taken between two lines.

### UpstreamErrors and Upstream

Error texts are sets of the `Features` the classifiers look for. `ClassifyRules`
is the ordered table of `retry.ClassifyError`, `GuidanceRules` that of
`ClassifyOpenAIError`; `Classify429` and `isRetryableHTTPStatus` are the
limiter's and the client's view. The engine sees only the text the client
returns, so `err` carries the features of that text.

`Upstream` is one request. Its `pc` goes from `start` (the handler, or the
engine's next attempt) through the client's loop (`loop`, `backoff`, `inflight`, `reading` the body of an error,
`wait429`) back to `engine`, `engine_sleep`, and for a stream `peek` (the first bytes of a
stream of the responses endpoint, which tell its format) and `stall`, then
`answer`, `answered`, `done`. `StartRequest` is `Engine.Execute` reaching the
client, `LoopTop` the top of the client's loop with its deadline check and
back-off, `DoFails`, `StreamOpens` and `ErrorHeaders` what an attempt may come to,
`ErrorAnswer`, `BadRequestRewritten` and `RateLimited` what follows once the body
of an error has been read, which `Dawdle` may delay without end on a streamed call; `EngineFails` and `EngineBacksOff` are the engine's
verdict, `FirstData`, `FirstReadFails`, `Stalled`, `CallerLeft` those of
`WaitForFirstData`. A rewritten request is sent without `prepareBody`: `raw`.
`elapsed`, `timer` and `limit` count ticks that pass only while the goroutine
waits. Where the engine or the stall detector selects between a timer and the
caller's context, both being ready, either branch may be taken (`late` counts
the calls that begin after the caller has left).

The non-streaming path and the streaming path differ in mode (`StreamsUpstream`,
`Deadline`); their loops are one model. Jitter and growth of delays are a choice
within bounds.

### ResponsesBridge and ResponsesStream

`up` is what the upstream has said, `net` the lines on the network, `bridge` the
goroutine of `convertResponsesStreamingToChat` and `pipe` the `io.Pipe` it
writes into; `Source` is what the reader of the stream reads, one or the other.
`SayText`, `SayCall`, `SayPiece`, ... are the upstream, which keeps to its own
format and may hang up, fail or fall silent; `BridgeReads`, `BridgeWrites`,
`BridgeWriteFails` and `BridgeExits` the bridge (`Peek` is the read before it,
which decides whether there is a bridge at all), with `OnAdded`, `OnDelta`,
`OnArgsDone`, `FinishReason` as its rules for events.

In `ResponsesStream`, `Create` and `FormatTold` are the stream's way to the
handler, `ScanText`, `ScanCall`, `ScanNoise`, `ScanFinish`,
`ScanEnd` and `ScanPanics` are the scanner, `Completed`, `Aborted`,
`IdleTimeout`, `TooLong` and `CallerGoes` the select of main; `AssembleLine` and
`AssembleEnd` are `assembleStreamToResponse` for a caller that wants no stream.
A text is one token, a piece of arguments is numbered, so that order and
identity can be stated. The events of one line are one step: nobody else writes
while the scanner runs.

### Conversion and Conversation

`Conversion` has the conversions as operators under their names in the code
(`stripAdvisorBlocks`, `convertInternalMessageToOpenAI`,
`validateAndFixMessageSequence` with its three passes, `responsesInputToMessages`,
`convertMessagesToResponsesInput`, the responses on the way back). Texts, images
and results are tokens.

`Conversation` lets clients talk for several turns: `ClaudeSpeaks` and
`CodexSpeaks` append what a client may say next, given its history: it runs
calls or not, it is interrupted, it gives a result to no call, it writes more. `SetOpenAIConfig` and `Build`
are the two halves of a conversion over the global converter (`cfg`), `Reply` is
the upstream's answer, converted back and remembered in the signature `cache`.

### BatchQueue

`kind` says which queue the behaviour is about. `pc[r]` is the caller of record
`r`, `queue` the channel, `batch[w]` and `wpc[w]` what each worker holds and
where it is, `StopPlan` the steps of its stop procedure, of which `stopAt` have
been made. Callers (`RecordUsage`, `LogEvent`, `queueAlert`, `LogAsync`, `Log`,
`RecordRequest`) differ in what they do when the channel is full or closed, and
those `WithContext` may leave by their own context instead; the
workers in what they select on; `WriteBatch` and `WriteRow` are a batch in one
transaction or, after its failure, row by row; `Sent` is the end of the webhook and
the mail of an alert. A send on the channel that `Stop` has closed panics in the
caller (`audit_logger.go:144`), and the record counts as with its caller.

### Admission and its parts

* `RateLimiter`: `heap` holds counter objects, `counterOf` is the `sync.Map`;
  `Lookup` finds or makes the counter, `Check` locks it and runs one of
  `checkFixedWindow`, `checkSlidingWindow`, `checkTokenBucket`;
  `cleanupExpiredCountersOnce` is the sweep. A limit is of a dimension (`tenant`,
  `api_key`, `ip`), and a request has an `Identity` in each: the counter's key names
  the dimension and the algorithm but not the limit, so limits may share one.
  `granted` (what was admitted in the last
  1, 2, ... ticks) and `promise` (when the caller was told to come back, which is
  in `WholeSeconds`) are history.
* `QuotaManager`: `table` the rows, `objects` the heap of copies, `cached` the
  cache's pointers; `task[u]` a goroutine in `CheckQuota`, `IncrementUsage`,
  `ResetQuota`, `SetQuota` or the reset worker, a step per statement and per
  cache operation, each of which may fail. `full` remembers the rows that had no room
  in their period, `mixed` that a reset has overlapped another operation.
* `IPFilter`: `ipTable` and the copy `ipRules`; an addition is `InsertRule`,
  `AppendRule`, a removal `DeleteRule`, `QueryRules`, `SwapRules`. `firm` and
  `gone` remember operations that no other one overlapped: `RulesInForce` is about
  these, and says nothing of two that overlap, of which the older reading may win.
* `ApiKeys`: `ReadOldKey`, `ExpireOldKey`, `CreateKey` are `RotateKey`. The grace
  period is the constant `Grace` and not negative, which `admin_api.go:262-273` would accept.
* `Admission`: `at[r]` is the middleware request `r` is in; `SkipLimits` are the
  ways past the rate limits (no tenant, or limits that cannot be read). A `setup` says which
  middlewares are attached, which limits and quotas exist and who else is at
  work. **No route in `cmd/server.go` attaches these middlewares yet**; only the
  administration endpoints use the managers. The setups are therefore subsets
  of the chain in the order `security_middleware.go` declares them.

### Persistence and its parts

* `LogStore`: `InsertLog`, `CreateFile`, `WriteFile`, `PointRow`, `FindStats`,
  `WriteStats` are a worker; `DeleteOldRequestLogs`, `CleanOldDirectories`,
  `DeleteOldestRequestLogs`, `SelectInline`, `MigrateRow` the cleaner;
  `LogCrash` a crash. Time is in half days of UTC; directories are named by the
  `LocalDay`, which `Zone` puts ahead or behind, and their names are read as days
  of UTC (`log_storage.go:57`, `:225`). There may be several cleaners: the
  daily one, and those an administrator starts by hand in goroutines of their own
  (`handler/config_api.go:334` and `:376`). `torn` holds the files a writer has
  emptied (`os.Create`) and not yet written again.
* `ConfigStore`: `FindBalancer`, `GetCached`, `SelectConfig`, `SetCache` are the
  lookup of a request; `CheckToken`, `InsertConfig`, `RenewKey`, `ReadConfig`,
  `WriteConfig`, `Invalidate`, `DeleteRow` the calls of administrators. The body of an
  update may carry a key of `BodyKeys` ("rekey"), which is written unchecked. A
  version per row stands for its contents.
* `Sessions`: `GetSession`, `CreateSession`, `CountSessionMessages`,
  `CreateSessionMessage`, `ReadSession`, `UpdateSession`, each a statement. No
  session is deleted: no route of the program calls `DeleteSession`.
* `Supervision`: `FindManager`, `MakeManager`, `StopAll`, `Restart` are the
  registry, `ListAlerts`, `CreateAlert` the alert manager, `ProcessLog`,
  `PerformAggregation`, `SumNode`, `CreateNodeStats` the monitor. Time is in half
  minutes and does not wait: a tick that is `Due` may be taken up to a minute late.
  `ConfigNodes` is a list and may name a configuration twice. `AcknowledgeAlert` changes
  nothing (section 4), so an alert stays open until `DeleteOldAlerts`.
* `Persistence`: the parts share no row, so a behaviour is of one `part` at a
  time, and the state space is a sum and not a product. Parts "one at a time"
  serialise calls: they carry the exact properties, the others those that
  survive overlap. In "retention" cleaners take turns, in "cleanups overlap"
  they do not.

## 3. The runs

| run | states | bounds | what it shows |
|---|---|---|---|
| `health_checks` | 154,214 | 2 managers with one check each, thresholds 3 and 2, 1 failing statement, 1 restart | status and counts agree; a lasting change of the upstream is noticed |
| `breaker` | 741,714 | 2 overlapping calls, window and timeout of 1 tick, 2 tests, 1 record, 1 failing statement, 1 restart, 1 reset of either kind | an open row has a deadline; a half-open breaker does not stay so |
| `breaker_serial` | 8,231 | 2 callers taking turns, timeout and window of 2 ticks, 3 records, 2 restarts, 2 resets | the code implements `AbstractBreaker` |
| `stream` | 440,499 | 2 tool calls, 3 lines of five kinds, 1 stall retry, no malformed chunk tolerated | protocol, completeness, arguments, termination |
| `lb_dispatch` | 412,592 | 2 requests, 2 nodes, 1 retry, `least_connections`, 1 test, 1 lost connection | connection accounting; an open node nobody holds stays open unless misread; requests end if their calls do |
| `upstream` | 357,775 | 4 kinds of exchange, 7 refusals, 3 client retries, 1 429 wait, 1 retry per category, 1 stall retry, delays of 1 to 3 ticks | budgets, the guaranteed second attempt, late calls, termination |
| `responses_stream` | 805,354 | 5 kinds of exchange, 2 calls of one piece, 1 text, 1 malformed line, 1 line in flight, 1 stall retry | order of events, truncation reported, calls whole, no goroutine left |
| `conversation` | 170,293 | 2 conversations of 2 turns, 3 opening histories, 2 kinds of answer, a cache of 2 signatures | what upstreams demand of calls; nothing lost; own signatures |
| `queues` | 40,883 | each queue kind, 3 records, 2 workers where there are several, a channel of 1, batches of 2, 2 failing writes | no record lost or doubled on its way; stopping ends and flushes batches |
| `admission` | 819,796 | 21 setups, up to 3 callers and 5 requests, windows of 2 to 6 ticks, a second of 2 ticks, two midnights, 2 IP administrators, 3 keys, 1 fault each | windows, quotas, rules, keys, `Retry-After`, justified refusals |
| `persistence` | 1,713,729 | ten parts; 2 logs, 2 cleaners, a server west of UTC, 2 configurations, a custom token for each of them and for a load balancer, 1 key in the body of an update, 1 cache entry, 2 overlapping requests or 3 attempts in series, 2 managers, 1 configuration listed twice, 3 alerts, 1 fault each | bodies, statistics, lookups, sessions, alerts, minutes |
| `lb_retries_reach_upstream` (violation) | 189 | 1 request, 1 retry, `weighted` with weights 0 and 1 | finding 1 |

The bounds are small because the interesting cases are. Two calls are enough for
a stale write-back, two half-open tests the least for which a count matters, two
managers the least whose checks overlap. Three lines open a block, change to
another and finish; two tool calls are the least that interleave. A second and a
third 429, retry or stall repeat the first with the counters one higher, and
the budgets themselves are proved for every value. Channels of one and batches
of two make "full" and "half full" happen with three records. One cache entry
makes eviction happen with two configurations; two signatures with the calls of
two conversations. Two midnights let a reset be late for one and in time for the
next. A server west of UTC is the zone in which directories go early, and `Zone` is
any in the proofs. Ten alerts never come together: the run has fewer conditions than
`AlertLimit`, as a balancer of up to seven nodes has, and `AlertsDistinct` claims no more.
`MaxRestarts`, `MaxResets`, `Max*Faults`, `MaxTime`, `MaxTick`,
`MaxClock`, `MaxDay`, `Pool`, `CounterIds`, `KeyIds`, `MaxVersion`, `MaxTurns`,
`most` bound what the environment chooses or the heap it chooses from;
`MaxRecords` bounds the window (a function then only returns when there is
room), `MaxLost` stops new requests once a connection has been lost, and `Wrap`
keeps the round-robin index modulo a multiple of every possible number of
available nodes, which changes no choice. The deadlock check is off where a
model ends by design: a stream, a conversation, a queue that has stopped, and
bounded histories of tenants and rows. `Lag` is the longest time between reading
a clock and using it.

Symmetry is used in the runs `admission` and `persistence`, which check
invariants and action properties only.

### Fairness

Fairness is assumed of what the Go scheduler and timers guarantee: a goroutine
that can go on does, a timer fires. What the code does not guarantee, that a call of
the upstream or of a mail server comes back where no timeout guards it, or that
requests keep coming, is a premise in the property itself, so that each says under what
it holds.

* `CircuitBreaker`: a call that is not running its function is weakly fair, and time
  passes. `HalfOpenResolves` has the premise `CallsComeAndGo`: somebody calls the breaker again and
  again, and no function runs for ever. A breaker that is half-open is one the selector
  still offers, so that is the work of ordinary traffic. Nothing like it can be said of
  a breaker that is open: the only caller of `Call` is behind the selector, which
  drops open nodes whatever their deadline (`OpenStaysOpen`).
* `HealthChecker`: a check goes on (its request has a timeout), the ticker of a
  running loop ticks, and a loop whose context is cancelled sees it. That the
  upstream stays as it is, and that some manager keeps running, are premises of the
  properties and not assumptions.
* `LoadBalancer`: each request is weakly fair except while the handler's function
  runs; that it does not run for ever is the premise of `RequestsEnd`. Health changes
  and resets are not fair.
* `SSEStream`: main is weakly fair (its timers fire), the heartbeat leaves once
  stopped or cancelled, the scanner finishes the chunk in hand, and a scanner
  blocked in a read is only assumed to come back after the handler has returned
  and closed the body. Upstream and client owe nothing.
* `Upstream`: the goroutine runs on, time passes, and the transport brings headers or
  fails within its timeouts. Three reads have neither a timeout nor an eye on the caller:
  the body of an error on a streamed call (`openai_client.go:1367`), the first bytes of
  a stream of the responses endpoint (`:1483`), and a stream assembled for a caller who
  asked for none (`:698`). `RequestEnds` says that a request ends unless it is
  held in one of these (`Unguarded`).
* `ResponsesStream`: main, the scanner and the bridge run when they can; main's
  timers fire. The upstream may be silent for ever; `EverybodyEnds` has the same
  premise of the steps no timer guards (creating the stream, telling its format,
  assembling).
* `BatchQueue`: workers run, tickers tick, and a stop that has begun goes on. An
  alert is mailed by `smtp.SendMail`, without a timeout (`alert_manager.go:519`): that the
  sending ends is the premise of `StopsAndWrites`, without which a silent mail server
  keeps `Stop` waiting for ever.

## 4. Findings, and statements the code does not keep

1. A retry cannot read the request body again (`RetriesReachUpstream`, run
   `lb_retries_reach_upstream`): `ExecuteWithRetry` runs a function that binds
   the client's body, which only the first attempt can.

The following definitions state what a comment or the manual says; TLC refutes
each when it is added to the configuration named, with the constants given. They
are kept with the modules because they explain why the properties of the runs
are worded as they are.

| definition | module, configuration | says | what happens |
|---|---|---|---|
| `OpenHolds` | `CircuitBreaker`, `MCBreaker.cfg` | `src/README.md:338`: an open breaker rejects all requests | a read of the row that fails initialises it as closed; without failures a stale write of an overlapping call takes it out of open |
| `BreakerRecovers` | `LoadBalancer`, `MCLoadBalancer.cfg` with `Requests <- MCOneRequest`, `Strategy = "round_robin"` | `src/README.md:331-339`: an open breaker tests its node again | the selector drops the node whatever its deadline: the manual is wrong, and `OpenStaysOpen`, which says what the code does instead, holds |
| `QuietAfterStop` | `SSEStream`, `MCSSEStream.cfg` | `converter/response_converter.go:882`: an aborted stream ends with `message_stop` | the scanner still writes the chunk in hand |
| `EveryCallHasItsBlock` | `SSEStream`, `MCSSEStream.cfg` with `Chunks <- MCParallelChunks` | `streaming_state.go:202`: a new block for a new named call | of two named calls in one chunk only one gets a block |
| `EmptyArgsOnlyWhenNone` | `SSEStream`, `MCSSEStream.cfg` with `Chunks <- MCIdFirstChunks` | `response_converter.go:841`: `{}` only without deltas | an id in another chunk than its name: `{}` follows real arguments |
| `TruncationIsAFailure` | `ResponsesStream`, `MCResponsesStream.cfg` | `converter/responses.go:797`: a truncated stream never ends as completed | the bridge turns the end of a failed or cut upstream into a regular one |
| `BuiltWithOwnConfig` | `Conversation`, `MCConversation.cfg` with `Setups <- MixedSetups` | `request_converter.go`: the caller's own configuration is used | the global converter holds another request's |
| `UsedCountersStay` | `Admission`, `MCAdmission.cfg` with `Setups <- LongSetups`, `CleanAge = 2` | `rate_limiter.go:241`: the sweep removes counters unused for ten minutes | it looks at the age of a fixed window (`:257`): a longer one, which the administration accepts, is forgotten half-way; a sliding one after a pause |
| `AllQuotasRespected` | `Admission`, `MCAdmission.cfg` with `Setups <- HiddenSetups` | every quota of a tenant is checked | once one quota is cached, those that are not are never looked for (`quota_manager.go:201`) |
| `ResetAtMidnight` | `Admission`, `MCAdmission.cfg` with `Setups <- SetSetups` | usage is forgiven at the end of a period or by `ResetQuota` only | `SetQuota` leaves no reset time in the row, so the next operation takes the period for over and clears the usage |
| `RemainingFlushed` | `BatchQueue`, `MCBatchQueue.cfg` | `usage_tracker.go:221`: remaining records are flushed before stopping | what is in the channel is left there |
| `QuotaIsFinal` | `Upstream`, `MCUpstream.cfg` | no retry once a quota is used up | the engine retries what only the limiter recognised |
| `CooldownHonoured` | `Upstream`, `MCUpstream.cfg` | `limiter.go:36`: a cooldown is waited out | nothing calls `Wait` |
| `BodyPrepared` | `Upstream`, `MCUpstream.cfg` | each request goes out in the shape of its endpoint | a rewritten request skips `prepareBody` |

Met while modelling, and not stated as properties:

* after a failed `ExecuteRequest` the client may get an empty 200
  (`handler/handler.go:226`), and a stream that breaks off counts as a success of
  its node (`:714`);
* each manager has its own breaker memory over the shared row (`lb_manager.go:68`);
  `WaitWith429Backoff` passes attempt 0 every time (`ratelimit/limiter.go:302`);
* the scan of `PRAGMA database_list` fails, so VACUUM never runs (`log_cleanup.go:30`);
* limits that agree in dimension and algorithm share a counter
  (`security_middleware.go:191`) and count in one another's window; the middleware
  lets a request through when it has no tenant or its limits cannot be read
  (`:168`, `:182`); `Retry-After` is cut to whole seconds (`:214`), so a caller
  who comes back when told may be refused for up to a second more; and token and cost
  quotas grow only if the handler sets values it never sets (`:363`);
* a reset of a quota writes the row first and the cached object afterwards
  (`quota_manager.go:386-399`): in between, and as long as an older copy is cached,
  callers are refused although the table says zero, and a late write of the object
  forgives what was charged since;
* when the calls of a chat upstream alternate, fragments without an id are appended
  to the last call of a streamed answer whatever index they name
  (`converter/responses.go:758-759`); the assembled answer goes by the index;
* a result of no call is dropped from the history unless it directly follows another
  result (`converter/openai.go:539-548`): then a strict upstream may refuse the
  request; assistant text after a call of the same message is moved before it (`:754-758`);
* directories of bodies are named in local time and read as UTC
  (`log_storage.go:57`, `:225`): west of UTC a clean-up late in the day removes
  a day that is half a day too young, and everywhere the rows of the boundary day lose
  their bodies up to a day before the rows themselves go (`:230`);
* an administrator's alert is never acknowledged: the route's `:id` is the load balancer's
  and its `:alert_id` is not read (`cmd/server.go:354`, `lb_enhanced_api.go:210`, where the
  handler's comment has `/api/alerts/:id`);
* nothing keeps a configuration from being listed twice in a load balancer, nor two
  rows of `node_stats` from being of one minute: a node listed twice gets two
  (`lb_stats.go:239`), and so does a minute in which a late tick is taken;
* a renewed key stays in the cache until it expires (`models.go:308`), and so does the
  key that an update with a key in its body replaces (`:469`). Such an update is
  not checked for uniqueness, so two configurations may have one key. `KeysLeadHome`
  excepts the keys in `dropped` and those shared; that only body keys and balancers' tokens are ever
  shared is part of it;
* rotation is not a transaction: cut short, it leaves the tenant without a key
  once the grace period is over (`api_key_manager.go:239`);
* a custom token may be given to a configuration and to a load balancer, because
  each table is checked for itself; `CreateMessage` asks the load balancers first
  (`handler/handler.go`), so the configuration cannot be reached by it;
* two clean-ups that overlap may write the same body file: the second empties a
  file a row already points at, and if its write then fails the body is lost
  (`log_storage.go:230`). `BodiesKept` asks for readability at every moment only
  of clean-ups that do not overlap; of those that do, that without a failing
  statement a body is there again once the writer is done.

Premises worth knowing, all of them stated in the properties:

* `StatusMatchesCounts` holds status and counts of the row together; that results
  are lost when checks overlap is what `ChangesAreNoticed` puts right in the end;
* `ImplementsTextbook` is of calls in series, and leaves out the API reset that
  comes while `halfOpenAttempts` is above zero;
* `WireWellFormed` excepts a stream whose timer leaves the scanner behind;
* `AtLeastOneRetry` needs a header timeout as long as a dial and a wait
  (`FirstAttemptFits`, which the program's defaults satisfy and an environment variable may not), and no
  error whose body outlasted it (`dawdled`);
* concurrent requests overrun a quota by up to `Overrun(n)`, with `n` callers, in
  one day; `QuotaRespected` does not speak of runs in which a reset overlaps a
  request, and `RefusalJustified` then only says that the row had been without room in the period;
* `WindowBounded` and `RetryAfterKept` are about limits with counters of their own,
  the former also about windows the sweep waits for; requests let through
  unchecked, or counted in a counter the sweep has removed, do not count;
* a rotation takes less time than its grace period;
* `StatsConserved` is of sums: it would not notice two rows of one day;
* `BodiesKept` counts a row as kept while it is a day younger than the
  retention, and half a day more where the local clock is behind UTC (`Kept`);
* `MinutesSummedOnce` counts places of the list and ticks taken in the minute they
  came in;
* `AlertsDistinct` needs no more conditions than the ten newest alerts and no failed
  read (a failed read raises a duplicate).

## 5. The proofs

TLAPS checks these for every value of the constants that satisfies the
assumptions named in the modules (`BreakerAssumption`, `HealthAssumption`,
`LoadBalancerAssumption`, `StreamAssumption`, `UpstreamAssumption`,
`SetupAssumption`, `LimiterAssumption`, `KeyAssumption`, `QueueAssumption`, `LogStoreAssumption`,
`ConfigStoreAssumption`, `SessionsAssumption`, `SupervisionAssumption`, `BridgeAssumption`,
`ResponsesAssumption`); TLC evaluates each assumption in a run. They are about the kind
of a value: numbers are natural or positive, limits are rows as
`database/security_types.go:175` validates them, a zone is half a day ahead, behind or none. What
a statement needs beyond that, it says itself (section 4).

* `CircuitBreaker_proofs`: `TypeCorrect`, and `OpenAlwaysHasDeadline`. The
  latter is not inductive as it stands, because a call may write back a row it
  read earlier: the invariant adds that every copy of a row a call holds, like the row
  itself, is open exactly if it has a deadline. Time may pass between the read and the write; `Sooner` takes a
  deadline to 0 and no further, so it never turns into the absent one.
* There too: `CodeIsTextbookBreaker`, that the serial code
  implements `AbstractBreaker`. The mapping reads the abstract state off the row,
  except between the steps of a call or a reset that have already decided and not
  yet written. `SerialInv` says what can be so in between: at most one call is
  away from idle, what it has seen is the row, its mode is the row's state, its
  copy of the attempts is the counter, and memory is empty where the code has
  emptied it. Each step of a call then maps to one abstract step or to none.
* `LoadBalancer_proofs`: `LoadBalancerTypes`; `ConnectionsAccountedFor`, an
  induction over the steps in which the set of requests that hold a node gains
  or loses one member, with a strengthening `AttemptLeft` (a request in back-off
  has an attempt left) for the types; and `OpenNodeIsForsaken`: no step of a request but the failed read of its row can begin to
  want a node whose breaker is open, and no step of a request that does not want it changes its breaker.
* There too, of the `HealthChecker` whose rows it reads: `HealthTypes` and
  `StatusAlwaysMatches`, again by an
  invariant over the row and every copy a check holds: one more result turns a
  coherent copy into a coherent row, whatever row it overwrites.
* `Upstream_proofs`: `UpstreamTypes`, `EffortStaysBounded`, `LateCallAtMostOnce`
  and the action property `SlowAttemptLeavesRoom`. `UpstreamInv` has a conjunct
  for each: `Attempts` ties the requests sent to the loop's counters at each
  place of the loop, `Runs` the client calls to the engine's attempts,
  `LateCalls` says that after a late call the request is at no place from which
  another could begin, and `FirstAttemptTime` bounds the
  time that can have passed before a second attempt, unless an error's body has dawdled. The
  last is proved under `FirstAttemptFits`, which the property has as a premise: dialling
  and one wait fit into the header timeout.
* `Admission_proofs`: `RulesStayAsSet`, `NeverWithoutAKey`,
  `RefusalsKeepTheirWord` and `LimitsHoldInEveryWindow`, for the whole of `Admission`. `IpInv` says that a copy of the table an administrator is about
  to swap in has every settled rule and no removed one, and that the row of an
  operation nobody else overlaps is as it left it; `KeyInv` that a key which does
  not expire stands behind every rotation, finished or under way.
* There too: `RefusalsKeepTheirWord`, the action property `RetryAfterKept`. What the
  algorithms compute comes first, as lemmas: a refusal leaves a counter that lets in
  whatever it let in before, and whoever comes after the wait it has named (`Refusal`,
  which needs that a sliding window holds no more requests than its limit, `Fits`); a
  new counter lets in everyone who comes after it (`NewCounterIs`). The loop that keeps
  the requests after the cutoff is a recursive function; that it is defined and what
  it returns is shown by a smallest number for which it would fail (`LeastNumber`). Then
  `LimiterInv`: a promise, once given, is one that the counter in the map keeps at every
  later time and that a caller's own counter keeps unless the caller is too early
  (`WordKept`). That a caller may still hold a counter the sweep has removed is what makes the
  rest necessary: such a caller has read the clock before everybody who holds the new
  counter (`StaleIsEarlier`), and no counter, in the map or out of it, serves two keys
  (`OwnCounters`). The word that is kept is
  the one that was given: the wait cut to `WholeSeconds`, so the theorem is about callers
  who come a second after it. It is about limits with counters of their own (`Own`), while
  the others share theirs as they like; whether two rows share is seen from the row's
  dimension and algorithm, and a limit that shares none is the only one to write its counters
  (`OwnLimits`). It does not depend on the age at which the sweep removes a counter.
* There too: `LimitsHoldInEveryWindow`, that `WindowBounded` always holds. A counter does not
  say what it has admitted in every stretch of time, so the invariant, `WindowInv`, says for each
  algorithm what the counter in the map knows of it (`Remembers`): the count of a fixed
  window is all that came after its start, and before that came the limit at most; of
  the requests that came since a time, a sliding window still holds all that count against
  it, however often the older ones are filtered out (`ValidTwice`); and what a bucket has
  given out since a time, with the tokens it has now, is at most a full bucket and
  what has flowed in since. Where the map has no counter there is nothing to know
  (`Forgotten`): the sweep has waited until the counter was idle for a window
  (`IdleForgets`), which is where the property has its premise that the window is no longer than
  `CleanAge` (`Steady`, the limits for which it holds). The run of `UsedCountersStay` shows that
  a longer one is forgotten half-way.
  A caller may be `Lag` ticks behind the clock when it takes the lock
  (`Timely`), by which a check may date an admission too early; the property leaves out as much of the window.

* `BatchQueue_proofs`: `RecordsOnce` and `StopFlushes`, for all seven kinds of
  queue. The invariant gives every record one place (its caller, the channel, one
  worker's batch, the table, or a drop the code reports), which a step moves by
  one; and it ties the progress of the stop procedure to what is closed and who
  has left.
* `SSEStream_proofs`: `StreamsReachTheirEnd`. `EndInv` says that while the client is
  there nothing is closed or cancelled and main ends only for the upstream's reasons;
  that what main has left to do ends in a message_stop and has no other (`OwesStop`),
  or one message_stop has been written; that a message_delta is written or still to
  come; and that the scanner notes its message_delta only after writing it, so that
  main, which looks at the note, leaves it out only when it was written. It does not
  matter where in the scanner's list main's steps fall.
* `SSEStream_proofs`: `StreamsAreWellFormed`. That the client reads a well-formed stream says
  nothing of who is about to write, so the invariant, `WireInv`, adds two layers.
  `Sound` holds of every stream: the types; that the block the scanner is about to open
  is in its hand and numbered within the lines read; that a goroutine's list is one in
  which an item is followed by one that may follow it (`Chained` over a set of pairs, so
  that a step has to look at the next item only); which events main may get in which
  phase of the scanner (`Phases`: main gets `done` once the scanner has left, an error
  when it reads no more); and that message_stop is written when the heartbeat is off
  (`Hushed`). `Course` is about a client that is there and a main that has not
  timed out: one goroutine writes at a time, and the item it is about to do says how
  many blocks the wire has begun and ended and whether a message_delta is on it
  (`ScannerAt`, `MainAt`; `Quiet` between two chunks, where main may take over). Each
  event that may be written is then one that `Protocol` allows (`Allowed`, `Sent`).
* `SSEStream_proofs`: `ArgumentsArrive`. What a client has received of a call and what the
  upstream has given of it are related through the call's buffer (`ArgsWell`): a buffer
  holds every fragment its call was given, whoever else writes into it
  (`AllBuffered`); the fragments before the mark of what was emitted are those the client
  has (`EmittedReceived`, in which a flush appends one event to the wire and moves the
  mark); and between two deliveries nothing of the open block's call lies
  behind the mark (`OpenCallEmitted`), since the lists a chunk gives the scanner
  deliver after every opening. No step but a flush writes an event with fragments in it
  (`WritesBare`), main's closing events included, so main need not wait for the scanner here.
* `ResponsesStream_proofs`: `EventsInOrder` and `CutsReported`. That no call is announced
  twice cannot be seen from what the caller has: `OnceInv` follows the head of each call
  on its way, from the network through the bridge and its pipe into the scanner's list,
  and says at each station that a call is nowhere else. For a Responses upstream
  that takes the bridge's whole discipline: an argument event finds the call it is about,
  which it names (`NamedCalls`) or which is the last one begun (`UnnamedCalls`), the
  bridge hands a call on once, at the end of its arguments, and the upstream ends the
  arguments of a call once. `WireInv` says what the events end in
  while more may follow (`Shape`): nothing before the scanner has begun, then
  `in_progress` or a text delta, no call yet; main's closing events attach to that,
  and main writes them only if the scanner is done without a failure (`Composing`,
  `Control`). `ChatEnds` says that a chat upstream that has not finished has sent no line
  the scanner could take for the end.
* `Persistence_proofs`, one invariant for each part. Its first lemmas are about sums
  over a finite set, which do not depend on the order in which its members are taken.
  The community modules define them by a recursive function over subsets, and
  the library's induction theorems cannot be instantiated here, so they
  argue by a smallest subset for which the claim fails (`SmallestSet`).
  * `BodiesAreKept`. What a row may point at is there, or sits in a file of a day no
    clean-up removes while the row lives (`RowInv`), which is one of a local day no earlier
    than `Earliest` says, half a day before that of UTC at most; what a worker or a cleaner has
    read and will still write is as it was, unless another one overlaps (`WorkInv`,
    `CleanInv`). The days a cleaner has found old stay old because the clock only
    goes forward. It holds for a server in any zone.
  * `StatisticsConserved`. The requests of all rows are the requests counted, and
    a worker that is busy with a request has one that is logged, not yet counted and
    no other worker's, and the row it found is still there (`StatInv`); the sum is a
    `SumFunction`.
  * `LookupsServeRecentRows`. Every copy of a row (in the cache, in a reader's hand,
    in an answer) carries a version that is the row's or was replaced late enough
    (`Recent`), and the entry's expiry says when it was read; with the type
    invariants of all parts.
  * `KeysLeadToTheirRows`. `KeyInv`: calls do not overlap, two rows share a key only
    if it is one of `BodyKeys` (`ConfigKeys`), a load balancer's key is its own or one of the tokens
    it may share, an entry whose key was not dropped is of a row as it is (`EntriesHome`), except for the key an update
    is about to invalidate, and a call under way knows its row.
  * `SessionsAreKept`. `SessionInv` separates the messages a request has inserted
    but not yet counted (`Own`) from those that are settled: a row's counters never
    lead the settled ones, and equal them when requests do not overlap and nothing
    failed.
  * `AlertsStayDistinct`. Only the registered manager checks, and what it is
    about to insert is not open (`Raising`): the newest ten open alerts are all of them
    as long as no two are alike.
  * `OneRowPerMinute`. Only the registered manager sums, and a place of the list it still has to
    sum for the current tick has no row of a tick less than a minute earlier (`SumManager`): so
    two rows of one place are of ticks a minute apart, and if both were taken in time, of two minutes.

The proofs of `Persistence` were what changed the models: `AlertLimit` newest alerts
and the sum of a session's tokens are stated without recursion, the assumptions on
constants are complete, and looking for their invariants brought up the clean-ups that overlap and the token
shared with a load balancer.

Only model-checked: everything about liveness (`ChangesAreNoticed`,
`HalfOpenResolves`, `RequestsEnd`, `StreamEnds`, `RequestEnds`, `EverybodyEnds`,
`StopsAndWrites`), which TLAPS cannot prove under fairness; the conversion properties, whose
modules fold over sequences; `CallsIntact`, which counts the pieces of every call in all the
events of an answer; and `QuotasHold` and `RefusalJustified`, which are claims
about the setups of the run.

## 6. Plan

Done: the request path from key lookup to upstream and back, in both protocols;
load balancing, breakers and health; admission; the queues; what is persisted;
proofs about the components. Next, in order:

1. **Proofs** of `CallsIntact` (ResponsesStream), and of the quota properties for
   every setup of a stated kind.
2. **Two managers over one breaker row**: an instance of `CircuitBreaker` with
   two memories, and the outcome of a stream as what a breaker records.
3. **The response a client gets** when every node fails (`handler.go:226`).
4. **Failed start of a manager**: the components it has started so far.
   Alerts of more conditions than the ten a check reads.
5. Abstract specifications for the queues (each record written at most once)
   and for the rate limiter (a window of admissions), with refinements.

## 7. Not modelled

The Gemini request format, the ReAct prompt, model lists and parameters are pure
functions over JSON, and tests reach their cases better. Migrations, schema,
billing, tenants and users, statistics queries, and most of the administration
API are single statements without shared state in memory. The Anthropic-compatible
handlers in `claude/` are stubs. The statistics collector, the caches, the
connection pools and the older selector are constructed by nothing, or read by
nothing, on the request path. The interruption monitor reports and does not
influence requests. The command line and the web interface are glue and
presentation. TLS, HTTP framing and SQLite are taken as they are: a statement is
atomic and may fail.
