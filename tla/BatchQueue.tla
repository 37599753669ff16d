------------------------------ MODULE BatchQueue ------------------------------
(***************************************************************************)
(* The background queues of the program.  A request goroutine hands a      *)
(* record (a usage row, an audit event, an alert, a request log, ...) to a *)
(* buffered channel and goes on; one worker or several take records from   *)
(* the channel, collect them in a batch or not, and write them to SQLite.  *)
(* The six queues of the program differ in what a caller does when the     *)
(* channel is full, in which signals the worker listens to, in how a batch *)
(* is written and in what stopping means; "kind", chosen in the initial    *)
(* state, says which of them this behaviour is about:                      *)
(*                                                                         *)
(*   "usage"    security/usage_tracker.go                                  *)
(*   "audit"    security/audit_logger.go                                   *)
(*   "alert"    security/alert_manager.go                                  *)
(*   "request"  database/async_logger.go, and the interruption writer of   *)
(*              database/session_interruptions.go, which copies it         *)
(*   "lblog"    handler/async_logger.go                                    *)
(*   "monitor"  the log channel of handler/monitor.go                      *)
(***************************************************************************)
EXTENDS Naturals, Sequences, FiniteSets, SequencesExt

CONSTANTS
    Records,      \* the records; each is handed over once, by its own caller
    Kinds,        \* the queues a run looks at
    Workers,      \* worker goroutines of the "request" queue
    TheWorker,    \* the single worker of every other queue
    Capacity,     \* size of the channel
    BatchSize,    \* records per batch
    MaxFaults     \* bound on failing database writes

ASSUME QueueAssumption ==
    /\ Kinds \subseteq {"usage", "audit", "alert", "request", "lblog", "monitor"}
    /\ TheWorker \in Workers
    /\ Capacity \in Nat \ {0} /\ BatchSize \in Nat \ {0} /\ MaxFaults \in Nat

VARIABLES
    kind,         \* which queue
    pc,           \* where the caller of each record stands
    queue,        \* the channel
    batch,        \* what each worker has taken and not yet written
    wpc,          \* where each worker stands
    stopAt,       \* how many steps of the stop procedure have been made
    cancelled,    \* the context given to Start is done
    recent,       \* "alert": the key of the alerts is in recentAlerts
    stored,       \* rows written for each record
    failed,       \* records given up because a write failed
    faults

vars == <<kind, pc, queue, batch, wpc, stopAt, cancelled, recent, stored,
          failed, faults>>

callers == <<pc, recent>>
workers == <<queue, batch, wpc>>
table   == <<stored, failed, faults>>

Batched == {"usage", "audit", "lblog"}
Team    == IF kind = "request" THEN Workers ELSE {TheWorker}

------------------------------------------------------------------------------
(* Stopping: the steps each Stop, Close or Shutdown makes, in order.        *)

UsageClose      == <<"signal", "wait">>
AuditStop       == <<"flag", "signal", "close", "wait">>
AlertStop       == <<"flag", "signal", "close", "wait">>
\* (mutant) Stop without the flush.
StopUnflushed    == <<"flag", "signal", "wait">>
RequestShutdown == <<"close", "wait">>
LBLogStop       == <<"flag", "signal", "wait", "flush">>
MonitorStop     == <<"flag", "signal", "wait">>

StopPlan == [usage |-> UsageClose, audit |-> AuditStop, alert |-> AlertStop,
             request |-> RequestShutdown, lblog |-> LBLogStop,
             monitor |-> MonitorStop][kind]

Did(step) == step \in ToSet(SubSeq(StopPlan, 1, stopAt))

Idle == \A w \in Team : wpc[w] = "done"

Returned == stopAt = Len(StopPlan) /\ Idle

\* The next step of the procedure.  "wait" is wg.Wait(); "flush" is the flush
\* of what the worker of handler/async_logger.go left in the shared buffer.
StopStep ==
    /\ stopAt < Len(StopPlan)
    /\ LET step == StopPlan[stopAt + 1] IN
         /\ step \in {"wait", "flush"} => Idle
         /\ wpc' = IF step = "flush" /\ batch[TheWorker] # <<>>
                     THEN [wpc EXCEPT ![TheWorker] = "lastwrite"] ELSE wpc
    /\ stopAt' = stopAt + 1
    /\ UNCHANGED <<kind, callers, queue, batch, cancelled, table>>

StopCalled == stopAt = 0 /\ StopStep
StopGoesOn == stopAt > 0 /\ StopStep

\* The context handed to Start ends (LoadBalancerManager.Stop cancels it before
\* it stops the components; the usage tracker and the request log have none).
Cancel ==
    /\ kind \notin {"usage", "request"} /\ ~cancelled
    /\ cancelled' = TRUE
    /\ UNCHANGED <<kind, callers, workers, stopAt, table>>

------------------------------------------------------------------------------
(* The callers.                                                             *)

\* These look at the caller's context as well, which may be done at any time.
WithContext == {"usage", "audit", "alert"}

\* select { case ch <- record: ... case <-ctx.Done(): ... default: ... }.  A send
\* on a channel that was closed panics, inside a select too.
Send(r, whenFull) ==
    \/ /\ kind \in WithContext
       /\ pc' = [pc EXCEPT ![r] = "refused"] /\ UNCHANGED queue
    \/ /\ Did("close")
       /\ pc' = [pc EXCEPT ![r] = "panic"] /\ UNCHANGED queue
    \/ /\ ~Did("close") /\ Len(queue) < Capacity
       /\ queue' = Append(queue, r) /\ pc' = [pc EXCEPT ![r] = "accepted"]
    \/ /\ ~Did("close") /\ Len(queue) = Capacity
       /\ pc' = [pc EXCEPT ![r] = whenFull] /\ UNCHANGED queue

callerFrame == UNCHANGED <<kind, batch, wpc, stopAt, cancelled, table>>

\* A full channel is an error for the caller, who only prints it.
RecordUsage(r) ==
    /\ kind = "usage" /\ pc[r] = "idle"
    /\ Send(r, "refused")
    /\ UNCHANGED recent /\ callerFrame

\* LogEvent reads "stopped" under the lock, releases it, and sends later.
LogEvent(r) ==
    /\ kind = "audit" /\ pc[r] = "idle"
    /\ pc' = [pc EXCEPT ![r] = IF Did("flag") THEN "refused" ELSE "checked"]
    /\ UNCHANGED <<queue, recent>> /\ callerFrame

LogEventSends(r) ==
    /\ kind = "audit" /\ pc[r] = "checked"
    /\ Send(r, "writing")
    /\ UNCHANGED recent /\ callerFrame

\* queueAlert reads recentAlerts under the read lock, marks the key under the
\* write lock in a second critical section, and then sends.
queueAlert(r) ==
    /\ kind = "alert" /\ pc[r] = "idle"
    /\ pc' = [pc EXCEPT ![r] = IF recent THEN "refused" ELSE "checked"]
    /\ UNCHANGED <<queue, recent>> /\ callerFrame

queueAlertMarks(r) ==
    /\ kind = "alert" /\ pc[r] = "checked"
    /\ recent' = TRUE /\ pc' = [pc EXCEPT ![r] = "marked"]
    /\ UNCHANGED queue /\ callerFrame

queueAlertSends(r) ==
    /\ kind = "alert" /\ pc[r] = "marked"
    /\ Send(r, "writing")
    /\ UNCHANGED recent /\ callerFrame

\* The duplicate window passes, or cleanupRecentAlerts drops the entry.
WindowPasses ==
    /\ recent /\ recent' = FALSE
    /\ UNCHANGED <<pc, queue>> /\ callerFrame

\* LogAsync, and LogInterruptionAsync alike.
LogAsync(r) ==
    /\ kind = "request" /\ pc[r] = "idle"
    /\ Send(r, "writing")
    /\ UNCHANGED recent /\ callerFrame

Log(r) ==
    /\ kind = "lblog" /\ pc[r] = "idle"
    /\ Send(r, "dropped")
    /\ UNCHANGED recent /\ callerFrame

RecordRequest(r) ==
    /\ kind = "monitor" /\ pc[r] = "idle"
    /\ Send(r, "dropped")
    /\ UNCHANGED recent /\ callerFrame

\* The caller writes the record itself because the channel was full.
SyncWrite(r) ==
    /\ pc[r] = "writing"
    /\ pc' = [pc EXCEPT ![r] = "accepted"]
    /\ \/ /\ stored' = [stored EXCEPT ![r] = @ + 1] /\ UNCHANGED <<failed, faults>>
       \/ /\ faults < MaxFaults
          /\ failed' = failed \cup {r} /\ faults' = faults + 1 /\ UNCHANGED stored
    /\ UNCHANGED <<kind, workers, stopAt, cancelled, recent>>

Caller(r) ==
    \/ RecordUsage(r) \/ LogEvent(r) \/ LogEventSends(r)
    \/ queueAlert(r) \/ queueAlertMarks(r) \/ queueAlertSends(r)
    \/ LogAsync(r) \/ Log(r) \/ RecordRequest(r) \/ SyncWrite(r)

------------------------------------------------------------------------------
(* The workers.                                                             *)

workerFrame == UNCHANGED <<kind, callers, stopAt, cancelled>>

\* A record arrives.  A batched queue writes when the batch is full, the others
\* write every record at once.
Take(w) ==
    /\ wpc[w] = "select" /\ queue # <<>>
    /\ queue' = Tail(queue)
    /\ batch' = [batch EXCEPT ![w] = Append(@, Head(queue))]
    /\ wpc' = [wpc EXCEPT ![w] =
                 IF kind \in Batched /\ Len(batch[w]) + 1 < BatchSize
                   THEN "select" ELSE "write"]
    /\ UNCHANGED table /\ workerFrame

\* (mutant) A ticker that only looks at full batches.
TickWhenFull(w) ==
    /\ wpc[w] = "select" /\ Len(batch[w]) >= BatchSize
    /\ wpc' = [wpc EXCEPT ![w] = "write"]
    /\ UNCHANGED <<queue, batch, table>> /\ workerFrame

\* The flush ticker.
Tick(w) ==
    /\ wpc[w] = "select" /\ batch[w] # <<>>
    /\ wpc' = [wpc EXCEPT ![w] = "write"]
    /\ UNCHANGED <<queue, batch, table>> /\ workerFrame

\* The worker leaves its loop, after a last flush or without one.
Leave(w, flushes) ==
    /\ wpc[w] = "select"
    /\ wpc' = [wpc EXCEPT ![w] =
                 IF flushes /\ batch[w] # <<>> THEN "lastwrite" ELSE "done"]
    /\ UNCHANGED <<queue, batch, table>> /\ workerFrame

\* A receive from a closed channel reports so once the channel is empty.
Drained == Did("close") /\ queue = <<>>

usageWorker(w) ==
    /\ kind = "usage"
    /\ Take(w) \/ Tick(w) \/ (Did("signal") /\ Leave(w, TRUE))

auditWorker(w) ==
    /\ kind = "audit"
    /\ \/ Take(w) \/ Tick(w)
       \/ (Drained \/ Did("signal") \/ cancelled) /\ Leave(w, TRUE)

alertWorker(w) ==
    /\ kind = "alert"
    /\ Take(w) \/ ((Drained \/ Did("signal") \/ cancelled) /\ Leave(w, FALSE))

\* for logEntry := range al.logQueue
requestWorker(w) ==
    /\ kind = "request"
    /\ Take(w) \/ (Drained /\ Leave(w, FALSE))

lblogWorker(w) ==
    /\ kind = "lblog"
    /\ Take(w) \/ Tick(w) \/ ((Did("signal") \/ cancelled) /\ Leave(w, FALSE))

monitorWorker(w) ==
    /\ kind = "monitor"
    /\ Take(w) \/ ((Did("signal") \/ cancelled) /\ Leave(w, FALSE))

After(w) == IF wpc[w] \in {"write", "rows"} THEN "select" ELSE "done"

\* (mutant) A batch insert without the transaction: when a later row fails, the
\* first one stays, and the fallback writes it again.
WriteBatchUnrolled(w) ==
    /\ wpc[w] \in {"write", "lastwrite"}
    /\ stored' = [stored EXCEPT ![Head(batch[w])] = @ + 1]
    /\ IF kind = "lblog" /\ faults < MaxFaults
         THEN wpc' = [wpc EXCEPT ![w] = IF @ = "write" THEN "rows" ELSE "lastrows"]
              /\ faults' = faults + 1 /\ UNCHANGED batch
         ELSE batch' = [batch EXCEPT ![w] = Tail(@)]
              /\ wpc' = [wpc EXCEPT ![w] = IF Len(batch[w]) = 1 THEN After(w) ELSE @]
              /\ UNCHANGED faults
    /\ UNCHANGED <<queue, failed>> /\ workerFrame

\* A batch is written in one transaction: all of it or nothing.  When it fails
\* the batch is given up, but handler/async_logger.go then tries its rows one
\* by one.  An alert that has been stored is then sent.
WriteBatch(w) ==
    /\ wpc[w] \in {"write", "lastwrite"}
    /\ \/ /\ stored' = [r \in Records |-> stored[r] +
                          IF r \in ToSet(batch[w]) THEN 1 ELSE 0]
          /\ batch' = [batch EXCEPT ![w] = <<>>]
          /\ wpc' = [wpc EXCEPT ![w] = IF kind = "alert" THEN "sending" ELSE After(w)]
          /\ UNCHANGED <<failed, faults>>
       \/ /\ faults < MaxFaults /\ kind # "lblog"
          /\ failed' = failed \cup ToSet(batch[w])
          /\ batch' = [batch EXCEPT ![w] = <<>>]
          /\ wpc' = [wpc EXCEPT ![w] = After(w)]
          /\ faults' = faults + 1 /\ UNCHANGED stored
       \/ /\ faults < MaxFaults /\ kind = "lblog"
          /\ wpc' = [wpc EXCEPT ![w] = IF @ = "write" THEN "rows" ELSE "lastrows"]
          /\ faults' = faults + 1 /\ UNCHANGED <<batch, stored, failed>>
    /\ UNCHANGED queue /\ workerFrame

\* The fallback: CreateLoadBalancerRequestLog for each row of the batch.
WriteRow(w) ==
    /\ wpc[w] \in {"rows", "lastrows"}
    /\ \/ /\ batch[w] = <<>>
          /\ wpc' = [wpc EXCEPT ![w] = After(w)] /\ UNCHANGED <<batch, table>>
       \/ /\ batch[w] # <<>>
          /\ batch' = [batch EXCEPT ![w] = Tail(@)]
          /\ stored' = [stored EXCEPT ![Head(batch[w])] = @ + 1]
          /\ UNCHANGED <<wpc, failed, faults>>
       \/ /\ batch[w] # <<>> /\ faults < MaxFaults
          /\ batch' = [batch EXCEPT ![w] = Tail(@)]
          /\ failed' = failed \cup {Head(batch[w])} /\ faults' = faults + 1
          /\ UNCHANGED <<wpc, stored>>
    /\ UNCHANGED queue /\ workerFrame

\* SendAlert's webhook, and its mail through smtp.SendMail, which waits for the
\* mail server without a timeout; errors are only printed.  (A caller who found
\* the channel full sends as well, and keeps nobody but itself waiting.)
Sent(w) ==
    /\ wpc[w] = "sending"
    /\ wpc' = [wpc EXCEPT ![w] = "select"]
    /\ UNCHANGED <<queue, batch, table>> /\ workerFrame

Worker(w) ==
    \/ usageWorker(w) \/ auditWorker(w) \/ alertWorker(w)
    \/ requestWorker(w) \/ lblogWorker(w) \/ monitorWorker(w)
    \/ WriteBatch(w) \/ WriteRow(w)

------------------------------------------------------------------------------
Init ==
    /\ kind \in Kinds
    /\ pc = [r \in Records |-> "idle"]
    /\ queue = <<>>
    /\ batch = [w \in Workers |-> <<>>]
    /\ wpc = [w \in Workers |-> "select"]
    /\ stopAt = 0 /\ cancelled = FALSE /\ recent = FALSE
    /\ stored = [r \in Records |-> 0] /\ failed = {} /\ faults = 0

Next ==
    \/ \E r \in Records : Caller(r)
    \/ \E w \in Team : Worker(w) \/ Sent(w)
    \/ WindowPasses \/ Cancel \/ StopCalled \/ StopGoesOn

\* Goroutines that can run do run; whoever calls Stop stays in it.  Nothing is
\* assumed of a mail server.
Fairness ==
    /\ \A w \in Workers : WF_vars(w \in Team /\ Worker(w))
    /\ \A r \in Records : WF_vars(SyncWrite(r))
    /\ WF_vars(StopGoesOn)

Spec     == Init /\ [][Next]_vars
FairSpec == Spec /\ Fairness

------------------------------------------------------------------------------
CallerStates == {"idle", "checked", "marked", "writing", "accepted", "refused",
                 "dropped", "panic"}
WorkerStates == {"select", "write", "sending", "rows", "lastwrite", "lastrows", "done"}

\* The channel and the batches stay within their sizes.
TypeOK ==
    /\ kind \in Kinds
    /\ pc \in [Records -> CallerStates]
    /\ queue \in Seq(Records) /\ Len(queue) <= Capacity
    /\ batch \in [Workers -> Seq(Records)]
    /\ \A w \in Workers : Len(batch[w]) <= BatchSize
    /\ wpc \in [Workers -> WorkerStates]
    /\ stopAt \in 0 .. 4 /\ cancelled \in BOOLEAN /\ recent \in BOOLEAN
    /\ stored \in [Records -> Nat] /\ failed \in SUBSET Records
    /\ faults \in 0 .. MaxFaults

\* 1 if the condition holds, else 0.
One(b) == IF b THEN 1 ELSE 0

\* How many places a record is in: with its caller, in the channel, in a
\* worker's hands, in the table, or given up after a failed write.
Places(r) ==
    One(pc[r] # "accepted") + One(r \in ToSet(queue))
      + Cardinality({w \in Workers : r \in ToSet(batch[w])})
      + stored[r] + One(r \in failed)

\* A record is in exactly one place from the call to the end: it never
\* vanishes on the way from the caller to the table, and neither the fallback
\* of a full channel nor the row-by-row fallback of a failed batch writes it
\* a second time.
EveryRecordOnce == \A r \in Records : Places(r) = 1

\* When Stop, Close or Shutdown returns, no worker still holds a record: what
\* had been taken from the channel has been written or has failed.  The queues
\* that are read until they are closed have then written all they accepted.
StoppedMeansFlushed ==
    Returned => /\ \A w \in Team : batch[w] = <<>>
                /\ kind = "request" => queue = <<>>

\* A call of Stop, Close or Shutdown comes back, whatever the channel holds and
\* whichever of its signals the worker happens to see first.
StopReturns == (stopAt > 0) ~> Returned

\* While nobody stops the queue, an accepted record is written in the end (or
\* its write fails), also if no further record ever fills up its batch.
AcceptedIsWritten ==
    \A r \in Records :
      (pc[r] = "accepted") ~> (stored[r] > 0 \/ r \in failed \/ stopAt > 0 \/ cancelled)

SendingEnds == \A w \in Workers : []<>(wpc[w] # "sending")

\* A queue neither hangs when it is stopped nor sits on a record before that,
\* unless it is the alerts' and a mail server keeps its worker for ever.
StopsAndWrites == SendingEnds => StopReturns /\ AcceptedIsWritten

------------------------------------------------------------------------------
(* What the comments promise and the code does not keep; see the README.    *)

\* "Flush remaining records before stopping", "Stop gracefully stops": after
\* the stop nothing accepted is left behind in the channel.
RemainingFlushed == Returned => queue = <<>>

==============================================================================
