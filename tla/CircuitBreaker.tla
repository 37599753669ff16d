---------------------------- MODULE CircuitBreaker ----------------------------
(***************************************************************************)
(* DefaultCircuitBreaker (handler/circuit_breaker.go) for one upstream     *)
(* configuration, together with the row of circuit_breaker_states it keeps *)
(* in SQLite (database/circuit_breaker.go).                                *)
(*                                                                         *)
(* The breaker's state is split in two.  The sliding window of results and *)
(* the half-open counter live in memory under cb.mu; the state proper      *)
(* (closed, open, half_open, with the deadline of an open breaker) lives   *)
(* in the row.  Every SQL statement is one atomic step and may fail; no    *)
(* transaction or lock spans two of them, so concurrent calls interleave   *)
(* between any two statements.  One process per concurrent Call.           *)
(*                                                                         *)
(* Time is relative: a deadline is the number of ticks left and a window   *)
(* record carries its age, so that the clock needs no bound.               *)
(* failure_count and success_count are left out: nothing reads them back.  *)
(***************************************************************************)
EXTENDS Integers, Sequences, FiniteSets

CONSTANTS
    Callers,            \* concurrent calls of Call
    Timeout,            \* cb.timeout, in ticks
    Window,             \* cb.windowDuration, in ticks
    HalfOpenRequests,   \* cb.halfOpenRequests
    RateNum, RateDen,   \* errorRateThreshold = RateNum / RateDen
    MaxRecords,         \* bound: records held in the window
    MaxFaults,          \* bound: SQL statements that fail
    MaxRestarts,        \* bound: restarts of the process
    MaxResets           \* bound: resets, by Reset or through the API

ASSUME BreakerAssumption ==
    /\ Timeout \in Nat \ {0}
    /\ Window \in Nat \ {0}
    /\ HalfOpenRequests \in Nat \ {0}
    /\ RateNum \in Nat /\ RateDen \in Nat \ {0} /\ RateNum <= RateDen
    /\ MaxRecords \in Nat \ {0}
    /\ MaxFaults \in Nat /\ MaxRestarts \in Nat /\ MaxResets \in Nat

VARIABLES
    row,                \* the database row, or NoRow before its first upsert
    requests,           \* cb.requests: the results still in the window
    halfOpenAttempts,   \* cb.halfOpenAttempts
    call,               \* each call: where it is, and its local variables
    resetting,          \* Reset has cleared memory and not yet the row
    faults, restarts, resets     \* how much of each bound is used

memory == <<requests, halfOpenAttempts>>
bounds == <<faults, restarts, resets>>
vars == <<row, requests, halfOpenAttempts, call, resetting,
          faults, restarts, resets>>
-------------------------------------------------------------------------------
(* Rows and records                                                        *)

NoDeadline == -1        \* next_retry_time IS NULL

States == {"closed", "open", "half_open"}
Rows == [state : States, retryIn : {NoDeadline} \cup 0..Timeout]
NoRow == [state |-> "none", retryIn |-> NoDeadline]

ClosedRow   == [state |-> "closed",    retryIn |-> NoDeadline]
HalfOpenRow == [state |-> "half_open", retryIn |-> NoDeadline]
OpenRow     == [state |-> "open",      retryIn |-> Timeout]

Records == [age : 0..Window, success : BOOLEAN]

PCs == {"idle", "initialize", "reread", "toHalfOpen", "enterHalfOpen",
        "running", "recordRead", "recordWrite", "shouldOpen", "tripOpen",
        "backToOpen", "dropAttempts", "toClosed", "clearMemory"}

Calls == [pc : PCs,
          mode : {"closed", "half_open"},   \* the state it read and runs under
          ok : BOOLEAN,                     \* whether fn returned nil
          attempts : Nat,                   \* "attempts" of executeInHalfOpen
          seen : Rows]                      \* the row it will write back

IdleCall == [pc |-> "idle", mode |-> "closed", ok |-> TRUE,
             attempts |-> 0, seen |-> ClosedRow]

\* Records enter in the order of time, so those that have left the window
\* are the first ones.
Expired(reqs) == Cardinality({i \in DOMAIN reqs : reqs[i].age >= Window})
CleanOldRequests(reqs) == SubSeq(reqs, Expired(reqs) + 1, Len(reqs))

\* errorRate > cb.errorRateThreshold over every record still held.
OverThreshold(reqs) ==
    LET failed == Cardinality({i \in DOMAIN reqs : ~reqs[i].success})
    IN  failed * RateDen > RateNum * Len(reqs)

\* A SQL statement fails: its caller sees an error and the row is untouched.
SqlFails ==
    /\ faults < MaxFaults
    /\ faults' = faults + 1
    /\ UNCHANGED <<row, restarts, resets>>

SqlWrites(r) == row' = r /\ UNCHANGED bounds
SqlReads == row # NoRow /\ UNCHANGED <<row, bounds>>
NotFound == row = NoRow /\ UNCHANGED <<row, bounds>>

At(c, label) == call[c].pc = label
Becomes(c, v) == call' = [call EXCEPT ![c] = v]
Goto(c, label) == Becomes(c, [call[c] EXCEPT !.pc = label])
Return(c) == Becomes(c, IdleCall)
-------------------------------------------------------------------------------
Init ==
    /\ row = NoRow
    /\ requests = <<>> /\ halfOpenAttempts = 0
    /\ call = [c \in Callers |-> IdleCall]
    /\ resetting = FALSE
    /\ faults = 0 /\ restarts = 0 /\ resets = 0

(* Call: switch on the state of the row just read.                         *)
Dispatch(c) ==
    LET admit(s, label) ==
            Becomes(c, [call[c] EXCEPT !.mode = s, !.pc = label])
    IN  \/ row.state = "open" /\ row.retryIn = 0 /\ admit("half_open", "toHalfOpen")
        \/ row.state = "open" /\ row.retryIn # 0 /\ Return(c)
        \/ row.state = "half_open" /\ admit("half_open", "enterHalfOpen")
        \/ row.state = "closed" /\ admit("closed", "running")

GetState(c) ==
    /\ At(c, "idle")
    /\ \/ SqlReads /\ Dispatch(c)
       \/ (NotFound \/ SqlFails) /\ Goto(c, "initialize")
    /\ UNCHANGED <<memory, resetting>>

\* Any error of the first read, not only a missing row, leads here.
Initialize(c) ==
    /\ At(c, "initialize")
    /\ \/ SqlWrites(ClosedRow) /\ Goto(c, "reread")
       \/ SqlFails /\ Return(c)
    /\ UNCHANGED <<memory, resetting>>

Reread(c) ==
    /\ At(c, "reread")
    /\ \/ SqlReads /\ Dispatch(c)
       \/ SqlFails /\ Return(c)
    /\ UNCHANGED <<memory, resetting>>

ToHalfOpen(c) ==
    /\ At(c, "toHalfOpen")
    /\ \/ SqlWrites(HalfOpenRow) /\ Goto(c, "enterHalfOpen")
       \/ SqlFails /\ Return(c)
    /\ UNCHANGED <<memory, resetting>>

EnterHalfOpen(c) ==
    /\ At(c, "enterHalfOpen")
    /\ halfOpenAttempts' = halfOpenAttempts + 1
    /\ Becomes(c, [call[c] EXCEPT !.attempts = halfOpenAttempts + 1,
                                  !.pc = "running"])
    /\ UNCHANGED <<row, requests, resetting, bounds>>

Returned(c, result) ==
    Becomes(c, [call[c] EXCEPT !.ok = result, !.pc = "recordRead"])

(* fn returns.  In closed mode the result enters the window, and records   *)
(* that have left it are dropped, before anything else can happen.         *)
FinishClosed(c, result) ==
    /\ At(c, "running") /\ call[c].mode = "closed"
    /\ Len(CleanOldRequests(requests)) < MaxRecords
    /\ requests' =
         CleanOldRequests(Append(requests, [age |-> 0, success |-> result]))
    /\ Returned(c, result)
    /\ UNCHANGED <<row, halfOpenAttempts, resetting, bounds>>

FinishHalfOpen(c, result) ==
    /\ At(c, "running") /\ call[c].mode = "half_open"
    /\ Returned(c, result)
    /\ UNCHANGED <<row, memory, resetting, bounds>>

\* Mutant: the row written back has lost its deadline.
RecordReadStateOnly(c) ==
    LET remember(r) ==
            Becomes(c, [call[c] EXCEPT !.seen = [r EXCEPT !.retryIn = NoDeadline],
                                       !.pc = "recordWrite"])
    IN  /\ At(c, "recordRead")
        /\ \/ SqlReads /\ remember(row)
           \/ (NotFound \/ SqlFails) /\ remember(ClosedRow)
        /\ UNCHANGED <<memory, resetting>>

(* RecordSuccess and RecordFailure: read the row, change its counts, write *)
(* the whole row back.  A read that fails is taken for a missing row.      *)
RecordRead(c) ==
    LET remember(r) ==
            Becomes(c, [call[c] EXCEPT !.seen = r, !.pc = "recordWrite"])
    IN  /\ At(c, "recordRead")
        /\ \/ SqlReads /\ remember(row)
           \/ (NotFound \/ SqlFails) /\ remember(ClosedRow)
        /\ UNCHANGED <<memory, resetting>>

\* Mutants: a failed test does not open the breaker again; one test too few.
AfterRecordStay(c) ==
    IF call[c].mode = "closed"
    THEN IF call[c].ok THEN Return(c) ELSE Goto(c, "shouldOpen")
    ELSE IF ~call[c].ok THEN Goto(c, "dropAttempts")
         ELSE IF call[c].attempts >= HalfOpenRequests THEN Goto(c, "toClosed")
              ELSE Return(c)

AfterRecordEarly(c) ==
    IF call[c].mode = "closed"
    THEN IF call[c].ok THEN Return(c) ELSE Goto(c, "shouldOpen")
    ELSE IF ~call[c].ok THEN Goto(c, "backToOpen")
         ELSE IF call[c].attempts + 1 >= HalfOpenRequests THEN Goto(c, "toClosed")
              ELSE Return(c)

AfterRecord(c) ==
    IF call[c].mode = "closed"
    THEN IF call[c].ok THEN Return(c) ELSE Goto(c, "shouldOpen")
    ELSE IF ~call[c].ok THEN Goto(c, "backToOpen")
         ELSE IF call[c].attempts >= HalfOpenRequests THEN Goto(c, "toClosed")
              ELSE Return(c)

RecordWrite(c) ==
    /\ At(c, "recordWrite")
    /\ SqlWrites(call[c].seen) \/ SqlFails
    /\ AfterRecord(c)
    /\ UNCHANGED <<memory, resetting>>

ShouldOpen(c) ==
    /\ At(c, "shouldOpen")
    /\ IF OverThreshold(requests) THEN Goto(c, "tripOpen") ELSE Return(c)
    /\ UNCHANGED <<row, memory, resetting, bounds>>

TripOpen(c) ==
    /\ At(c, "tripOpen")
    /\ SqlWrites(OpenRow) \/ SqlFails
    /\ Return(c)
    /\ UNCHANGED <<memory, resetting>>

BackToOpen(c) ==
    /\ At(c, "backToOpen")
    /\ SqlWrites(OpenRow) \/ SqlFails
    /\ Goto(c, "dropAttempts")
    /\ UNCHANGED <<memory, resetting>>

DropAttempts(c) ==
    /\ At(c, "dropAttempts")
    /\ halfOpenAttempts' = 0
    /\ Return(c)
    /\ UNCHANGED <<row, requests, resetting, bounds>>

ToClosed(c) ==
    /\ At(c, "toClosed")
    /\ SqlWrites(ClosedRow) \/ SqlFails
    /\ Goto(c, "clearMemory")
    /\ UNCHANGED <<memory, resetting>>

ClearMemory(c) ==
    /\ At(c, "clearMemory")
    /\ requests' = <<>> /\ halfOpenAttempts' = 0
    /\ Return(c)
    /\ UNCHANGED <<row, resetting, bounds>>

(* Reset of the CircuitBreaker interface: memory first, then the row.      *)
ResetMemory ==
    /\ ~resetting /\ resetting' = TRUE
    /\ resets < MaxResets /\ resets' = resets + 1
    /\ requests' = <<>> /\ halfOpenAttempts' = 0
    /\ UNCHANGED <<row, call, faults, restarts>>

ResetRow ==
    /\ resetting /\ resetting' = FALSE
    /\ SqlWrites(ClosedRow) \/ SqlFails
    /\ UNCHANGED <<memory, call>>

\* POST .../circuit-breakers/:config_id/reset only writes the row.
ResetCircuitBreaker ==
    /\ resets < MaxResets
    /\ resets' = resets + 1
    /\ row' = ClosedRow
    /\ UNCHANGED <<memory, call, resetting, faults, restarts>>

(* The process dies and starts again: the row survives, memory and calls   *)
(* in flight do not.                                                       *)
Restart ==
    /\ restarts < MaxRestarts
    /\ restarts' = restarts + 1
    /\ requests' = <<>> /\ halfOpenAttempts' = 0
    /\ call' = [c \in Callers |-> IdleCall]
    /\ resetting' = FALSE
    /\ UNCHANGED <<row, faults, resets>>

Sooner(r) == IF r.retryIn > 0 THEN [r EXCEPT !.retryIn = @ - 1] ELSE r
Older(r) == IF r.age < Window THEN [r EXCEPT !.age = @ + 1] ELSE r

Tick ==
    /\ row' = Sooner(row)
    /\ call' = [c \in Callers |-> [call[c] EXCEPT !.seen = Sooner(@)]]
    /\ requests' = [i \in DOMAIN requests |-> Older(requests[i])]
    /\ UNCHANGED <<halfOpenAttempts, resetting, bounds>>

Finish(c) == \E result \in BOOLEAN : FinishClosed(c, result) \/ FinishHalfOpen(c, result)

CallStep(c) ==
    \/ GetState(c) \/ Initialize(c) \/ Reread(c)
    \/ ToHalfOpen(c) \/ EnterHalfOpen(c) \/ Finish(c)
    \/ RecordRead(c) \/ RecordWrite(c)
    \/ ShouldOpen(c) \/ TripOpen(c)
    \/ BackToOpen(c) \/ DropAttempts(c) \/ ToClosed(c) \/ ClearMemory(c)

Next ==
    \/ \E c \in Callers : CallStep(c)
    \/ ResetMemory \/ ResetRow \/ ResetCircuitBreaker
    \/ Restart \/ Tick

Spec == Init /\ [][Next]_vars

\* A call that has started goes on, but for the function it runs, which owes
\* nothing; a reset goes on; time passes.  Nothing is assumed of calls to come.
Fairness ==
    /\ \A c \in Callers : WF_vars(call[c].pc \notin {"idle", "running"} /\ CallStep(c))
    /\ WF_vars(ResetRow) /\ WF_vars(Tick)

FairSpec == Spec /\ Fairness
-------------------------------------------------------------------------------
(* Properties                                                              *)

TypeOK ==
    /\ row \in Rows \cup {NoRow}
    /\ requests \in Seq(Records)
    /\ halfOpenAttempts \in Nat
    /\ call \in [Callers -> Calls]
    /\ resetting \in BOOLEAN
    /\ faults \in 0..MaxFaults
    /\ restarts \in 0..MaxRestarts
    /\ resets \in 0..MaxResets

\* An open breaker is left only through its deadline (Call tests
\* state.NextRetryTime != nil first), so an open row without one would
\* reject every request of the node for ever.  Whatever stale row the
\* concurrent Record* calls write back, that never happens.
OpenHasDeadline == row.state = "open" => row.retryIn # NoDeadline

\* Calls keep coming, and the functions they run return.
CallsComeAndGo ==
    /\ []<><<\E c \in Callers : GetState(c)>>_vars
    /\ \A c \in Callers : []<>(call[c].pc # "running")

\* Half-open is a passage: as long as requests reach it and come to an end,
\* the breaker either closes or opens again, whatever the order in which
\* overlapping calls bump, read and clear halfOpenAttempts, and whatever
\* restarts, resets and failing statements come between.  (That requests
\* reach an open breaker, to take it out of open, nothing in the proxy
\* ensures: see OpenStaysOpen of LoadBalancer.)
HalfOpenResolves ==
    CallsComeAndGo => (row.state = "half_open" ~> row.state # "half_open")

\* README.md:338 "Open: rejects all requests" until circuit_breaker_timeout
\* has run out: only a reset may take the row out of "open" before that.
OpenHolds ==
    [][row.state = "open" /\ row.retryIn > 0
         => row'.state = "open" \/ ResetRow \/ ResetCircuitBreaker]_vars
===============================================================================
