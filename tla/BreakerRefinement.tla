-------------------------- MODULE BreakerRefinement --------------------------
(***************************************************************************)
(* CircuitBreaker implements AbstractBreaker as long as calls do not       *)
(* overlap and SQL statements do not fail.  This is the regime the unit    *)
(* tests of the repository drive the breaker in; with two overlapping      *)
(* calls the implementation is lost (see OpenHolds in CircuitBreaker).     *)
(***************************************************************************)
EXTENDS CircuitBreaker

AllIdle == \A c \in Callers : At(c, "idle")
OthersIdle(c) == \A d \in Callers \ {c} : At(d, "idle")

\* One call at a time, resets between calls, restarts at any time.  A reset
\* through the API leaves halfOpenAttempts alone: the credit it holds would
\* count towards the next half-open phase, so it must come when there is none.
SerialNext ==
    /\ \/ \E c \in Callers : OthersIdle(c) /\ ~resetting /\ CallStep(c)
       \/ AllIdle /\ (ResetMemory \/ ResetRow)
       \/ AllIdle /\ halfOpenAttempts = 0 /\ ResetCircuitBreaker
       \/ Restart
       \/ Tick
    /\ faults' = faults

SerialSpec == Init /\ [][SerialNext]_vars

-------------------------------------------------------------------------------
(* The refinement mapping.  halfOpenAttempts is bumped before fn runs, so  *)
(* a test that is running or has failed is not yet a success.  A Reset     *)
(* counts once it has reached the row.                                     *)

Pending(v) == v.mode = "half_open" /\ (v.pc = "running" \/ ~v.ok)
TestPending == \E c \in Callers : Pending(call[c])

absState == IF row = NoRow THEN "closed" ELSE row.state
absLeft == IF row.retryIn = NoDeadline THEN 0 ELSE row.retryIn
absSuccesses == IF TestPending THEN halfOpenAttempts - 1 ELSE halfOpenAttempts
absResets == IF resetting THEN resets - 1 ELSE resets

Abstract == INSTANCE AbstractBreaker WITH
    state <- absState, left <- absLeft, successes <- absSuccesses,
    resets <- absResets

\* Call by call, the code is the breaker README.md describes: it opens only
\* from Closed, tests only after the deadline, and closes, unless it is
\* reset, only after half_open_requests successful tests.
ImplementsTextbook == Abstract!Spec

-------------------------------------------------------------------------------
(* Why: between two steps of the only call in flight, the row is still in  *)
(* the state that the call read, and the counter belongs to it.            *)

RowMatches(v, r) ==
    /\ v.pc = "initialize" => r = NoRow
    /\ v.pc = "reread" => r = ClosedRow
    /\ v.pc = "toHalfOpen" => r.state = "open" /\ r.retryIn = 0
    /\ v.pc \in {"enterHalfOpen", "backToOpen", "toClosed"} => r.state = "half_open"
    /\ v.pc \in {"running", "recordRead", "recordWrite"} => r.state = v.mode
    /\ v.pc = "recordWrite" => v.seen = r
    /\ v.pc \in {"shouldOpen", "tripOpen", "clearMemory"} => r.state = "closed"
    /\ v.pc = "dropAttempts" => r.state = "open"

ModeMatches(v) ==
    /\ v.pc \in {"idle", "initialize", "reread", "shouldOpen", "tripOpen"} =>
           v.mode = "closed"
    /\ v.pc \in {"toHalfOpen", "enterHalfOpen", "backToOpen", "dropAttempts",
                 "toClosed", "clearMemory"} => v.mode = "half_open"
    /\ v.pc \in {"backToOpen", "dropAttempts", "shouldOpen", "tripOpen"} => ~v.ok
    /\ v.pc \in {"idle", "initialize", "reread", "toHalfOpen", "enterHalfOpen",
                 "running", "toClosed", "clearMemory"} => v.ok

\* The number n a test compares with halfOpenRequests is the counter itself.
AttemptsMatch(v, n) ==
    v.mode = "half_open" =>
        /\ v.pc \in {"running", "recordRead", "recordWrite", "backToOpen",
                     "dropAttempts", "toClosed"} => v.attempts = n
        /\ v.pc = "toClosed" => n >= HalfOpenRequests

\* Outside half-open the counter is zero, or is about to be cleared: a new
\* half-open phase starts counting from nothing.
Cleared(v, r, n) ==
    r.state # "half_open" => n = 0 \/ v.pc \in {"dropAttempts", "clearMemory"}

CallMatches(v, r, n) == RowMatches(v, r) /\ ModeMatches(v) /\ AttemptsMatch(v, n)

SerialInv ==
    /\ \A c, d \in Callers : At(c, "idle") \/ At(d, "idle") \/ c = d
    /\ resetting => AllIdle /\ halfOpenAttempts = 0
    /\ \A c \in Callers : CallMatches(call[c], row, halfOpenAttempts)
    /\ AllIdle => Cleared(IdleCall, row, halfOpenAttempts)
    /\ \A c \in Callers : OthersIdle(c) => Cleared(call[c], row, halfOpenAttempts)
==============================================================================
