--------------------------- MODULE AbstractBreaker ---------------------------
(***************************************************************************)
(* The three-state circuit breaker that README.md (section "熔断器")       *)
(* promises for one upstream configuration: Closed admits every request,   *)
(* Open admits none until its timeout has run out, Half-Open tests the     *)
(* upstream and closes again after HalfOpenRequests successful tests.      *)
(* CircuitBreaker.tla is the code; it is shown to implement this machine   *)
(* when calls do not overlap.                                              *)
(***************************************************************************)
EXTENDS Integers

CONSTANTS
    HalfOpenRequests,   \* successful tests needed to close again
    Timeout             \* ticks an open breaker waits before it tests

VARIABLES
    state,       \* "closed", "open" or "half_open"
    left,        \* ticks until an open breaker may test; 0 in other states
    successes,   \* successful tests counted towards closing
    resets       \* resets carried out, or cut short: what tells a reset
                 \* from closing without enough tests

vars == <<state, left, successes, resets>>

Init == state = "closed" /\ left = 0 /\ successes = 0 /\ resets = 0

\* Requests while Closed may push the error rate over the threshold.
Trip ==
    /\ state = "closed"
    /\ state' = "open" /\ left' = Timeout
    /\ UNCHANGED <<successes, resets>>

\* The timeout of an open breaker has run out: start testing.
StartTesting ==
    /\ state = "open" /\ left = 0
    /\ state' = "half_open" /\ successes' = 0
    /\ UNCHANGED <<left, resets>>

TestSucceeds ==
    /\ state = "half_open"
    /\ successes' = successes + 1
    /\ UNCHANGED <<state, left, resets>>

TestFails ==
    /\ state = "half_open"
    /\ state' = "open" /\ left' = Timeout
    /\ UNCHANGED <<successes, resets>>

Close ==
    /\ state = "half_open" /\ successes >= HalfOpenRequests
    /\ state' = "closed"
    /\ UNCHANGED <<left, successes, resets>>

\* Credit may be dropped (never invented): after closing, after a failed
\* test, and when the process that held it restarts, which may also cut
\* short a reset.
Forget ==
    /\ successes' = 0
    /\ resets' \in {resets, resets + 1}
    /\ UNCHANGED <<state, left>>

Reset ==
    /\ state' = "closed" /\ left' = 0
    /\ resets' = resets + 1
    /\ UNCHANGED successes

Tick ==
    /\ left > 0
    /\ left' = left - 1
    /\ UNCHANGED <<state, successes, resets>>

Next ==
    \/ Trip \/ StartTesting \/ TestSucceeds \/ TestFails
    \/ Close \/ Forget \/ Reset \/ Tick

Spec == Init /\ [][Next]_vars
==============================================================================
