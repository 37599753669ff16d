------------------------------ MODULE RateLimiter ------------------------------
(***************************************************************************)
(* The rate limiter of security/rate_limiter.go and the middleware that    *)
(* consults it (handler/security_middleware.go).  Every limit that applies *)
(* to a request has a key; the key's counter is found or created in a      *)
(* concurrent map and only then locked, so the background sweep can remove *)
(* a counter that a request is about to use.                               *)
(*                                                                         *)
(* Time is counted in ticks, Second of them in a second.  A request reads  *)
(* the clock before it locks the counter and is at most Lag ticks behind   *)
(* when it does.  A counter record serves the three algorithms:            *)
(*   fixed_window    count requests since windowStart = since              *)
(*   sliding_window  times of the requests in the window                   *)
(*   token_bucket    count = tokens, in units of 1/window of a token,      *)
(*                   since = lastRefill                                    *)
(***************************************************************************)
EXTENDS Tenancy, Integers, Sequences, FiniteSetsExt

CONSTANTS Tenant,       \* the tenant all callers belong to
          KeyOf,        \* KeyOf[r]: the API key a caller presents
          IpOf,         \* IpOf[r]: the address r comes from
          CounterIds,   \* identities of counter objects, a bound of the heap
          Second,       \* a second, in ticks
          CleanAge,     \* 10 minutes, in ticks
          Lag,          \* ticks between reading the clock and taking the lock
          MaxTime       \* bound of the clock

ASSUME LimiterAssumption ==
  /\ None \notin Int /\ None \notin CounterIds
  /\ None \notin [limit : Nat, now : Int, ctr : CounterIds]
  /\ None \notin [count : Int, since : Int, times : Seq(Int)]
  /\ Lag \in Nat /\ CleanAge \in Nat /\ Second \in Nat \ {0}

VARIABLES clock,
          rateLimits,  \* the rows GetLimits returns, in their order
          heap,        \* heap[c]: a counter object, or None when unallocated
          counterOf,   \* the concurrent map: key -> counter object, or None
          nextLimit,   \* nextLimit[r]: the row r checks next, 0 once it is refused
          call,        \* call[r]: the check r is in, or None
          granted,     \* per limit and subject: requests admitted in the last 1, 2, ... ticks
          promise      \* per limit and subject: when a refused caller was told to return

limiterVars == <<clock, rateLimits, heap, counterOf, nextLimit, call, granted, promise>>

Limits == DOMAIN rateLimits
Window(l) == rateLimits[l].window
Limit(l)  == rateLimits[l].limit
Alg(l)    == rateLimits[l].algorithm

\* The rows that RateLimit.Validate accepts.
Dimensions == {"tenant", "api_key", "ip"}
Algorithms == {"fixed_window", "sliding_window", "token_bucket"}
LimitRows == [dimension : Dimensions, algorithm : Algorithms,
              limit : Nat \ {0}, window : Nat \ {0}]

\* The key of the counter: the dimension, its value and the algorithm's suffix.
\* It does not name the limit: limits of one dimension and one algorithm share
\* their counters.
Identity(r) == [tenant |-> Tenant, api_key |-> KeyOf[r], ip |-> IpOf[r]]
Subjects == {<<d, Identity(r)[d]>> : d \in Dimensions, r \in Requests}
Subject(r, l) == <<rateLimits[l].dimension, Identity(r)[rateLimits[l].dimension]>>
Key(r, l) == <<Subject(r, l), Alg(l)>>
Keys == Subjects \X Algorithms
Account(r, l) == <<l, Subject(r, l)>>

FreshId   == CHOOSE c \in CounterIds : heap[c] = None

NewCounter(l, now) ==
  [count |-> IF Alg(l) = "token_bucket" THEN Limit(l) * Window(l) ELSE 0,
   since |-> now, times |-> <<>>]

-----------------------------------------------------------------------------
(* One check of one limit *)

\* LoadOrStore: the request reads the clock and takes hold of the counter.
Lookup(r) ==
  LET l == nextLimit[r]
      k == Key(r, l)
      c == IF counterOf[k] = None THEN FreshId ELSE counterOf[k]
  IN /\ call[r] = None
     /\ l \in Limits
     /\ counterOf[k] = None => \E id \in CounterIds : heap[id] = None
     /\ call' = [call EXCEPT ![r] = [limit |-> l, now |-> clock, ctr |-> c]]
     /\ IF counterOf[k] = None
        THEN /\ heap' = [heap EXCEPT ![c] = NewCounter(l, clock)]
             /\ counterOf' = [counterOf EXCEPT ![k] = c]
        ELSE UNCHANGED <<heap, counterOf>>
     /\ UNCHANGED <<clock, rateLimits, nextLimit, granted, promise>>

Verdict(allowed, counter, retryAfter) ==
  [allowed |-> allowed, counter |-> counter, retryAfter |-> retryAfter]

CeilDiv(a, b) == (a + b - 1) \div b

\* (mutant) a refusal starts the window anew
FixedWindowRestarts(k, now, l) ==
  LET s == IF now - k.since >= Window(l) THEN [k EXCEPT !.count = 0, !.since = now] ELSE k
  IN IF s.count >= Limit(l)
     THEN Verdict(FALSE, [s EXCEPT !.since = now], s.since + Window(l) - now)
     ELSE Verdict(TRUE, [s EXCEPT !.count = @ + 1], 0)

checkFixedWindow(k, now, l) ==
  LET s == IF now - k.since >= Window(l) THEN [k EXCEPT !.count = 0, !.since = now] ELSE k
  IN IF s.count >= Limit(l)
     THEN Verdict(FALSE, s, s.since + Window(l) - now)
     ELSE Verdict(TRUE, [s EXCEPT !.count = @ + 1], 0)

\* The requests after the cutoff, in their order.
ValidRequests(times, cutoff) ==
  LET valid[i \in 0 .. Len(times)] ==
        IF i = 0 THEN <<>>
        ELSE IF times[i] > cutoff THEN Append(valid[i - 1], times[i]) ELSE valid[i - 1]
  IN valid[Len(times)]

checkSlidingWindow(k, now, l) ==
  LET valid == ValidRequests(k.times, now - Window(l))
  IN IF Len(valid) >= Limit(l)
     THEN Verdict(FALSE, [k EXCEPT !.times = valid], valid[1] + Window(l) - now)
     ELSE Verdict(TRUE, [k EXCEPT !.times = Append(valid, now)], 0)

checkTokenBucket(k, now, l) ==
  LET full   == Limit(l) * Window(l)
      tokens == Min({k.count + (now - k.since) * Limit(l), full})
      s      == [k EXCEPT !.count = tokens, !.since = now]
  IN IF tokens < Window(l)
     THEN Verdict(FALSE, s, CeilDiv(Window(l) - tokens, Limit(l)))
     ELSE Verdict(TRUE, [s EXCEPT !.count = tokens - Window(l)], 0)

CheckLimit(k, now, l) ==
  CASE Alg(l) = "fixed_window"   -> checkFixedWindow(k, now, l)
    [] Alg(l) = "sliding_window" -> checkSlidingWindow(k, now, l)
    [] Alg(l) = "token_bucket"   -> checkTokenBucket(k, now, l)

\* Objects that nothing refers to any more are collected.
Collect(h, map, calls) ==
  [c \in CounterIds |->
     IF \/ \E k \in Keys : map[k] = c
        \/ \E r \in Requests : calls[r] # None /\ calls[r].ctr = c
     THEN h[c] ELSE None]

\* The Retry-After header: int(retryAfter.Seconds()).
WholeSeconds(d) == (d \div Second) * Second

\* The locked part of the check; the middleware goes on to the next limit or
\* answers 429.  An admission counted in an object that the sweep has taken
\* out of the map meanwhile is counted nowhere afterwards.
Check(r) ==
  LET l == call[r].limit
      c == call[r].ctr
      v == CheckLimit(heap[c], call[r].now, l)
      a == Account(r, l)
  IN /\ call[r] # None
     /\ call' = [call EXCEPT ![r] = None]
     /\ nextLimit' = [nextLimit EXCEPT ![r] = IF v.allowed THEN l + 1 ELSE 0]
     /\ heap' = Collect([heap EXCEPT ![c] = v.counter], counterOf, call')
     /\ granted' = IF v.allowed /\ counterOf[Key(r, l)] = c
                   THEN [granted EXCEPT ![a] = [n \in DOMAIN @ |-> @[n] + 1]] ELSE granted
     /\ promise' = [promise EXCEPT ![a] =
                      IF v.allowed THEN None
                      ELSE IF @ = None /\ counterOf[Key(r, l)] = c
                           THEN call[r].now + WholeSeconds(v.retryAfter) ELSE @]
     /\ UNCHANGED <<clock, rateLimits, counterOf>>

-----------------------------------------------------------------------------
(* The background sweep, one visit of one counter *)

\* (mutant) the age of every counter is that of its window
IdleSinceWindow(k, alg) == clock - k.since > CleanAge

Idle(k, alg) ==
  IF alg = "sliding_window"
  THEN \A i \in DOMAIN k.times : i = Len(k.times) => clock - k.times[i] > CleanAge
  ELSE clock - k.since > CleanAge

cleanupExpiredCountersOnce(k) ==
  /\ counterOf[k] # None
  /\ Idle(heap[counterOf[k]], k[2])
  /\ counterOf' = [counterOf EXCEPT ![k] = None]
  /\ heap' = Collect(heap, counterOf', call)
  /\ UNCHANGED <<clock, rateLimits, nextLimit, call, granted, promise>>

\* Time passes; a request between the clock and the lock is at most Lag behind.
LimiterTick ==
  /\ clock < MaxTime
  /\ \A r \in Requests : call[r] # None => call[r].now + Lag > clock
  /\ clock' = clock + 1
  /\ granted' = [a \in Limits \X Subjects |->
                    [n \in DOMAIN granted[a] |-> IF n = 0 THEN 0 ELSE granted[a][n - 1]]]
  /\ UNCHANGED <<rateLimits, heap, counterOf, nextLimit, call, promise>>

LimiterInit(rows) ==
  /\ clock = 0
  /\ rateLimits = rows
  /\ heap = [c \in CounterIds |-> None]
  /\ counterOf = [k \in Keys |-> None]
  /\ nextLimit = [r \in Requests |-> 1]
  /\ call = [r \in Requests |-> None]
  /\ granted = [a \in (DOMAIN rows) \X Subjects |-> [n \in 0 .. rows[a[1]].window - 1 |-> 0]]
  /\ promise = [a \in (DOMAIN rows) \X Subjects |-> None]

-----------------------------------------------------------------------------
(* Properties *)

\* What a window's worth of requests may amount to: the limit for the sliding
\* window, twice that for the fixed one (the end of one window and the start
\* of the next) and for the bucket (a full bucket and what flows in).
Burst(l) == IF Alg(l) = "sliding_window" THEN Limit(l) ELSE 2 * Limit(l)

\* A limit that shares its counters with no other.
Own(l) ==
  \A m \in Limits :
    rateLimits[m].dimension = rateLimits[l].dimension /\ Alg(m) = Alg(l) => m = l

\* In no stretch of time as long as the window does a limit pass more requests
\* than its algorithm stands for, however the callers race, come late or
\* coincide with the sweep.  Said of a limit with counters of its own and a
\* window the sweep waits for; not counted are the requests that were never
\* put to the limit and those counted in a counter removed under their hands.
WindowBounded ==
  \A a \in Limits \X Subjects :
    Own(a[1]) /\ Window(a[1]) <= CleanAge =>
      \A n \in DOMAIN granted[a] : n + Lag < Window(a[1]) => granted[a][n] <= Burst(a[1])

\* A caller that was refused and told to come back after so many seconds is not
\* refused again by that limit when it does, unless another request was admitted
\* before -- give or take the second that the header cuts off, and for a limit
\* with counters of its own.
RetryAfterKept ==
  [][\A r \in Requests :
       call[r] # None /\ nextLimit'[r] = 0 /\ Own(call[r].limit)
         => LET due == promise[Account(r, call[r].limit)]
            IN due = None \/ call[r].now < due + Second]_limiterVars

\* (refuted) The sweep removes "entries unused for more than 10 minutes"
\* (rate_limiter.go:241): a counter that admitted a request CleanAge ticks ago or
\* less is in the map.  The sweep looks at the age of a fixed window (:257) and
\* not at its last use, so a window longer than CleanAge is forgotten half-way.
UsedCountersStay ==
  \A a \in Limits \X Subjects :
    (\E n \in DOMAIN granted[a] : n <= CleanAge - Lag /\ granted[a][n] > 0)
      => counterOf[<<a[2], Alg(a[1])>>] # None

=============================================================================
