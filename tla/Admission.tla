------------------------------- MODULE Admission -------------------------------
(***************************************************************************)
(* The admission of the requests of one tenant: the middlewares of         *)
(* handler/security_middleware.go around a handler, in the order the file  *)
(* declares them -- authentication, IP filter, rate limits, quota check,   *)
(* and usage tracking after the handler has answered.  A setup says which  *)
(* of them are attached to the route, what they find configured and who    *)
(* else is at work.                                                        *)
(***************************************************************************)
EXTENDS RateLimiter, QuotaManager, IPFilter, ApiKeys

CONSTANTS Worker,        \* the goroutine that resets expired quotas
          Administrator, \* the administrator of the quotas
          Setups         \* the setups explored

\* The rows of a setup are such as the administration accepts.
ASSUME SetupAssumption ==
  \A s \in Setups : s.rules \subseteq Rules /\ s.limits \in Seq(LimitRows)

VARIABLES setup,
          at,       \* at[r]: the middleware request r is in
          seen,     \* seen[r]: the row of its key as ValidateKey read it
          sent,     \* requests sent so far
          answered  \* requests answered with success

chainVars == <<setup, at, seen, sent, answered>>
vars == <<limiterVars, quotaVars, ipVars, keyVars, chainVars>>

Quiet == \A u \in Users : task[u].pc = "end"
NobodyIn == \A r \in Requests : at[r] = "idle"

\* In a serial setup one operation on the quotas is over before the next begins.
MayStart == setup.serial => Quiet
Uses(part) == part \in setup.parts

\* The chain: a request goes from one attached middleware to the next, and
\* then to the handler.
Order == <<"arrive", "authenticate", "ip", "rate", "quota", "serve">>
After(stage) ==
  LET i == CHOOSE n \in DOMAIN Order : Order[n] = stage
      later == {n \in i + 1 .. Len(Order) : Order[n] \in setup.chain \union {"serve"}}
  IN Order[Min(later)]
Passes(r, stage) == at' = [at EXCEPT ![r] = After(stage)]
Leaves(r) == at' = [at EXCEPT ![r] = "idle"]

Arrive(r) ==
  /\ r \in setup.callers
  /\ at[r] = "idle"
  /\ sent < setup.most
  /\ setup.serial => NobodyIn /\ Quiet
  /\ sent' = sent + 1
  /\ Passes(r, "arrive")
  /\ UNCHANGED <<limiterVars, quotaVars, ipVars, keyVars, setup, seen, answered>>

\* AuthenticationMiddleware: the active keys are read, then r's is judged.
ReadKeys(r) ==
  /\ at[r] = "authenticate"
  /\ seen' = [seen EXCEPT ![r] = keys[KeyOf[r]]]
  /\ at' = [at EXCEPT ![r] = "judge"]
  /\ UNCHANGED <<limiterVars, quotaVars, ipVars, keyVars, setup, sent, answered>>

Authenticate(r) ==
  /\ at[r] = "judge"
  /\ IF ValidateKey([k \in KeyIds |-> seen[r]], KeyOf[r], keyClock)
     THEN Passes(r, "authenticate") ELSE Leaves(r)
  /\ seen' = [seen EXCEPT ![r] = None]
  /\ UNCHANGED <<limiterVars, quotaVars, ipVars, keyVars, setup, sent, answered>>

\* IPFilterMiddleware
FilterIP(r) ==
  /\ at[r] = "ip"
  /\ IF CheckIP(ipRules, IpOf[r], Tenant) THEN Passes(r, "ip") ELSE Leaves(r)
  /\ UNCHANGED <<limiterVars, quotaVars, ipVars, keyVars, setup, seen, sent, answered>>

\* RateLimitMiddleware lets a request pass unasked when it knows no tenant or
\* cannot read the limits.
SkipLimits(r) ==
  /\ at[r] = "rate"
  /\ call[r] = None /\ nextLimit[r] = 1
  /\ Passes(r, "rate")
  /\ UNCHANGED <<limiterVars, quotaVars, ipVars, keyVars, setup, seen, sent, answered>>

\* One limit after the other, until one refuses.  CheckLimit has no error for
\* rows that Validate accepts, and SetLimit stores no others.
RateLimit(r) ==
  /\ at[r] = "rate"
  /\ Lookup(r) \/ Check(r)
  /\ UNCHANGED <<quotaVars, ipVars, keyVars, chainVars>>

LeaveRate(r) ==
  /\ at[r] = "rate"
  /\ nextLimit[r] \notin Limits
  /\ IF nextLimit[r] = 0 THEN Leaves(r) ELSE Passes(r, "rate")
  /\ nextLimit' = [nextLimit EXCEPT ![r] = 1]
  /\ UNCHANGED <<clock, rateLimits, heap, counterOf, call, granted, promise,
                 quotaVars, ipVars, keyVars, setup, seen, sent, answered>>

\* QuotaCheckMiddleware
EnterQuota(r) ==
  /\ at[r] = "quota"
  /\ MayStart
  /\ CheckQuota(r)
  /\ at' = [at EXCEPT ![r] = "checking"]
  /\ UNCHANGED <<limiterVars, ipVars, keyVars, setup, seen, sent, answered>>

LeaveQuota(r) ==
  /\ at[r] = "checking"
  /\ task[r].pc = "end"
  /\ IF task[r].ok THEN Passes(r, "quota") ELSE Leaves(r)
  /\ UNCHANGED <<limiterVars, quotaVars, ipVars, keyVars, setup, seen, sent, answered>>

\* The handler answers; UsageTrackingMiddleware counts what was not an error.
Serve(r) ==
  /\ at[r] = "serve"
  /\ "track" \in setup.chain
  /\ MayStart
  /\ IncrementUsage(r)
  /\ at' = [at EXCEPT ![r] = "track"]
  /\ answered' = answered + 1
  /\ UNCHANGED <<limiterVars, ipVars, keyVars, setup, seen, sent>>

\* The answer is an error and the request costs nothing, or nobody tracks usage.
ServeUncounted(r) ==
  /\ at[r] = "serve"
  /\ "track" \in setup.chain => Uses("errors")
  /\ Leaves(r)
  /\ admitted' = IF "quota" \in setup.chain
                 THEN [q \in QuotaIds |-> admitted[q] - Increment[q]] ELSE admitted
  /\ UNCHANGED <<limiterVars, day, table, objects, cached, task, full, mixed, dbFaults, ipVars, keyVars,
                 setup, seen, sent, answered>>

Tracked(r) ==
  /\ at[r] = "track"
  /\ task[r].pc = "end"
  /\ Leaves(r)
  /\ UNCHANGED <<limiterVars, quotaVars, ipVars, keyVars, setup, seen, sent, answered>>

Chain(r) ==
  \/ Arrive(r) \/ ReadKeys(r) \/ Authenticate(r) \/ FilterIP(r)
  \/ SkipLimits(r) \/ RateLimit(r) \/ LeaveRate(r) \/ EnterQuota(r) \/ LeaveQuota(r)
  \/ Serve(r) \/ ServeUncounted(r) \/ Tracked(r)

-----------------------------------------------------------------------------
(* Everyone else *)

Limiter ==
  /\ Uses("rate")
  /\ LimiterTick \/ \E k \in Keys : cleanupExpiredCountersOnce(k)
  /\ UNCHANGED <<quotaVars, ipVars, keyVars, chainVars>>

Quotas ==
  /\ \/ \E u \in Users : QuotaStep(u)
     \/ Uses("faults") /\ \E u \in Users : StatementFails(u)
     \/ Uses("days") /\ NextDay
     \/ Uses("tick") /\ MayStart /\ quotaResetTick(Worker)
     \/ Uses("reset") /\ MayStart /\ ResetQuota(Administrator)
     \/ /\ Uses("set") /\ MayStart
        /\ \E q \in QuotaIds, limit \in setup.newLimits : SetQuota(Administrator, q, limit)
  /\ UNCHANGED <<limiterVars, ipVars, keyVars, chainVars>>

IpAdministration ==
  /\ Uses("ip")
  /\ \E a \in Admins : IpStep(a)
  /\ UNCHANGED <<limiterVars, quotaVars, keyVars, chainVars>>

KeyAdministration ==
  /\ Uses("keys")
  /\ KeyStep
  /\ UNCHANGED <<limiterVars, quotaVars, ipVars, chainVars>>

Init ==
  /\ setup \in Setups
  /\ LimiterInit(setup.limits)
  /\ QuotaInit(setup.quotas)
  /\ IpInit(setup.rules)
  /\ KeyInit
  /\ at = [r \in Requests |-> "idle"]
  /\ seen = [r \in Requests |-> None]
  /\ sent = 0
  /\ answered = 0

Next ==
  \/ \E r \in Requests : Chain(r)
  \/ Limiter \/ Quotas \/ IpAdministration \/ KeyAdministration

Spec == Init /\ [][Next]_vars

-----------------------------------------------------------------------------
(* Properties *)

TypeOK ==
  /\ at \in [Requests -> {"idle", "authenticate", "judge", "ip", "rate", "quota", "checking",
                       "serve", "track"}]
  /\ \A r \in Requests : nextLimit[r] \in 0 .. Len(rateLimits) + 1
  /\ \A q \in QuotaIds : cached[q] # None => cached[q][1] = q /\ objects[cached[q]] # None
  /\ \A u \in Users : task[u].pc \in {"end", "list", "query", "store", "visit", "write",
                                      "touch", "find", "seek", "keep", "update", "create"}
  /\ \A r \in Requests : call[r] # None => heap[call[r].ctr] # None
  /\ ipRules \subseteq Rules /\ rotation.pc \in {"idle", "expire", "create"}

\* How many requests more than the limit may pass in one day when n callers
\* race: each may still hold, or have put back, an object from before.
Overrun(n) == (n * (n + 1)) \div 2 - 1

\* Operations that follow one another admit no more in a period than the
\* limit, one more for every statement that failed, across midnights, resets
\* by the worker and by the administrator; concurrent ones overrun by a bounded
\* number, as long as no reset has overlapped one (a reset that touches its object
\* late forgives what was charged since it wrote the row).
QuotaRespected ==
  ~Uses("set") /\ Cardinality(DOMAIN setup.quotas) <= 1 /\ ~mixed =>
    \A q \in DOMAIN setup.quotas :
      admitted[q] <= setup.quotas[q] + dbFaults
                       + (IF setup.serial THEN 0 ELSE Overrun(Cardinality(setup.callers)))

\* In a period in which the row of no quota has been without room nobody is
\* refused, whatever overlaps; and as long as no reset has overlapped another
\* operation, a row has no room at the moment of the refusal.  (A reset writes
\* the row first and the cached object afterwards, and a copy made before it can
\* be cached after it.)
RefusalJustified ==
  [][\A r \in Requests :
       at[r] = "checking" /\ task[r].ok /\ ~task'[r].ok
         => \E q \in Rows : IF mixed THEN full[q] ELSE HasNoRoom(table[q], q)]_vars

\* Without resets the table counts every answered request once and no other:
\* refused and failed ones cost nothing, concurrent increments are not lost.
AnsweredIsCharged ==
  (\A r \in Requests : at[r] # "track") /\ dbFaults = 0
  /\ setup.parts \cap {"days", "reset", "set"} = {}
  /\ Cardinality(DOMAIN setup.quotas) = 1 =>
    \A q \in DOMAIN setup.quotas : table[q].usage = answered * Increment[q]

\* The quotas of a tenant hold, and nothing but an answer is charged to them
\* (and every variable has its type).
QuotasHold == TypeOK /\ QuotaRespected /\ AnsweredIsCharged

\* What QuotaRespected says, for a tenant with several quotas.
AllQuotasRespected ==
  setup.serial /\ ~Uses("set") =>
    \A q \in DOMAIN setup.quotas : admitted[q] <= setup.quotas[q] + dbFaults

\* The usage of a quota is forgiven at midnight at the end of its period or by
\* ResetQuota, and by nothing else.
ResetAtMidnight ==
  [][\A q \in Rows : table'[q].usage < table[q].usage =>
       \/ \E u \in Users : task[u].op = "reset" /\ task[u].pc = "write"
       \/ day % Days[q] = 0 /\ day > 0]_vars
=============================================================================
