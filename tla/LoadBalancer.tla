----------------------------- MODULE LoadBalancer -----------------------------
(***************************************************************************)
(* A load balancer at work: EnhancedSelector (enhanced_selector.go),       *)
(* DefaultRetryHandler (retry_handler.go), ExecuteRequest (lb_manager.go)  *)
(* and the function the message handler runs under them (handler.go).      *)
(* One process per client request in flight.                               *)
(*                                                                         *)
(* A request looks at the nodes one after the other, picks one of those it *)
(* has seen healthy and not open, calls it through the node's circuit      *)
(* breaker, and starts again when the error is retryable.  Between any two *)
(* of these steps other requests run.                                      *)
(*                                                                         *)
(* A breaker's admission and its bookkeeping are one step each here;       *)
(* CircuitBreaker has their statements and their failures.  Whether a      *)
(* failure takes the error rate over the threshold is a choice.  Node      *)
(* health is whatever the health checker last wrote.                       *)
(***************************************************************************)
EXTENDS Integers, Sequences, FiniteSets

CONSTANTS
    Requests,           \* client requests in flight
    Nodes,              \* node configurations
    NodeOrder,          \* s.configs
    Strategy,           \* loadBalancer.Strategy
    Weight,             \* the weight of each node
    MaxRetries,         \* rh.maxRetries
    Timeout,            \* cb.timeout, in ticks
    HalfOpenRequests,   \* cb.halfOpenRequests
    Wrap,               \* roundRobinIndex is kept modulo Wrap
    MaxLost             \* bound: connections lost before requests stop coming

Strategies == {"round_robin", "random", "weighted", "least_connections"}

ASSUME LoadBalancerAssumption ==
    /\ IsFiniteSet(Requests)
    /\ NodeOrder \in Seq(Nodes) /\ Nodes # {}
    /\ \A n \in Nodes : \E i \in DOMAIN NodeOrder : NodeOrder[i] = n
    /\ Strategy \in Strategies /\ Weight \in [Nodes -> Nat]
    /\ MaxRetries \in Nat /\ Timeout \in Nat /\ HalfOpenRequests \in Nat \ {0}
    /\ Wrap \in Nat \ {0} /\ \A k \in 1..Len(NodeOrder) : Wrap % k = 0
    /\ MaxLost \in Nat

VARIABLES
    healthy,            \* health_statuses: is the node "healthy"
    breaker,            \* each node's row of circuit_breaker_states
    tests,              \* each breaker's halfOpenAttempts
    connectionCounts,   \* connectionCounts of the selector
    roundRobinIndex,    \* roundRobinIndex of the selector
    request,            \* each request in flight, with its local variables
    lost                \* (history) connections that nobody will release

node == <<healthy, breaker, tests>>
selector == <<connectionCounts, roundRobinIndex>>
vars == <<healthy, breaker, tests, connectionCounts, roundRobinIndex, request, lost>>
-------------------------------------------------------------------------------
Closed   == [state |-> "closed",    retryIn |-> 0]
HalfOpen == [state |-> "half_open", retryIn |-> 0]
Open     == [state |-> "open",      retryIn |-> Timeout]
Breakers == [state : {"closed", "half_open", "open"}, retryIn : 0..Timeout]

PCs == {"idle", "filter", "admit", "running", "record", "backoff"}

\* What became of the last attempt; "parse" is the error of a body that an
\* earlier attempt has already read.
Results == {"none", "ok", "retryable", "final", "parse"}

RequestRecords ==
    [pc : PCs,
     attempt : 0..MaxRetries,       \* "attempt" of ExecuteWithRetry
     looked : 0..Len(NodeOrder),    \* nodes that getHealthyConfigs has read
     available : Seq(Nodes),        \* healthyConfigs
     node : Nodes,                  \* config
     mode : {"closed", "half_open"},    \* the state its breaker admitted it in
     attempts : Nat,                \* "attempts" of executeInHalfOpen
     bodyRead : BOOLEAN,            \* the client's body has been consumed
     result : Results]

At(r, label) == request[r].pc = label
NodeOf(r) == request[r].node
Becomes(r, v) == request' = [request EXCEPT ![r] = v]

NoRequest ==
    [pc |-> "idle", attempt |-> 0, looked |-> 0, available |-> <<>>,
     node |-> NodeOrder[1], mode |-> "closed", attempts |-> 0,
     bodyRead |-> FALSE, result |-> "none"]

\* health_statuses has no row yet, and a node without one is not selectable.
Init ==
    /\ healthy = [n \in Nodes |-> FALSE]
    /\ breaker = [n \in Nodes |-> Closed] /\ tests = [n \in Nodes |-> 0]
    /\ connectionCounts = [n \in Nodes |-> 0] /\ roundRobinIndex = 0
    /\ lost = [n \in Nodes |-> 0]
    /\ request = [r \in Requests |-> NoRequest]

Arrive(r) ==
    /\ At(r, "idle") /\ (\A n \in Nodes : lost[n] < MaxLost)
    /\ Becomes(r, [NoRequest EXCEPT !.pc = "filter"])
    /\ UNCHANGED <<node, selector, lost>>

-------------------------------------------------------------------------------
(* SelectConfig                                                            *)

\* Mutant: a node whose breaker may test again is not left out.
SelectableWhenDue(n) == healthy[n] /\ (breaker[n].state # "open" \/ breaker[n].retryIn = 0)

\* getHealthyConfigs: the nodes' rows are read one by one, without a
\* transaction around them.
Selectable(n) == healthy[n] /\ breaker[n].state # "open"

Look(r) ==
    LET seen == request[r].looked + 1
        n == NodeOrder[seen]
    IN  /\ At(r, "filter") /\ seen <= Len(NodeOrder)
        /\ Becomes(r, [request[r] EXCEPT
               !.looked = seen,
               !.available = IF Selectable(n) THEN Append(@, n) ELSE @])
        /\ UNCHANGED <<node, selector, lost>>

\* A row cannot be read: without its health row a node is left out, without
\* its breaker's row GetState calls the breaker closed.
LookFails(r) ==
    LET seen == request[r].looked + 1
        n == NodeOrder[seen]
    IN  /\ At(r, "filter") /\ seen <= Len(NodeOrder)
        /\ \E kept \in BOOLEAN :
              /\ kept => healthy[n]
              /\ Becomes(r, [request[r] EXCEPT
                     !.looked = seen,
                     !.available = IF kept THEN Append(@, n) ELSE @])
        /\ UNCHANGED <<node, selector, lost>>

\* The nodes the strategy may choose among the available ones.
Fewest(avail) ==
    LET less(i, j) == connectionCounts[avail[i]] < connectionCounts[avail[j]]
                        \/ (connectionCounts[avail[i]] = connectionCounts[avail[j]] /\ i < j)
    IN  {avail[i] : i \in {i \in DOMAIN avail :
                              \A j \in DOMAIN avail : i = j \/ less(i, j)}}

Choices(avail) ==
    CASE Strategy = "round_robin" -> {avail[(roundRobinIndex % Len(avail)) + 1]}
      [] Strategy = "random" -> {avail[i] : i \in DOMAIN avail}
      [] Strategy = "weighted" -> {avail[i] : i \in {i \in DOMAIN avail : Weight[avail[i]] > 0}}
      [] Strategy = "least_connections" -> Fewest(avail)

Connect(n) == [connectionCounts EXCEPT ![n] = @ + 1]

\* Under s.mu: the choice and the count are one step.
Pick(r) ==
    /\ At(r, "filter") /\ request[r].looked = Len(NodeOrder)
    /\ request[r].available # <<>>
    /\ \/ \E n \in Choices(request[r].available) :
             /\ Becomes(r, [request[r] EXCEPT !.pc = "admit", !.node = n,
                                               !.looked = 0, !.available = <<>>])
             /\ connectionCounts' =
                  IF Strategy = "least_connections" THEN Connect(n) ELSE connectionCounts
             /\ roundRobinIndex' =
                  IF Strategy = "round_robin" THEN (roundRobinIndex + 1) % Wrap
                  ELSE roundRobinIndex
       \/ /\ Choices(request[r].available) = {}
          /\ Becomes(r, NoRequest)
          /\ UNCHANGED selector
    /\ UNCHANGED <<node, lost>>

NoneAvailable(r) ==
    /\ At(r, "filter") /\ request[r].looked = Len(NodeOrder)
    /\ request[r].available = <<>>
    /\ Becomes(r, NoRequest)
    /\ UNCHANGED <<node, selector, lost>>

\* ReleaseConnection.
Release(n) ==
    connectionCounts' = IF Strategy = "least_connections" /\ connectionCounts[n] > 0
                        THEN [connectionCounts EXCEPT ![n] = @ - 1]
                        ELSE connectionCounts
-------------------------------------------------------------------------------
(* ExecuteWithRetry, from the breaker's Call to the next attempt           *)

\* After an attempt with this result: return, or wait for the next attempt.
Judged(r, result) ==
    IF result = "retryable" /\ request[r].attempt < MaxRetries
    THEN [NoRequest EXCEPT !.pc = "backoff", !.attempt = request[r].attempt,
                           !.bodyRead = request[r].bodyRead]
    ELSE NoRequest

\* Call returns "circuit breaker is open" without running the function, in
\* which the deferred ReleaseConnection is.
Reject(r) ==
    LET n == NodeOf(r)
    IN  /\ At(r, "admit")
        /\ breaker[n].state = "open" /\ breaker[n].retryIn > 0
        /\ Becomes(r, Judged(r, "retryable"))
        /\ lost' = IF Strategy = "least_connections" THEN [lost EXCEPT ![n] = @ + 1]
                   ELSE lost
        /\ UNCHANGED <<node, selector>>

AdmitClosed(r) ==
    /\ At(r, "admit") /\ breaker[NodeOf(r)].state = "closed"
    /\ Becomes(r, [request[r] EXCEPT !.pc = "running", !.mode = "closed"])
    /\ UNCHANGED <<node, selector, lost>>

AdmitTest(r) ==
    LET n == NodeOf(r)
    IN  /\ At(r, "admit")
        /\ breaker[n].state = "half_open"
             \/ (breaker[n].state = "open" /\ breaker[n].retryIn = 0)
        /\ breaker' = [breaker EXCEPT ![n] = HalfOpen]
        /\ tests' = [tests EXCEPT ![n] = @ + 1]
        /\ Becomes(r, [request[r] EXCEPT !.pc = "running", !.mode = "half_open",
                                         !.attempts = tests[n] + 1])
        /\ UNCHANGED <<healthy, selector, lost>>

\* Mutant: the connection is released when the call succeeds.
ExecuteThenRelease(r, result) ==
    /\ At(r, "running")
    /\ IF request[r].bodyRead THEN result = "parse"
       ELSE result \in {"ok", "retryable", "final"}
    /\ Becomes(r, [request[r] EXCEPT !.pc = "record", !.result = result, !.bodyRead = TRUE])
    /\ IF result = "ok" THEN Release(NodeOf(r)) ELSE UNCHANGED connectionCounts
    /\ UNCHANGED <<node, roundRobinIndex, lost>>

\* executeMessageRequestWithConfig reads the body of the client's request
\* (ShouldBindJSON) each time it is run, and the body can be read once.
Execute(r, result) ==
    /\ At(r, "running")
    /\ IF request[r].bodyRead THEN result = "parse"
       ELSE result \in {"ok", "retryable", "final"}
    /\ Becomes(r, [request[r] EXCEPT !.pc = "record", !.result = result, !.bodyRead = TRUE])
    /\ Release(NodeOf(r))
    /\ UNCHANGED <<node, roundRobinIndex, lost>>

\* executeInClosed and executeInHalfOpen, after the function.
RecordClosed(r) ==
    LET n == NodeOf(r)
    IN  /\ At(r, "record") /\ request[r].mode = "closed"
        /\ \/ UNCHANGED breaker
           \/ request[r].result # "ok" /\ breaker' = [breaker EXCEPT ![n] = Open]
        /\ Becomes(r, Judged(r, request[r].result))
        /\ UNCHANGED <<healthy, tests, selector, lost>>

RecordTest(r) ==
    LET n == NodeOf(r)
        settled(b) == /\ breaker' = [breaker EXCEPT ![n] = b]
                      /\ tests' = [tests EXCEPT ![n] = 0]
    IN  /\ At(r, "record") /\ request[r].mode = "half_open"
        /\ IF request[r].result # "ok" THEN settled(Open)
           ELSE IF request[r].attempts >= HalfOpenRequests THEN settled(Closed)
           ELSE UNCHANGED <<breaker, tests>>
        /\ Becomes(r, Judged(r, request[r].result))
        /\ UNCHANGED <<healthy, selector, lost>>

\* Mutant: a retry starts over, with its body and with its count.
BackoffStartsOver(r) ==
    /\ At(r, "backoff")
    /\ Becomes(r, [NoRequest EXCEPT !.pc = "filter"])
    /\ UNCHANGED <<node, selector, lost>>

Backoff(r) ==
    /\ At(r, "backoff")
    /\ Becomes(r, [request[r] EXCEPT !.pc = "filter", !.attempt = @ + 1])
    /\ UNCHANGED <<node, selector, lost>>
-------------------------------------------------------------------------------
(* Around the requests                                                     *)

HealthChanges(n) ==
    /\ healthy' = [healthy EXCEPT ![n] = ~@]
    /\ UNCHANGED <<breaker, tests, selector, request, lost>>

\* POST .../circuit-breakers/:config_id/reset.
ResetCircuitBreaker(n) ==
    /\ breaker' = [breaker EXCEPT ![n] = Closed]
    /\ UNCHANGED <<healthy, tests, selector, request, lost>>

Sooner(b) == IF b.retryIn > 0 THEN [b EXCEPT !.retryIn = @ - 1] ELSE b

Tick ==
    /\ breaker' = [n \in Nodes |-> Sooner(breaker[n])]
    /\ UNCHANGED <<healthy, tests, selector, request, lost>>

RequestStep(r) ==
    \/ Look(r) \/ LookFails(r) \/ Pick(r) \/ NoneAvailable(r)
    \/ Reject(r) \/ AdmitClosed(r) \/ AdmitTest(r)
    \/ \E result \in Results : Execute(r, result)
    \/ RecordClosed(r) \/ RecordTest(r) \/ Backoff(r)

Next ==
    \/ \E r \in Requests : Arrive(r) \/ RequestStep(r)
    \/ \E n \in Nodes : HealthChanges(n) \/ ResetCircuitBreaker(n)
    \/ Tick

Spec == Init /\ [][Next]_vars

\* A request goes on wherever it depends on the proxy alone, requests keep
\* coming, and time passes.  The function that calls the upstream owes
\* nothing: some of its reads have no timeout (Upstream).
Fairness ==
    /\ \A r \in Requests : /\ WF_vars(~At(r, "running") /\ RequestStep(r))
                           /\ WF_vars(Arrive(r))
    /\ WF_vars(Tick)

FairSpec == Spec /\ Fairness
-------------------------------------------------------------------------------
(* Properties                                                              *)

TypeOK ==
    /\ healthy \in [Nodes -> BOOLEAN]
    /\ breaker \in [Nodes -> Breakers]
    /\ tests \in [Nodes -> Nat]
    /\ connectionCounts \in [Nodes -> Nat] /\ roundRobinIndex \in 0..Wrap - 1
    /\ lost \in [Nodes -> Nat]
    /\ request \in [Requests -> RequestRecords]

Holds(r, n) == NodeOf(r) = n /\ request[r].pc \in {"admit", "running"}
Holding(n) == {r \in Requests : Holds(r, n)}

\* A connection is counted from the pick to the end of the function, on every
\* path but one: a breaker that rejects the call loses it for good.
ConnectionAccounting ==
    Strategy = "least_connections" =>
        \A n \in Nodes : connectionCounts[n] = Cardinality(Holding(n)) + lost[n]

\* Some request has seen or picked the node and may still get to its breaker.
Wants(r, n) ==
    \/ NodeOf(r) = n /\ request[r].pc \in {"admit", "running", "record"}
    \/ \E i \in DOMAIN request[r].available : request[r].available[i] = n

Interested(n) == \E r \in Requests : Wants(r, n)

Forsaken(n) == breaker[n].state = "open" /\ ~Interested(n)

\* The breaker's row of this node could not be read, and passed for closed.
Misread(n) ==
    /\ ~Selectable(n)
    /\ \E r \in Requests : LookFails(r) /\ NodeOrder[request[r].looked + 1] = n

\* getHealthyConfigs drops a node whose breaker is open, whether or not its
\* deadline has passed, and only a call can take the breaker out of open: once
\* the requests in flight are through with it, nothing but a reset by hand, or
\* a read of its row that fails, brings the node back.  (README.md:331-339
\* promises that it is tested again: BreakerRecovers, which this refutes.)
OpenStaysOpen ==
    [][\A n \in Nodes :
          Forsaken(n) /\ ~ResetCircuitBreaker(n) /\ ~Misread(n) => Forsaken(n)']_vars

\* Each request comes to an end, whatever the nodes, the breakers and the
\* other requests do to it, unless one of its calls never returns.
RequestsEnd ==
    \A r \in Requests :
        []<>(~At(r, "running")) => (At(r, "filter") ~> At(r, "idle"))

\* README.md:336-339: an open breaker goes on to Half-Open and tests its node.
BreakerRecovers ==
    \A n \in Nodes : breaker[n].state = "open" ~> breaker[n].state # "open"

\* README.md:312-315: a request that fails is sent to another healthy node.
RetriesReachUpstream == \A r \in Requests : request[r].result # "parse"
===============================================================================
