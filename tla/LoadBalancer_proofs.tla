------------------------- MODULE LoadBalancer_proofs -------------------------
(***************************************************************************)
(* Theorems about LoadBalancer, for any set of nodes, any number of        *)
(* requests, each strategy and any number of retries; and, at the end,     *)
(* about the HealthChecker that keeps its nodes' health, for any number of *)
(* managers and of checks that overlap, any thresholds and any number of   *)
(* SQL failures.                                                           *)
(***************************************************************************)
EXTENDS LoadBalancer, HealthChecker, TLAPS, FiniteSetTheorems

LEMMA ConstantsOK ==
    /\ Len(NodeOrder) \in Nat
    /\ \A i \in 1..Len(NodeOrder) : NodeOrder[i] \in Nodes
    /\ NodeOrder[1] \in Nodes
    /\ MaxRetries \in Nat /\ Timeout \in Nat
    /\ HalfOpenRequests \in Nat \ {0} /\ Wrap \in Nat \ {0}
<1>1. NodeOrder \in Seq(Nodes) /\ Len(NodeOrder) \in Nat
      /\ DOMAIN NodeOrder = 1..Len(NodeOrder)
  BY LoadBalancerAssumption
<1>2. \A i \in 1..Len(NodeOrder) : NodeOrder[i] \in Nodes
  BY <1>1
<1>3. PICK i \in 1..Len(NodeOrder) : TRUE
  BY <1>1, LoadBalancerAssumption
<1>. QED BY <1>1, <1>2, <1>3, LoadBalancerAssumption

LEMMA NoRequestType == NoRequest \in RequestRecords
BY ConstantsOK DEF NoRequest, RequestRecords, PCs, Results

\* Every strategy chooses among the nodes it is given.
LEMMA ChoicesAvailable ==
    ASSUME NEW avail \in Seq(Nodes), avail # <<>>, roundRobinIndex \in Nat,
           NEW n \in Choices(avail)
    PROVE  \E i \in DOMAIN avail : avail[i] = n
<1>1. Len(avail) \in Nat \ {0} /\ DOMAIN avail = 1..Len(avail)
  OBVIOUS
<1>2. Strategy \in Strategies
  BY LoadBalancerAssumption
<1>3. CASE Strategy = "round_robin"
  <2>1. (roundRobinIndex % Len(avail)) + 1 \in DOMAIN avail
    <3>1. roundRobinIndex % Len(avail) \in 0..Len(avail) - 1
      BY <1>1
    <3>. QED BY <1>1, <3>1
  <2>. QED BY <1>3, <2>1 DEF Choices
<1>4. CASE Strategy = "random"
  BY <1>4 DEF Choices
<1>5. CASE Strategy = "weighted"
  BY <1>5 DEF Choices
<1>6. CASE Strategy = "least_connections"
  BY <1>6 DEF Choices, Fewest
<1>. QED BY <1>2, <1>3, <1>4, <1>5, <1>6 DEF Strategies

\* A step of one request leaves the others alone.
LEMMA RequestUpdates ==
    ASSUME request \in [Requests -> RequestRecords], NEW r \in Requests
    PROVE  \A v \in RequestRecords : Becomes(r, v) =>
              /\ request' \in [Requests -> RequestRecords]
              /\ request'[r] = v
              /\ \A q \in Requests \ {r} : request'[q] = request[q]
BY DEF Becomes

LEMMA JudgedType ==
    ASSUME TypeOK, NEW r \in Requests, NEW result
    PROVE  /\ Judged(r, result) \in RequestRecords
           /\ Judged(r, result).available = <<>>
           /\ Judged(r, result).pc \in {"idle", "backoff"}
<1>1. request[r] \in RequestRecords
  BY DEF TypeOK
<1>2. /\ NoRequest \in RequestRecords /\ NoRequest.available = <<>>
      /\ NoRequest.pc = "idle"
  BY NoRequestType DEF NoRequest
<1>. QED BY <1>1, <1>2 DEF Judged, RequestRecords, PCs

-------------------------------------------------------------------------------
(* Types                                                                   *)

LEMMA BreakerTypes ==
    /\ Closed \in Breakers /\ HalfOpen \in Breakers /\ Open \in Breakers
    /\ \A b \in Breakers : Sooner(b) \in Breakers
BY ConstantsOK DEF Closed, HalfOpen, Open, Breakers, Sooner

\* What the actions do to a request's record leaves it one.
LEMMA RecordUpdates ==
    ASSUME NEW v \in RequestRecords
    PROVE  /\ \A l \in PCs : [v EXCEPT !.pc = l] \in RequestRecords
           /\ \A k \in 0..Len(NodeOrder), w \in Seq(Nodes) :
                [v EXCEPT !.looked = k, !.available = w] \in RequestRecords
           /\ \A n \in Nodes :
                [v EXCEPT !.pc = "admit", !.node = n, !.looked = 0,
                          !.available = <<>>] \in RequestRecords
           /\ [v EXCEPT !.pc = "running", !.mode = "closed"] \in RequestRecords
           /\ \A k \in Nat : [v EXCEPT !.pc = "running", !.mode = "half_open",
                                        !.attempts = k] \in RequestRecords
           /\ \A result \in Results :
                [v EXCEPT !.pc = "record", !.result = result,
                          !.bodyRead = TRUE] \in RequestRecords
           /\ v.attempt < MaxRetries =>
                [v EXCEPT !.pc = "filter", !.attempt = @ + 1] \in RequestRecords
<1>. USE ConstantsOK
<1>1. \A l \in PCs : [v EXCEPT !.pc = l] \in RequestRecords
  BY DEF RequestRecords
<1>2. \A k \in 0..Len(NodeOrder), w \in Seq(Nodes) :
        [v EXCEPT !.looked = k, !.available = w] \in RequestRecords
  BY DEF RequestRecords
<1>3. \A n \in Nodes :
        [v EXCEPT !.pc = "admit", !.node = n, !.looked = 0,
                  !.available = <<>>] \in RequestRecords
  <2>1. "admit" \in PCs /\ 0 \in 0..Len(NodeOrder) /\ <<>> \in Seq(Nodes)
    BY DEF PCs
  <2>. QED BY <2>1 DEF RequestRecords
<1>4. [v EXCEPT !.pc = "running", !.mode = "closed"] \in RequestRecords
  BY DEF RequestRecords, PCs
<1>5. \A k \in Nat : [v EXCEPT !.pc = "running", !.mode = "half_open",
                                !.attempts = k] \in RequestRecords
  BY DEF RequestRecords, PCs
<1>6. \A result \in Results :
        [v EXCEPT !.pc = "record", !.result = result,
                  !.bodyRead = TRUE] \in RequestRecords
  BY DEF RequestRecords, PCs
<1>7. ASSUME v.attempt < MaxRetries
      PROVE  [v EXCEPT !.pc = "filter", !.attempt = @ + 1] \in RequestRecords
  <2>1. v.attempt + 1 \in 0..MaxRetries
    BY <1>7 DEF RequestRecords
  <2>. QED BY <2>1 DEF RequestRecords, PCs
<1>. QED BY Zenon, <1>1, <1>2, <1>3, <1>4, <1>5, <1>6, <1>7

\* A request that waits for its next attempt has one left.
AttemptLeft == \A r \in Requests :
                  At(r, "backoff") => request[r].attempt < MaxRetries

\* What a look at one node makes of a request, whether its rows are read or not.
Looked(r, kept) ==
    LET seen == request[r].looked + 1
    IN  [request[r] EXCEPT
           !.looked = seen,
           !.available = IF kept THEN Append(@, NodeOrder[seen]) ELSE @]

LEMMA LooksAt ==
    ASSUME NEW r \in Requests, Look(r) \/ LookFails(r)
    PROVE  /\ At(r, "filter") /\ request[r].looked + 1 <= Len(NodeOrder)
           /\ UNCHANGED <<node, selector, lost>>
           /\ \E kept \in BOOLEAN :
                 /\ Becomes(r, Looked(r, kept))
                 /\ Look(r) => (kept <=> Selectable(NodeOrder[request[r].looked + 1]))
<1>1. CASE Look(r)
  <2> DEFINE m == NodeOrder[request[r].looked + 1]
  <2>1. /\ At(r, "filter") /\ request[r].looked + 1 <= Len(NodeOrder)
        /\ UNCHANGED <<node, selector, lost>>
    BY Zenon, <1>1 DEF Look
  <2>2. Becomes(r, [request[r] EXCEPT
               !.looked = request[r].looked + 1,
               !.available = IF Selectable(m) THEN Append(@, m) ELSE @])
    BY <1>1 DEF Look
  <2>3. CASE Selectable(m)
    <3>1. Becomes(r, Looked(r, TRUE))
      BY <2>2, <2>3 DEF Looked
    <3>. QED BY <2>1, <2>3, <3>1
  <2>4. CASE ~Selectable(m)
    <3>1. Becomes(r, Looked(r, FALSE))
      BY <2>2, <2>4 DEF Looked
    <3>. QED BY <2>1, <2>4, <3>1
  <2>. QED BY <2>3, <2>4
<1>2. CASE LookFails(r) /\ ~Look(r)
  BY <1>2 DEF LookFails, Looked
<1>. QED BY <1>1, <1>2

LEMMA RequestStepType ==
    ASSUME TypeOK, AttemptLeft, NEW r \in Requests, Arrive(r) \/ RequestStep(r)
    PROVE  TypeOK'
<1>. USE ConstantsOK
<1>a. request[r] \in RequestRecords /\ NodeOf(r) \in Nodes
  BY DEF TypeOK, RequestRecords, NodeOf
<1>b. roundRobinIndex \in Nat /\ request \in [Requests -> RequestRecords]
  BY DEF TypeOK
<1>c. NoRequest \in RequestRecords
  BY NoRequestType
<1>d. /\ healthy \in [Nodes -> BOOLEAN] /\ breaker \in [Nodes -> Breakers]
      /\ tests \in [Nodes -> Nat] /\ connectionCounts \in [Nodes -> Nat]
      /\ roundRobinIndex \in 0..Wrap - 1 /\ lost \in [Nodes -> Nat]
  BY DEF TypeOK
<1>e. SUFFICES /\ request' \in [Requests -> RequestRecords]
               /\ healthy' \in [Nodes -> BOOLEAN] /\ breaker' \in [Nodes -> Breakers]
               /\ tests' \in [Nodes -> Nat] /\ connectionCounts' \in [Nodes -> Nat]
               /\ roundRobinIndex' \in 0..Wrap - 1 /\ lost' \in [Nodes -> Nat]
  BY Zenon DEF TypeOK
<1>f. \A v \in RequestRecords : Becomes(r, v) => request' \in [Requests -> RequestRecords]
  BY <1>b, RequestUpdates
<1>1. CASE Arrive(r) \/ NoneAvailable(r)
  <2>1. [NoRequest EXCEPT !.pc = "filter"] \in RequestRecords
    BY <1>c, RecordUpdates DEF PCs
  <2>2. request' \in [Requests -> RequestRecords]
    BY Zenon, <1>1, <2>1, <1>c, <1>f DEF Arrive, NoneAvailable
  <2>. QED BY <1>1, <2>2, <1>d DEF Arrive, NoneAvailable, node, selector
<1>2. CASE Look(r) \/ LookFails(r)
  <2>0. PICK kept \in BOOLEAN : Becomes(r, Looked(r, kept))
    BY <1>2, LooksAt
  <2> DEFINE seen == request[r].looked + 1
             w == IF kept
                  THEN Append(request[r].available, NodeOrder[seen])
                  ELSE request[r].available
  <2>1. seen \in 1..Len(NodeOrder) /\ NodeOrder[seen] \in Nodes
    <3>1. seen <= Len(NodeOrder)
      BY Zenon, <1>2, LooksAt
    <3>2. request[r].looked \in Nat
      BY <1>a DEF RequestRecords
    <3>. QED BY <3>1, <3>2
  <2>2. w \in Seq(Nodes)
    BY <2>1, <1>a DEF RequestRecords
  <2>3. Becomes(r, [request[r] EXCEPT !.looked = seen, !.available = w])
    <3>1. CASE kept
      BY <2>0, <3>1 DEF Looked
    <3>2. CASE ~kept
      BY <2>0, <3>2 DEF Looked
    <3>. QED BY <3>1, <3>2
  <2>4. request' \in [Requests -> RequestRecords]
    <3>. HIDE DEF seen, w
    <3>1. seen \in 0..Len(NodeOrder)
      BY <2>1
    <3>. QED BY Zenon, <3>1, <2>2, <2>3, <1>a, <1>f, RecordUpdates
  <2>5. UNCHANGED <<node, selector, lost>>
    BY <1>2, LooksAt
  <2>. QED BY <2>4, <2>5, <1>d DEF node, selector
<1>3. CASE Pick(r)
  <2>1. \A n \in Choices(request[r].available) : n \in Nodes
    <3>1. request[r].available \in Seq(Nodes) /\ request[r].available # <<>>
      BY <1>3, <1>a DEF Pick, RequestRecords
    <3>. QED BY <3>1, <1>b, ChoicesAvailable
  <2>2. request' \in [Requests -> RequestRecords]
    BY Zenon, <1>3, <2>1, <1>a, <1>c, <1>f, RecordUpdates DEF Pick
  <2>3. connectionCounts' \in [Nodes -> Nat]
    <3>1. \A n \in Nodes : Connect(n) \in [Nodes -> Nat]
      BY <1>d DEF Connect
    <3>. QED BY Zenon, <1>3, <2>1, <3>1, <1>d DEF Pick, selector
  <2>4. roundRobinIndex' \in 0..Wrap - 1
    <3>1. (roundRobinIndex + 1) % Wrap \in 0..Wrap - 1
      BY <1>b
    <3>. QED BY Zenon, <1>3, <3>1, <1>d DEF Pick, selector
  <2>. QED BY Zenon, <1>3, <2>2, <2>3, <2>4, <1>d DEF Pick, node
<1>4. CASE Reject(r)
  <2>1. request' \in [Requests -> RequestRecords]
    BY Zenon, <1>4, <1>f, JudgedType DEF Reject
  <2>2. lost' \in [Nodes -> Nat]
    BY <1>4, <1>a, <1>d DEF Reject
  <2>. QED BY <1>4, <2>1, <2>2, <1>d DEF Reject, node, selector
<1>5. CASE AdmitClosed(r)
  <2>1. request' \in [Requests -> RequestRecords]
    BY Zenon, <1>5, <1>a, <1>f, RecordUpdates DEF AdmitClosed
  <2>. QED BY <1>5, <2>1, <1>d DEF AdmitClosed, node, selector
<1>6. CASE AdmitTest(r)
  <2>1. tests[NodeOf(r)] + 1 \in Nat
    BY <1>a, <1>d
  <2>2. request' \in [Requests -> RequestRecords]
    BY Zenon, <1>6, <2>1, <1>a, <1>f, RecordUpdates DEF AdmitTest
  <2>3. breaker' \in [Nodes -> Breakers] /\ tests' \in [Nodes -> Nat]
    BY <1>6, <1>d, <2>1, BreakerTypes DEF AdmitTest
  <2>. QED BY <1>6, <2>2, <2>3, <1>d DEF AdmitTest, selector
<1>7. ASSUME NEW result \in Results, Execute(r, result)
      PROVE  /\ request' \in [Requests -> RequestRecords]
             /\ connectionCounts' \in [Nodes -> Nat]
             /\ UNCHANGED <<node, roundRobinIndex, lost>>
  <2>1. request' \in [Requests -> RequestRecords]
    BY Zenon, <1>7, <1>a, <1>f, RecordUpdates DEF Execute
  <2>2. connectionCounts' \in [Nodes -> Nat]
    <3>1. Release(NodeOf(r))
      BY <1>7 DEF Execute
    <3>. QED BY <3>1, <1>a, <1>d DEF Release
  <2>. QED BY <1>7, <2>1, <2>2 DEF Execute
<1>8. CASE RecordClosed(r) \/ RecordTest(r)
  <2>1. request' \in [Requests -> RequestRecords]
    BY Zenon, <1>8, <1>f, JudgedType DEF RecordClosed, RecordTest
  <2>2. breaker' \in [Nodes -> Breakers]
    BY <1>8, <1>d, BreakerTypes DEF RecordClosed, RecordTest
  <2>3. tests' \in [Nodes -> Nat]
    <3>1. tests' = tests \/ tests' = [tests EXCEPT ![NodeOf(r)] = 0]
      BY Zenon, <1>8 DEF RecordClosed, RecordTest
    <3>2. tests \in [Nodes -> Nat]
      BY <1>d
    <3>3. [tests EXCEPT ![NodeOf(r)] = 0] \in [Nodes -> Nat]
      BY <3>2
    <3>. QED BY <3>1, <3>2, <3>3
  <2>. QED BY <1>8, <2>1, <2>2, <2>3, <1>d DEF RecordClosed, RecordTest, selector
<1>9. CASE Backoff(r)
  <2>1. request' \in [Requests -> RequestRecords]
    BY Zenon, <1>9, <1>a, <1>f, RecordUpdates DEF Backoff, AttemptLeft, At
  <2>. QED BY <1>9, <2>1, <1>d DEF Backoff, node, selector
<1>. QED BY Zenon, <1>1, <1>2, <1>3, <1>4, <1>5, <1>6, <1>7, <1>8, <1>9, <1>d
         DEF RequestStep, node

LEMMA AttemptLeftStep ==
    ASSUME TypeOK, AttemptLeft, NEW r \in Requests, Arrive(r) \/ RequestStep(r)
    PROVE  AttemptLeft'
<1>. USE DEF At
<1>a. request \in [Requests -> RequestRecords]
  BY DEF TypeOK
<1>b. \A v : Becomes(r, v) /\ (v.pc = "backoff" => v.attempt < MaxRetries)
              => AttemptLeft'
  BY <1>a DEF Becomes, AttemptLeft
<1>1. NoRequest.pc = "idle" /\ [NoRequest EXCEPT !.pc = "filter"].pc = "filter"
  BY DEF NoRequest
<1>2. \A k, w : [request[r] EXCEPT !.looked = k, !.available = w].pc = request[r].pc
  BY <1>a DEF RequestRecords
<1>3. \A n : [request[r] EXCEPT !.pc = "admit", !.node = n, !.looked = 0,
                                 !.available = <<>>].pc = "admit"
  BY <1>a DEF RequestRecords
<1>4. /\ [request[r] EXCEPT !.pc = "running", !.mode = "closed"].pc = "running"
      /\ \A k : [request[r] EXCEPT !.pc = "running", !.mode = "half_open",
                                    !.attempts = k].pc = "running"
  BY <1>a DEF RequestRecords
<1>5. \A result : [request[r] EXCEPT !.pc = "record", !.result = result,
                                      !.bodyRead = TRUE].pc = "record"
  BY <1>a DEF RequestRecords
<1>6. [request[r] EXCEPT !.pc = "filter", !.attempt = @ + 1].pc = "filter"
  BY <1>a DEF RequestRecords
<1>7. \A result : Judged(r, result).pc = "backoff"
                      => Judged(r, result).attempt < MaxRetries
  BY <1>1 DEF Judged, NoRequest
<1>8. CASE Arrive(r) \/ Look(r) \/ LookFails(r) \/ Pick(r) \/ NoneAvailable(r)
  <2>1. CASE Arrive(r)
    BY Zenon, <2>1, <1>b, <1>1 DEF Arrive
  <2>2. CASE Look(r) \/ LookFails(r)
    <3>1. request[r].pc = "filter" /\ \E kept \in BOOLEAN : Becomes(r, Looked(r, kept))
      BY <2>2, LooksAt
    <3>. QED BY Zenon, <3>1, <1>b, <1>2 DEF Looked
  <2>3. CASE Pick(r)
    BY Zenon, <2>3, <1>b, <1>1, <1>3 DEF Pick
  <2>4. CASE NoneAvailable(r)
    BY Zenon, <2>4, <1>b, <1>1 DEF NoneAvailable
  <2>. QED BY <1>8, <2>1, <2>2, <2>3, <2>4
<1>9. CASE Reject(r) \/ AdmitClosed(r) \/ AdmitTest(r) \/ Backoff(r)
  BY Zenon, <1>9, <1>b, <1>4, <1>6, <1>7 DEF Reject, AdmitClosed, AdmitTest, Backoff
<1>10. CASE RecordClosed(r) \/ RecordTest(r)
  BY Zenon, <1>10, <1>b, <1>7 DEF RecordClosed, RecordTest
<1>11. CASE \E result \in Results : Execute(r, result)
  BY Zenon, <1>11, <1>b, <1>5 DEF Execute
<1>. QED BY <1>8, <1>9, <1>10, <1>11 DEF RequestStep

LEMMA TypeInit == Init => TypeOK /\ AttemptLeft
<1>1. NoRequest \in RequestRecords /\ NoRequest.pc = "idle"
  BY NoRequestType DEF NoRequest
<1>. QED BY <1>1, ConstantsOK, BreakerTypes DEF Init, TypeOK, AttemptLeft, At

LEMMA TypeStep ==
    TypeOK /\ AttemptLeft /\ [Next]_vars => (TypeOK /\ AttemptLeft)'
<1>. SUFFICES ASSUME TypeOK, AttemptLeft, [Next]_vars
              PROVE  TypeOK' /\ AttemptLeft'
  OBVIOUS
<1>1. CASE UNCHANGED vars
  BY <1>1 DEF vars, TypeOK, AttemptLeft, At
<1>2. ASSUME NEW r \in Requests, Arrive(r) \/ RequestStep(r)
      PROVE  TypeOK' /\ AttemptLeft'
  BY <1>2, RequestStepType, AttemptLeftStep
<1>3. ASSUME NEW n \in Nodes, HealthChanges(n) \/ ResetCircuitBreaker(n)
      PROVE  TypeOK' /\ AttemptLeft'
  BY <1>3, BreakerTypes
     DEF HealthChanges, ResetCircuitBreaker, TypeOK, selector, AttemptLeft, At
<1>4. CASE Tick
  BY <1>4, BreakerTypes DEF Tick, TypeOK, selector, AttemptLeft, At
<1>. QED BY <1>1, <1>2, <1>3, <1>4 DEF Next

\* Every variable of the load balancer keeps its type: in particular, no
\* request makes more than MaxRetries + 1 attempts.
THEOREM LoadBalancerTypes == Spec => []TypeOK
BY TypeInit, TypeStep, PTL DEF Spec
-------------------------------------------------------------------------------
(* A forsaken node stays forsaken                                          *)

Unwanting(v, n) ==
    /\ ~(v.node = n /\ v.pc \in {"admit", "running", "record"})
    /\ \A i \in DOMAIN v.available : v.available[i] # n

\* No step of a request takes an interest in the node, or touches its breaker.
LEMMA ForsakenStep ==
    ASSUME TypeOK, NEW n \in Nodes, Forsaken(n),
           NEW r \in Requests, Arrive(r) \/ RequestStep(r), ~Misread(n)
    PROVE  Forsaken(n)'
<1>a. /\ request \in [Requests -> RequestRecords] /\ breaker \in [Nodes -> Breakers]
      /\ roundRobinIndex \in Nat
  BY ConstantsOK DEF TypeOK
<1> DEFINE v0 == request[r]
<1>b. v0 \in RequestRecords /\ Unwanting(v0, n) /\ breaker[n].state = "open"
  BY <1>a DEF Forsaken, Interested, Wants, NodeOf, Unwanting
<1>c. \A v : Becomes(r, v) /\ Unwanting(v, n) /\ breaker'[n].state = "open"
              => Forsaken(n)'
  BY <1>a DEF Becomes, Forsaken, Interested, Wants, NodeOf, Unwanting
<1>d. \A v : v.pc \in {"idle", "filter", "backoff"} /\ v.available = <<>>
              => Unwanting(v, n)
  BY DEF Unwanting
<1>1. /\ NoRequest.pc = "idle" /\ NoRequest.available = <<>>
      /\ [NoRequest EXCEPT !.pc = "filter"].pc = "filter"
      /\ [NoRequest EXCEPT !.pc = "filter"].available = <<>>
  BY DEF NoRequest
<1>2. CASE Arrive(r) \/ NoneAvailable(r)
  BY <1>2, <1>b, <1>c, <1>d, <1>1 DEF Arrive, NoneAvailable, node
<1>3. CASE Look(r) \/ LookFails(r)
  <2>0. PICK kept \in BOOLEAN :
             /\ Becomes(r, Looked(r, kept))
             /\ Look(r) => (kept <=> Selectable(NodeOrder[request[r].looked + 1]))
    BY <1>3, LooksAt
  <2> DEFINE m == NodeOrder[v0.looked + 1]
             w == IF kept THEN Append(v0.available, m) ELSE v0.available
             v == [v0 EXCEPT !.looked = v0.looked + 1, !.available = w]
  <2>1. Becomes(r, v) /\ breaker' = breaker /\ v0.pc = "filter"
    <3>1. Looked(r, kept) = v
      <4>1. CASE kept
        BY <4>1 DEF Looked
      <4>2. CASE ~kept
        BY <4>2 DEF Looked
      <4>. QED BY <4>1, <4>2
    <3>2. v0.pc = "filter" /\ UNCHANGED node
      BY <1>3, LooksAt DEF At
    <3>3. breaker' = breaker
      BY <3>2 DEF node
    <3>4. Becomes(r, v)
      <4>. HIDE DEF v
      <4>. QED BY <2>0, <3>1 DEF Becomes
    <3>. QED BY <3>2, <3>3, <3>4
  <2>2. v.pc = "filter" /\ v.available = w
    BY <2>1, <1>b DEF RequestRecords
  <2>3. kept => m # n
    <3>1. CASE Look(r)
      <4>1. kept <=> breaker[m].state # "open" /\ healthy[m]
        BY <2>0, <3>1 DEF Selectable
      <4>. HIDE DEF m
      <4>. QED BY <4>1, <1>b
    <3>2. CASE LookFails(r)
      <4>1. ~Selectable(n)
        BY <1>b DEF Selectable
      <4>2. m # n
        BY Zenon, <3>2, <4>1 DEF Misread
      <4>. QED BY <4>2
    <3>. QED BY <1>3, <3>1, <3>2
  <2>4. v0.available \in Seq(Nodes) /\ \A i \in DOMAIN v0.available : v0.available[i] # n
    BY <1>b DEF RequestRecords, Unwanting
  <2>5. \A i \in DOMAIN w : w[i] # n
    <3>1. CASE kept
      <4>1. m \in Nodes
        <5>1. v0.looked + 1 <= Len(NodeOrder)
          BY <1>3, LooksAt
        <5>2. v0.looked \in Nat
          BY <1>b, ConstantsOK DEF RequestRecords
        <5>. QED BY <5>1, <5>2, ConstantsOK
      <4>. HIDE DEF m, v0
      <4>. QED BY <3>1, <4>1, <2>3, <2>4
    <3>2. CASE ~kept
      BY <3>2, <2>4
    <3>. QED BY <3>1, <3>2
  <2>6. Unwanting(v, n)
    <3>. HIDE DEF v, w
    <3>. QED BY <2>2, <2>5 DEF Unwanting
  <2>. HIDE DEF v
  <2>. QED BY <2>1, <2>6, <1>b, <1>c
<1>4. CASE Pick(r)
  <2>1. breaker' = breaker /\ v0.available # <<>>
    BY <1>4 DEF Pick, node
  <2>2. CASE Becomes(r, NoRequest)
    BY <2>1, <2>2, <1>b, <1>c, <1>d, <1>1
  <2>3. ASSUME NEW m \in Choices(v0.available),
               Becomes(r, [v0 EXCEPT !.pc = "admit", !.node = m, !.looked = 0,
                                     !.available = <<>>])
        PROVE  Forsaken(n)'
    <3>1. v0.available \in Seq(Nodes)
      BY <1>b DEF RequestRecords
    <3>2. m # n
      BY <3>1, <2>1, <1>a, <1>b, ChoicesAvailable DEF Unwanting
    <3>3. Unwanting([v0 EXCEPT !.pc = "admit", !.node = m, !.looked = 0,
                               !.available = <<>>], n)
      BY <3>2, <1>b DEF Unwanting, RequestRecords
    <3>. QED BY <3>3, <2>1, <2>3, <1>b, <1>c
  <2>. QED BY Zenon, <1>4, <2>2, <2>3 DEF Pick
<1>5. CASE Reject(r)
  <2>1. \E result : Becomes(r, Judged(r, result))
    BY <1>5 DEF Reject
  <2>. QED BY <1>5, <2>1, <1>b, <1>c, <1>d, JudgedType DEF Reject, node
<1>6. CASE AdmitClosed(r)
  <2>1. breaker' = breaker /\ v0.node # n
    BY <1>6, <1>b DEF AdmitClosed, node, At, Unwanting
  <2>2. Unwanting([v0 EXCEPT !.pc = "running", !.mode = "closed"], n)
    BY <2>1, <1>b DEF Unwanting, RequestRecords
  <2>. QED BY <1>6, <2>1, <2>2, <1>b, <1>c DEF AdmitClosed
<1>7. CASE AdmitTest(r)
  <2>1. v0.node # n
    BY <1>7, <1>b DEF AdmitTest, At, Unwanting
  <2>2. breaker'[n] = breaker[n]
    BY <1>7, <1>a, <2>1 DEF AdmitTest, NodeOf
  <2>3. \A k : Unwanting([v0 EXCEPT !.pc = "running", !.mode = "half_open",
                                   !.attempts = k], n)
    BY <2>1, <1>b DEF Unwanting, RequestRecords
  <2>. QED BY Zenon, <1>7, <2>2, <2>3, <1>b, <1>c DEF AdmitTest
<1>8. ASSUME NEW result \in Results, Execute(r, result)
      PROVE  Forsaken(n)'
  <2>1. breaker' = breaker /\ v0.node # n
    BY <1>8, <1>b DEF Execute, node, At, Unwanting
  <2>2. Unwanting([v0 EXCEPT !.pc = "record", !.result = result,
                             !.bodyRead = TRUE], n)
    BY <2>1, <1>b DEF Unwanting, RequestRecords
  <2>. QED BY <1>8, <2>1, <2>2, <1>b, <1>c DEF Execute
<1>9. CASE RecordClosed(r) \/ RecordTest(r)
  <2>1. v0.node # n
    BY <1>9, <1>b DEF RecordClosed, RecordTest, At, Unwanting
  <2>2. breaker' = breaker \/ \E b : breaker' = [breaker EXCEPT ![NodeOf(r)] = b]
    BY Zenon, <1>9 DEF RecordClosed, RecordTest
  <2>3. breaker'[n] = breaker[n]
    BY <2>1, <2>2, <1>a DEF NodeOf
  <2>4. \E result : Becomes(r, Judged(r, result))
    BY Zenon, <1>9 DEF RecordClosed, RecordTest
  <2>. QED BY <2>3, <2>4, <1>b, <1>c, <1>d, JudgedType
<1>10. CASE Backoff(r)
  <2> DEFINE v == [v0 EXCEPT !.pc = "filter", !.attempt = @ + 1]
  <2>1. Becomes(r, v) /\ breaker' = breaker
    BY <1>10 DEF Backoff, node
  <2>2. v.pc = "filter" /\ v.available = v0.available
    BY <1>b DEF RequestRecords
  <2>3. Unwanting(v, n)
    BY <2>2, <1>b DEF Unwanting
  <2>. HIDE DEF v
  <2>. QED BY <2>1, <2>3, <1>b, <1>c
<1>. QED BY <1>2, <1>3, <1>4, <1>5, <1>6, <1>7, <1>8, <1>9, <1>10 DEF RequestStep

LEMMA ForsakenNext ==
    ASSUME TypeOK, [Next]_vars, NEW n \in Nodes, Forsaken(n),
           ~ResetCircuitBreaker(n), ~Misread(n)
    PROVE  Forsaken(n)'
<1>. USE DEF Forsaken, Interested, Wants, NodeOf
<1>1. CASE UNCHANGED vars
  BY <1>1 DEF vars
<1>2. ASSUME NEW m \in Nodes, HealthChanges(m) \/ ResetCircuitBreaker(m)
      PROVE  Forsaken(n)'
  <2>1. CASE HealthChanges(m)
    BY <2>1 DEF HealthChanges
  <2>2. CASE ResetCircuitBreaker(m)
    <3>1. m # n
      BY <2>2
    <3>2. breaker'[n] = breaker[n] /\ request' = request
      BY <2>2, <3>1 DEF ResetCircuitBreaker, TypeOK
    <3>. QED BY <3>2
  <2>. QED BY <1>2, <2>1, <2>2
<1>3. CASE Tick
  <2>1. breaker'[n].state = breaker[n].state /\ request' = request
    BY <1>3 DEF Tick, Sooner, TypeOK, Breakers
  <2>. QED BY <2>1
<1>. QED BY <1>1, <1>2, <1>3, ForsakenStep DEF Next

\* A node whose breaker is open, and that no request has in hand, is lost to
\* the load balancer until somebody resets the breaker by hand, or a read of
\* its row fails and it passes for closed.
THEOREM OpenNodeIsForsaken == Spec => OpenStaysOpen
<1>1. TypeOK /\ [Next]_vars
        => [\A n \in Nodes : Forsaken(n) /\ ~ResetCircuitBreaker(n) /\ ~Misread(n)
               => Forsaken(n)']_vars
  BY ForsakenNext
<1>2. Spec => []TypeOK
  BY LoadBalancerTypes
<1>. QED BY <1>1, <1>2, PTL DEF Spec, OpenStaysOpen
-------------------------------------------------------------------------------
(* Connections                                                             *)

HoldsIn(v, n) == v.node = n /\ v.pc \in {"admit", "running"}

LEMMA HoldingFinite ==
    ASSUME NEW n
    PROVE  IsFiniteSet(Holding(n)) /\ Cardinality(Holding(n)) \in Nat
<1>1. IsFiniteSet(Requests) /\ Holding(n) \subseteq Requests
  BY LoadBalancerAssumption DEF Holding
<1>. QED BY <1>1, FS_Subset, FS_CardinalityType

\* A step of one request changes the number of connections held by at most one.
LEMMA HoldingUpdate ==
    ASSUME TypeOK, NEW r \in Requests, NEW v, Becomes(r, v), NEW n
    PROVE  /\ (HoldsIn(request[r], n) <=> HoldsIn(v, n))
                 => Holding(n)' = Holding(n)
           /\ ~HoldsIn(request[r], n) /\ HoldsIn(v, n)
                 => Cardinality(Holding(n)') = Cardinality(Holding(n)) + 1
           /\ HoldsIn(request[r], n) /\ ~HoldsIn(v, n)
                 => /\ Cardinality(Holding(n)') = Cardinality(Holding(n)) - 1
                    /\ Cardinality(Holding(n)) > 0
<1>. USE DEF Holding, Holds, NodeOf, HoldsIn
<1>1. request'[r] = v /\ \A q \in Requests \ {r} : request'[q] = request[q]
  BY DEF TypeOK, Becomes
<1>2. CASE HoldsIn(request[r], n) <=> HoldsIn(v, n)
  BY <1>1, <1>2
<1>3. CASE ~HoldsIn(request[r], n) /\ HoldsIn(v, n)
  <2>1. Holding(n)' = Holding(n) \cup {r} /\ r \notin Holding(n)
    BY <1>1, <1>3
  <2>. HIDE DEF Holding
  <2>. QED BY <1>3, <2>1, HoldingFinite, FS_AddElement
<1>4. CASE HoldsIn(request[r], n) /\ ~HoldsIn(v, n)
  <2>1. Holding(n)' = Holding(n) \ {r} /\ r \in Holding(n)
    BY <1>1, <1>4
  <2>2. Cardinality(Holding(n)') = Cardinality(Holding(n)) - 1
    <3>. HIDE DEF Holding
    <3>. QED BY <2>1, HoldingFinite, FS_RemoveElement
  <2>3. Cardinality(Holding(n)) # 0
    <3>. HIDE DEF Holding
    <3>. QED BY <2>1, HoldingFinite, FS_EmptySet
  <2>. HIDE DEF Holding
  <2>. QED BY <1>4, <2>2, <2>3, HoldingFinite
<1>. QED BY <1>2, <1>3, <1>4

LEMMA AccountingStep ==
    ASSUME TypeOK, ConnectionAccounting, Strategy = "least_connections",
           NEW r \in Requests, Arrive(r) \/ RequestStep(r), NEW n \in Nodes
    PROVE  (connectionCounts[n] = Cardinality(Holding(n)) + lost[n])'
<1> DEFINE v0 == request[r]
           count == connectionCounts[n]
           held == Cardinality(Holding(n))
<1>a. /\ v0 \in RequestRecords /\ request \in [Requests -> RequestRecords]
      /\ connectionCounts \in [Nodes -> Nat] /\ lost \in [Nodes -> Nat]
      /\ roundRobinIndex \in Nat
  BY ConstantsOK DEF TypeOK
<1>b. count = held + lost[n] /\ count \in Nat /\ held \in Nat /\ lost[n] \in Nat
  BY <1>a, HoldingFinite DEF ConnectionAccounting
\* A step that neither takes nor gives back a connection.
<1>c. ASSUME NEW v, Becomes(r, v), HoldsIn(v0, n) <=> HoldsIn(v, n),
             connectionCounts' = connectionCounts, lost' = lost
      PROVE  (connectionCounts[n] = Cardinality(Holding(n)) + lost[n])'
  <2>1. Holding(n)' = Holding(n)
    BY <1>c, HoldingUpdate
  <2>. QED BY <1>b, <1>c, <2>1
<1>d. /\ ~HoldsIn(NoRequest, n)
      /\ ~HoldsIn([NoRequest EXCEPT !.pc = "filter"], n)
      /\ \A result : ~HoldsIn(Judged(r, result), n)
  BY JudgedType DEF NoRequest, HoldsIn
<1>1. CASE Arrive(r) \/ NoneAvailable(r)
  <2>1. ~HoldsIn(v0, n)
    BY <1>1 DEF Arrive, NoneAvailable, At, HoldsIn
  <2>. QED BY <1>1, <2>1, <1>c, <1>d DEF Arrive, NoneAvailable, selector
<1>2. CASE Look(r) \/ LookFails(r)
  <2>0. /\ v0.pc = "filter" /\ UNCHANGED <<selector, lost>>
        /\ \E kept \in BOOLEAN : Becomes(r, Looked(r, kept))
    BY <1>2, LooksAt DEF At
  <2>1. ~HoldsIn(v0, n)
    BY <2>0 DEF HoldsIn
  <2>2. \A k, w : ~HoldsIn([v0 EXCEPT !.looked = k, !.available = w], n)
    BY <1>a, <2>1 DEF RequestRecords, HoldsIn
  <2>. QED BY Zenon, <2>0, <2>1, <2>2, <1>c DEF Looked, selector
<1>3. CASE Pick(r)
  <2>1. ~HoldsIn(v0, n) /\ lost' = lost
    BY <1>3 DEF Pick, At, HoldsIn
  <2>2. CASE Becomes(r, NoRequest) /\ UNCHANGED selector
    BY <2>1, <2>2, <1>c, <1>d DEF selector
  <2>3. ASSUME NEW m \in Choices(v0.available),
               Becomes(r, [v0 EXCEPT !.pc = "admit", !.node = m, !.looked = 0,
                                     !.available = <<>>]),
               connectionCounts' = Connect(m)
        PROVE  (connectionCounts[n] = Cardinality(Holding(n)) + lost[n])'
    <3> DEFINE v == [v0 EXCEPT !.pc = "admit", !.node = m, !.looked = 0,
                               !.available = <<>>]
    <3>1. HoldsIn(v, n) <=> m = n
      BY <1>a DEF RequestRecords, HoldsIn
    <3>2. connectionCounts'[n] = IF m = n THEN count + 1 ELSE count
      BY <2>3, <1>a DEF Connect
    <3>3. Cardinality(Holding(n)') = IF m = n THEN held + 1 ELSE held
      <4>. HIDE DEF v
      <4>. QED BY <2>1, <2>3, <3>1, HoldingUpdate DEF v
    <3>. QED BY <2>1, <3>2, <3>3, <1>b
  <2>. QED BY Zenon, <1>3, <2>2, <2>3 DEF Pick
<1>4. CASE Reject(r)
  <2>1. /\ v0.pc = "admit" /\ Becomes(r, Judged(r, "retryable"))
        /\ connectionCounts' = connectionCounts
        /\ lost' = [lost EXCEPT ![v0.node] = @ + 1]
    BY <1>4 DEF Reject, At, NodeOf, selector
  <2>2. Cardinality(Holding(n)') = IF v0.node = n THEN held - 1 ELSE held
    BY <2>1, <1>d, HoldingUpdate DEF HoldsIn
  <2>3. lost'[n] = IF v0.node = n THEN lost[n] + 1 ELSE lost[n]
    BY <2>1, <1>a
  <2>. QED BY <2>1, <2>2, <2>3, <1>b
<1>5. CASE AdmitClosed(r) \/ AdmitTest(r)
  <2>1. v0.pc = "admit" /\ connectionCounts' = connectionCounts /\ lost' = lost
    BY <1>5 DEF AdmitClosed, AdmitTest, At, selector
  <2>2. HoldsIn([v0 EXCEPT !.pc = "running", !.mode = "closed"], n) <=> HoldsIn(v0, n)
    BY <2>1, <1>a DEF RequestRecords, HoldsIn
  <2>3. \A k : HoldsIn([v0 EXCEPT !.pc = "running", !.mode = "half_open",
                                  !.attempts = k], n) <=> HoldsIn(v0, n)
    BY <2>1, <1>a DEF RequestRecords, HoldsIn
  <2>. QED BY Zenon, <1>5, <2>1, <2>2, <2>3, <1>c DEF AdmitClosed, AdmitTest
<1>6. ASSUME NEW result \in Results, Execute(r, result)
      PROVE  (connectionCounts[n] = Cardinality(Holding(n)) + lost[n])'
  <2> DEFINE v == [v0 EXCEPT !.pc = "record", !.result = result, !.bodyRead = TRUE]
  <2>1. v0.pc = "running" /\ lost' = lost /\ Becomes(r, v) /\ Release(v0.node)
    BY <1>6 DEF Execute, At, NodeOf
  <2>2. ~HoldsIn(v, n)
    BY <1>a DEF RequestRecords, HoldsIn
  <2>3. CASE v0.node = n
    <3>1. HoldsIn(v0, n)
      BY <2>1, <2>3 DEF HoldsIn
    <3>2. Cardinality(Holding(n)') = held - 1 /\ held > 0
      <4>. HIDE DEF v
      <4>. QED BY <2>1, <2>2, <3>1, HoldingUpdate
    <3>3. connectionCounts'[n] = count - 1
      BY <2>1, <2>3, <3>2, <1>a, <1>b DEF Release
    <3>. QED BY <2>1, <3>2, <3>3, <1>b
  <2>4. CASE v0.node # n
    <3>1. Holding(n)' = Holding(n)
      <4>. HIDE DEF v
      <4>. QED BY <2>1, <2>2, <2>4, HoldingUpdate DEF HoldsIn
    <3>2. connectionCounts'[n] = count
      BY <2>1, <2>4, <1>a DEF Release
    <3>. QED BY <2>1, <3>1, <3>2, <1>b
  <2>. QED BY <2>3, <2>4
<1>7. CASE RecordClosed(r) \/ RecordTest(r)
  <2>1. ~HoldsIn(v0, n) /\ connectionCounts' = connectionCounts /\ lost' = lost
    BY <1>7 DEF RecordClosed, RecordTest, At, HoldsIn, selector
  <2>2. \E result : Becomes(r, Judged(r, result))
    BY Zenon, <1>7 DEF RecordClosed, RecordTest
  <2>. QED BY <2>1, <2>2, <1>c, <1>d
<1>8. CASE Backoff(r)
  <2>1. ~HoldsIn(v0, n) /\ connectionCounts' = connectionCounts /\ lost' = lost
    BY <1>8 DEF Backoff, At, HoldsIn, selector
  <2>2. ~HoldsIn([v0 EXCEPT !.pc = "filter", !.attempt = @ + 1], n)
    BY <1>a DEF RequestRecords, HoldsIn
  <2>. QED BY Zenon, <1>8, <2>1, <2>2, <1>c DEF Backoff
<1>. QED BY <1>1, <1>2, <1>3, <1>4, <1>5, <1>6, <1>7, <1>8 DEF RequestStep

\* Under least_connections the selector's count of a node is the number of
\* requests that hold a connection to it, and those its breaker has turned away.
THEOREM ConnectionsAccountedFor == Spec => []ConnectionAccounting
<1>1. Init => ConnectionAccounting
  <2>. SUFFICES ASSUME Init, NEW n \in Nodes
                PROVE  connectionCounts[n] = Cardinality(Holding(n)) + lost[n]
    BY DEF ConnectionAccounting
  <2>1. Holding(n) = {}
    BY DEF Init, NoRequest, Holding, Holds
  <2>. QED BY <2>1, FS_EmptySet DEF Init
<1>2. TypeOK /\ ConnectionAccounting /\ [Next]_vars => ConnectionAccounting'
  <2>. SUFFICES ASSUME TypeOK, ConnectionAccounting, [Next]_vars,
                       Strategy = "least_connections", NEW n \in Nodes
                PROVE  (connectionCounts[n] = Cardinality(Holding(n)) + lost[n])'
    BY DEF ConnectionAccounting
  <2>1. CASE /\ request' = request /\ connectionCounts' = connectionCounts
             /\ lost' = lost
    <3>1. Holding(n)' = Holding(n)
      BY <2>1 DEF Holding, Holds, NodeOf
    <3>. QED BY <2>1, <3>1 DEF ConnectionAccounting
  <2>2. UNCHANGED vars => UNCHANGED <<request, connectionCounts, lost>>
    BY DEF vars
  <2>3. Tick => UNCHANGED <<request, connectionCounts, lost>>
    BY DEF Tick, selector
  <2>4. \A m \in Nodes : HealthChanges(m) \/ ResetCircuitBreaker(m)
           => UNCHANGED <<request, connectionCounts, lost>>
    BY DEF HealthChanges, ResetCircuitBreaker, selector
  <2>. QED BY <2>1, <2>2, <2>3, <2>4, AccountingStep DEF Next
<1>. QED BY <1>1, <1>2, LoadBalancerTypes, PTL DEF Spec

-------------------------------------------------------------------------------
(* The health checker behind the balancer, which keeps the rows it reads.  *)

\* Either a row of the table or the one that stands for a missing row.
RowsSeen == Rows \cup {Unknown}

LEMMA BumpedBelow ==
    ASSUME NEW t \in Nat \ {0}, NEW n \in 0..t
    PROVE  Bumped(n, t) \in 1..t
BY DEF Bumped

\* One more result makes a row out of whatever was seen, ...
LEMMA JudgedRow ==
    ASSUME NEW r \in RowsSeen, NEW ok \in BOOLEAN
    PROVE  RowAfter(r, ok) \in Rows
<1>1. r.successes \in 0..RecoveryThreshold /\ r.failures \in 0..FailureThreshold
  BY HealthAssumption DEF RowsSeen, Rows, Unknown, Row
<1>2. r.status \in {"healthy", "unhealthy"} \/ r.status = "unknown"
  BY DEF RowsSeen, Rows, Unknown, Row
<1>3. /\ Bumped(r.successes, RecoveryThreshold) \in 1..RecoveryThreshold
      /\ Bumped(r.failures, FailureThreshold) \in 1..FailureThreshold
  BY <1>1, BumpedBelow, HealthAssumption
<1>4. CASE ok
  BY <1>2, <1>3, <1>4, HealthAssumption DEF RowAfter, Rows, Row
<1>5. CASE ~ok
  BY <1>2, <1>3, <1>5, HealthAssumption DEF RowAfter, Rows, Row
<1>. QED BY <1>4, <1>5

\* ... and keeps its status and its counts in step.
LEMMA JudgedRowCoherent ==
    ASSUME NEW r \in RowsSeen, NEW ok \in BOOLEAN, Coherent(r)
    PROVE  Coherent(RowAfter(r, ok))
<1>1. r.successes \in 0..RecoveryThreshold /\ r.failures \in 0..FailureThreshold
  BY HealthAssumption DEF RowsSeen, Rows, Unknown, Row
<1>2. r.status \in {"healthy", "unhealthy"} \/ r.status = "unknown"
  BY DEF RowsSeen, Rows, Unknown, Row
<1>3. /\ Bumped(r.successes, RecoveryThreshold) \in 1..RecoveryThreshold
      /\ Bumped(r.failures, FailureThreshold) \in 1..FailureThreshold
  BY <1>1, BumpedBelow, HealthAssumption
<1>4. CASE ok
  BY <1>2, <1>3, <1>4, HealthAssumption DEF RowAfter, Row, Coherent
<1>5. CASE ~ok
  BY <1>2, <1>3, <1>5, HealthAssumption DEF RowAfter, Row, Coherent
<1>. QED BY <1>4, <1>5

-------------------------------------------------------------------------------
(* Every copy of the row that a check holds is a row too, and coherent: it *)
(* may be written back, one result later, over any row there is by then.   *)

HealthInv ==
    /\ HealthTypeOK
    /\ Coherent(row)
    /\ \A c \in Checks : Coherent(check[c].seen)

LEMMA IdleCheckOK ==
    /\ IdleCheck \in ChecksOf
    /\ [IdleCheck EXCEPT !.pc = "probe"] \in ChecksOf
    /\ IdleCheck.seen = Unknown /\ [IdleCheck EXCEPT !.pc = "probe"].seen = Unknown
    /\ Coherent(Unknown) /\ Coherent(NoRow)
BY HealthAssumption DEF IdleCheck, ChecksOf, Coherent, Unknown, NoRow, Row

LEMMA HealthInitOK == HealthInit => HealthInv
<1>. SUFFICES ASSUME HealthInit PROVE HealthInv
  OBVIOUS
<1>1. HealthTypeOK
  BY IdleCheckOK, HealthAssumption DEF HealthInit, HealthTypeOK, ManagerStates
<1>2. Coherent(row) /\ \A c \in Checks : Coherent(check[c].seen)
  BY IdleCheckOK DEF HealthInit
<1>. QED BY <1>1, <1>2 DEF HealthInv

\* What a step of one check may do: keep the row or write a coherent one, and
\* give its own record a value that is a check and holds a coherent copy.
LEMMA CheckUpdate ==
    ASSUME HealthInv, NEW c \in Checks, NEW v \in ChecksOf, CheckBecomes(c, v),
           Coherent(v.seen), row' \in Rows \cup {NoRow}, Coherent(row'),
           faults' \in 0..MaxFaults, UNCHANGED <<up, manager, restarts>>
    PROVE  HealthInv'
<1>1. check' \in [Checks -> ChecksOf]
  BY DEF HealthInv, HealthTypeOK, CheckBecomes
<1>2. HealthTypeOK'
  BY <1>1 DEF HealthInv, HealthTypeOK
<1>3. \A d \in Checks : Coherent(check'[d].seen)
  <2>. SUFFICES ASSUME NEW d \in Checks PROVE Coherent(check'[d].seen)
    OBVIOUS
  <2>1. CASE d = c
    BY <2>1 DEF HealthInv, HealthTypeOK, CheckBecomes
  <2>2. CASE d # c
    <3>1. check'[d] = check[d]
      BY <2>2 DEF HealthInv, HealthTypeOK, CheckBecomes
    <3>. QED BY <3>1 DEF HealthInv
  <2>. QED BY <2>1, <2>2
<1>. QED BY <1>2, <1>3 DEF HealthInv

LEMMA HealthSqlOK ==
    ASSUME HealthInv
    PROVE  /\ SqlFails => row' = row /\ faults' \in 0..MaxFaults /\ UNCHANGED restarts
           /\ SqlReads => row \in Rows /\ row' = row
                          /\ faults' \in 0..MaxFaults /\ UNCHANGED restarts
           /\ NotFound => row' = row /\ faults' \in 0..MaxFaults /\ UNCHANGED restarts
           /\ \A r : SqlWrites(r) => row' = r
                          /\ faults' \in 0..MaxFaults /\ UNCHANGED restarts
BY HealthAssumption
   DEF HealthInv, HealthTypeOK, SqlFails, SqlReads, NotFound, SqlWrites, bounds

LEMMA CheckNodeOK ==
    ASSUME HealthInv, NEW c \in Checks, CheckNode(c)
    PROVE  HealthInv'
<1>1. /\ check[c] \in ChecksOf /\ Coherent(check[c].seen)
      /\ row \in Rows \cup {NoRow} /\ Coherent(row)
  BY DEF HealthInv, HealthTypeOK
<1>2. CASE GetConfigFails(c)
  <2>1. CheckBecomes(c, IdleCheck) /\ SqlFails /\ UNCHANGED <<up, manager>>
    BY <1>2 DEF GetConfigFails
  <2>. QED BY <1>1, <2>1, HealthSqlOK, CheckUpdate, IdleCheckOK
<1>3. CASE PerformHealthCheck(c)
  <2>. DEFINE answered == up /\ manager[Owner[c]] = "running"
              v == [check[c] EXCEPT !.ok = answered, !.pc = "read"]
  <2>1. CheckBecomes(c, v) /\ UNCHANGED <<up, row, manager, faults, restarts>>
    BY <1>3 DEF PerformHealthCheck, bounds
  <2>2. answered \in BOOLEAN
    BY DEF HealthInv, HealthTypeOK
  <2>3. v \in ChecksOf /\ v.seen = check[c].seen
    BY <1>1, <2>2 DEF ChecksOf
  <2>. HIDE DEF v
  <2>4. faults' \in 0..MaxFaults
    BY <2>1 DEF HealthInv, HealthTypeOK
  <2>5. row' = row
    BY <2>1
  <2>. QED BY <1>1, <2>1, <2>3, <2>4, <2>5, CheckUpdate
<1>4. CASE GetStatus(c)
  <2>. DEFINE v(r) == [check[c] EXCEPT !.seen = r, !.pc = "write"]
  <2>1. \A r \in RowsSeen : v(r) \in ChecksOf /\ v(r).seen = r
    BY <1>1 DEF ChecksOf, RowsSeen
  <2>2. \/ SqlReads /\ CheckBecomes(c, v(row))
        \/ (NotFound \/ SqlFails) /\ CheckBecomes(c, v(Unknown))
    BY <1>4 DEF GetStatus
  <2>3. UNCHANGED <<up, manager>>
    BY <1>4 DEF GetStatus
  <2>. HIDE DEF v
  <2>4. CASE SqlReads /\ CheckBecomes(c, v(row))
    <3>1. row \in RowsSeen /\ row' = row /\ faults' \in 0..MaxFaults /\ UNCHANGED restarts
      BY <2>4, HealthSqlOK DEF RowsSeen
    <3>2. v(row) \in ChecksOf /\ Coherent(v(row).seen)
      BY <1>1, <2>1, <3>1
    <3>. QED BY <1>1, <2>3, <2>4, <3>1, <3>2, CheckUpdate
  <2>5. CASE (NotFound \/ SqlFails) /\ CheckBecomes(c, v(Unknown))
    <3>1. row' = row /\ faults' \in 0..MaxFaults /\ UNCHANGED restarts
      BY <2>5, HealthSqlOK
    <3>2. v(Unknown) \in ChecksOf /\ Coherent(v(Unknown).seen)
      BY <2>1, IdleCheckOK DEF RowsSeen
    <3>. QED BY <1>1, <2>3, <2>5, <3>1, <3>2, CheckUpdate
  <2>. QED BY <2>2, <2>4, <2>5
<1>5. CASE UpdateStatus(c)
  <2>. DEFINE r == RowAfter(check[c].seen, check[c].ok)
  <2>1. r \in Rows /\ Coherent(r)
    BY <1>1, JudgedRow, JudgedRowCoherent DEF ChecksOf, RowsSeen
  <2>2. /\ SqlWrites(r) \/ SqlFails
        /\ CheckBecomes(c, IdleCheck) /\ UNCHANGED <<up, manager>>
    BY <1>5 DEF UpdateStatus
  <2>. HIDE DEF r
  <2>3. /\ row' \in Rows \cup {NoRow} /\ Coherent(row')
        /\ faults' \in 0..MaxFaults /\ UNCHANGED restarts
    BY <1>1, <2>1, <2>2, HealthSqlOK
  <2>. QED BY <2>2, <2>3, CheckUpdate, IdleCheckOK
<1>. QED BY <1>2, <1>3, <1>4, <1>5 DEF CheckNode

LEMMA HealthStepOK == HealthInv /\ [HealthNext]_healthVars => HealthInv'
<1>. SUFFICES ASSUME HealthInv, [HealthNext]_healthVars PROVE HealthInv'
  OBVIOUS
<1>1. ASSUME NEW m \in Managers, Start(m) \/ Stop(m) \/ LoopEnds(m)
      PROVE  HealthInv'
  <2>1. manager' \in [Managers -> ManagerStates]
    BY <1>1 DEF HealthInv, HealthTypeOK, ManagerStates, Start, Stop, LoopEnds
  <2>2. UNCHANGED <<up, row, check, faults, restarts>>
    BY <1>1 DEF Start, Stop, LoopEnds, bounds
  <2>. QED BY <2>1, <2>2 DEF HealthInv, HealthTypeOK
<1>2. ASSUME NEW c \in Checks, CheckAllNodes(c)
      PROVE  HealthInv'
  <2>1. /\ CheckBecomes(c, [IdleCheck EXCEPT !.pc = "probe"])
        /\ UNCHANGED <<up, row, manager, faults, restarts>>
    BY <1>2 DEF CheckAllNodes, bounds
  <2>2. row' = row /\ row \in Rows \cup {NoRow} /\ Coherent(row)
        /\ faults' \in 0..MaxFaults
    BY <2>1 DEF HealthInv, HealthTypeOK
  <2>. QED BY <2>1, <2>2, CheckUpdate, IdleCheckOK
<1>3. ASSUME NEW c \in Checks, CheckNode(c)
      PROVE  HealthInv'
  BY <1>3, CheckNodeOK
<1>4. CASE UpstreamTurns
  BY <1>4 DEF UpstreamTurns, HealthInv, HealthTypeOK, bounds
<1>5. CASE Restart
  <2>1. HealthTypeOK'
    BY <1>5, IdleCheckOK, HealthAssumption
       DEF Restart, HealthInv, HealthTypeOK, ManagerStates
  <2>2. Coherent(row') /\ \A c \in Checks : Coherent(check'[c].seen)
    BY <1>5, IdleCheckOK DEF Restart, HealthInv
  <2>. QED BY <2>1, <2>2 DEF HealthInv
<1>6. CASE UNCHANGED healthVars
  BY <1>6 DEF healthVars, HealthInv, HealthTypeOK
<1>. QED BY <1>1, <1>2, <1>3, <1>4, <1>5, <1>6 DEF HealthNext

\* Every reachable row, and every copy of one, has the shape the code gives it.
THEOREM HealthTypes == HealthSpec => []HealthTypeOK
<1>1. HealthInv => HealthTypeOK
  BY DEF HealthInv
<1>. QED BY HealthInitOK, HealthStepOK, <1>1, PTL DEF HealthSpec

\* However checks of several load balancers overlap, a row never keeps a node
\* in (or out) against a full threshold of results.
THEOREM StatusAlwaysMatches == HealthSpec => []StatusMatchesCounts
<1>1. HealthInv => StatusMatchesCounts
  BY DEF HealthInv, StatusMatchesCounts
<1>. QED BY HealthInitOK, HealthStepOK, <1>1, PTL DEF HealthSpec
===============================================================================
