------------------------------- MODULE Supervision -------------------------------
(***************************************************************************)
(* The manager of a load balancer, made by the first request that needs it *)
(* (LoadBalancerManagerRegistry), and two of its goroutines: the alert     *)
(* manager, which checks every minute for conditions worth an alert and    *)
(* raises each unless one is already open, and the monitor, which stores   *)
(* the log of every request and every minute sums up the minute it is in.  *)
(* Alerts, logs and statistics are rows and survive a restart; managers do *)
(* not.                                                                    *)
(*                                                                         *)
(* Time goes in half minutes and waits for nobody: a tick may be taken     *)
(* late, and then the minute it sums up is not its own.                    *)
(***************************************************************************)
EXTENDS Integers, FiniteSets, Sequences, SequencesExt, FiniteSetsExt

CONSTANTS
    Managers,         \* managers that may be made, also after a restart
    Getters,          \* requests that ask the registry for the manager
    Nodes,            \* configurations
    ConfigNodes,      \* those of the load balancer, a list that may repeat one
    AlertLimit,       \* newest alerts a check looks at (10)
    QueueSize,        \* of the log channel
    MaxClock, MaxLbLogs, MaxAlerts, MaxSupervisionFaults,
    NoManager

ASSUME SupervisionAssumption ==
  /\ AlertLimit \in Nat \ {0} /\ QueueSize \in Nat \ {0}
  /\ MaxClock \in Nat /\ MaxLbLogs \in Nat /\ MaxAlerts \in Nat
  /\ MaxSupervisionFaults \in Nat /\ NoManager \notin Managers
  /\ ConfigNodes \in Seq(Nodes)
  /\ IsFiniteSet(Nodes) /\ Nodes \cap {"all_nodes_down", "low_healthy_nodes", "high_error_rate"} = {}

VARIABLES
    clock,
    manager,     \* manager[m]: its state and what its goroutines are doing
    registered,  \* the registry's entry for the load balancer
    getter,      \* what every request has got from the registry
    alerts,      \* rows of the alerts table, oldest first
    lbLogs,      \* rows stored in load_balancer_request_logs, <<number, node, time>>
    nodeStats,   \* rows inserted into node_stats
    begun,       \* requests logged so far
    supervisionFaults

supervisionVars == <<clock, manager, registered, getter, alerts, lbLogs,
                     nodeStats, begun, supervisionFaults>>

rowVars == <<alerts, lbLogs, nodeStats>>

\* The checks of a round, in their order; a node stands for its open breaker.
Round == <<"all_nodes_down", "low_healthy_nodes", "high_error_rate">> \o ConfigNodes

Unmade == [state |-> "unmade", checked |-> 0, todo |-> <<>>, pc |-> "wait",
           queue |-> <<>>, summed |-> 0, minute |-> 0, nodes |-> {}, node |-> 0, count |-> 0]

SupervisionInit ==
  /\ clock = 0
  /\ manager = [m \in Managers |-> Unmade]
  /\ registered = NoManager
  /\ getter = [g \in Getters |-> [pc |-> "idle", manager |-> NoManager]]
  /\ alerts = <<>> /\ lbLogs = {} /\ nodeStats = {}
  /\ begun = 0 /\ supervisionFaults = 0

SupervisionFault == /\ supervisionFaults < MaxSupervisionFaults
                    /\ supervisionFaults' = supervisionFaults + 1

\* The ticks of a minute's ticker that can be the one taken now: it comes to the
\* same moment of every minute, and keeps one tick for a reader who is late.
Due(m, last) ==
  IF manager[m].state # "running" THEN {}
  ELSE {t \in last + 2 .. clock : (t - last) % 2 = 0 /\ clock <= t + 2}

ClockTick ==
  /\ clock < MaxClock /\ clock' = clock + 1
  /\ UNCHANGED <<manager, registered, getter, rowVars, begun, supervisionFaults>>

------------------------------------------------------------------------------
(* LoadBalancerManagerRegistry *)

FindManager(g) ==
  /\ getter[g].pc = "idle"
  /\ getter' = [getter EXCEPT ![g] =
       IF registered # NoManager THEN [pc |-> "has", manager |-> registered]
       ELSE [pc |-> "missed", manager |-> NoManager]]
  /\ UNCHANGED <<clock, manager, registered, rowVars, begun, supervisionFaults>>

\* NewLoadBalancerManager and Start: the first check of alerts runs at once,
\* the first sum a minute later.
Started == [Unmade EXCEPT !.state = "running", !.checked = clock,
                          !.summed = clock, !.todo = Round, !.pc = "check"]

\* One that has not been made yet, if there is any left.
New == LET unmade == {m \in Managers : manager[m].state = "unmade"} IN
         IF unmade = {} THEN {} ELSE {CHOOSE m \in unmade : TRUE}

\* (mutant) the map is not looked at again under the lock
MakeUnseen(g) ==
  /\ getter[g].pc = "missed"
  /\ \E m \in New :
       /\ manager' = [manager EXCEPT ![m] = Started]
       /\ registered' = m
       /\ getter' = [getter EXCEPT ![g] = [pc |-> "has", manager |-> m]]
  /\ UNCHANGED <<clock, rowVars, begun, supervisionFaults>>

\* Under the lock: the manager made meanwhile, or a new one.  If the load
\* balancer cannot be read, by the constructor or by the health checker's Start,
\* nothing has begun to check or to log, and the request fails.
MakeManager(g) ==
  /\ getter[g].pc = "missed"
  /\ \/ /\ registered # NoManager
        /\ getter' = [getter EXCEPT ![g] = [pc |-> "has", manager |-> registered]]
        /\ UNCHANGED <<manager, registered, supervisionFaults>>
     \/ /\ registered = NoManager
        /\ \E m \in New :
             /\ manager' = [manager EXCEPT ![m] = Started]
             /\ registered' = m
             /\ getter' = [getter EXCEPT ![g] = [pc |-> "has", manager |-> m]]
        /\ UNCHANGED supervisionFaults
     \/ /\ registered = NoManager /\ SupervisionFault
        /\ getter' = [getter EXCEPT ![g] = [pc |-> "idle", manager |-> NoManager]]
        /\ UNCHANGED <<manager, registered>>
  /\ UNCHANGED <<clock, rowVars, begun>>

\* ExecuteRequest ends with the request's log in the channel; when that is full
\* the log is dropped.  A stopped manager still takes requests and logs.  (With
\* request logging switched off, no log comes this far.)
RecordRequest(g, n, began) ==
  /\ getter[g].pc = "has" /\ begun < MaxLbLogs /\ began <= clock /\ began >= clock - 1
  /\ begun' = begun + 1
  /\ LET m == getter[g].manager IN
       manager' = IF Len(manager[m].queue) >= QueueSize THEN manager
                  ELSE [manager EXCEPT ![m].queue = Append(@, <<begun, n, began>>)]
  /\ getter' = [getter EXCEPT ![g] = [pc |-> "idle", manager |-> NoManager]]
  /\ UNCHANGED <<clock, registered, rowVars, supervisionFaults>>

\* StopAll cancels the context of the manager, which stays in the map.
StopAll ==
  /\ registered # NoManager /\ manager[registered].state = "running"
  /\ manager' = [manager EXCEPT ![registered].state = "stopping"]
  /\ UNCHANGED <<clock, registered, getter, rowVars, begun, supervisionFaults>>

\* ... and waits until a round or a sum in progress is through.
Stopped(m) ==
  /\ manager[m].state = "stopping" /\ manager[m].todo = <<>> /\ manager[m].nodes = {}
  /\ manager' = [manager EXCEPT ![m].state = "stopped"]
  /\ UNCHANGED <<clock, registered, getter, rowVars, begun, supervisionFaults>>

\* The process ends in any state, and starts anew.
Restart ==
  /\ registered # NoManager /\ registered' = NoManager
  /\ manager' = [m \in Managers |->
       IF manager[m].state = "unmade" THEN Unmade ELSE [Unmade EXCEPT !.state = "gone"]]
  /\ getter' = [g \in Getters |-> [pc |-> "idle", manager |-> NoManager]]
  /\ UNCHANGED <<clock, rowVars, begun, supervisionFaults>>

------------------------------------------------------------------------------
(* The alert manager *)

alertFrame == UNCHANGED <<clock, registered, getter, lbLogs, nodeStats, begun>>

Type(m) == Head(manager[m].todo)
NextCheck(m) == manager' = [manager EXCEPT ![m].todo = Tail(@), ![m].pc = "check"]

CheckAlerts(m) ==
  /\ manager[m].todo = <<>>
  /\ \E t \in Due(m, manager[m].checked) :
       manager' = [manager EXCEPT ![m].todo = Round, ![m].checked = t, ![m].pc = "check"]
  /\ UNCHANGED <<alerts, supervisionFaults>> /\ alertFrame

\* The condition: no healthy node, fewer than the minimum, an error rate above
\* the threshold, an open breaker.  The rows it is read from are written by the
\* health checker, the breakers and the monitor at any time, so it may hold or
\* not; an error ends this check.
CheckCondition(m) ==
  /\ manager[m].todo # <<>> /\ manager[m].pc = "check"
  /\ \/ /\ manager' = [manager EXCEPT ![m].pc = "list"] \/ NextCheck(m)
        /\ UNCHANGED supervisionFaults
     \/ SupervisionFault /\ NextCheck(m)
  /\ UNCHANGED alerts /\ alertFrame

Unacknowledged == {i \in DOMAIN alerts : ~alerts[i].acknowledged}

\* The newest unacknowledged alerts of the load balancer, at most AlertLimit.
Latest == {i \in Unacknowledged : Cardinality({j \in Unacknowledged : j > i}) < AlertLimit}

\* (mutant) only the newest alert is compared
ListNewest(m) ==
  /\ manager[m].pc = "list"
  /\ IF \E i \in Unacknowledged : /\ alerts[i].type = Type(m)
                                   /\ \A j \in Unacknowledged : j <= i
     THEN NextCheck(m)
     ELSE manager' = [manager EXCEPT ![m].pc = "insert"]
  /\ UNCHANGED <<alerts, supervisionFaults>> /\ alertFrame

\* An open alert of the type ends the check.  When the alerts cannot be read the
\* breaker check gives up, the others raise their alert all the same.
ListAlerts(m) ==
  /\ manager[m].pc = "list"
  /\ \/ /\ IF \E i \in Latest : alerts[i].type = Type(m) THEN NextCheck(m)
           ELSE manager' = [manager EXCEPT ![m].pc = "insert"]
        /\ UNCHANGED supervisionFaults
     \/ /\ SupervisionFault
        /\ IF Type(m) \in Nodes THEN NextCheck(m)
           ELSE manager' = [manager EXCEPT ![m].pc = "insert"]
  /\ UNCHANGED alerts /\ alertFrame

CreateAlert(m) ==
  /\ manager[m].pc = "insert" /\ Len(alerts) < MaxAlerts
  /\ \/ /\ alerts' = Append(alerts, [type |-> Type(m), acknowledged |-> FALSE])
        /\ UNCHANGED supervisionFaults
     \/ SupervisionFault /\ UNCHANGED alerts
  /\ NextCheck(m)
  /\ alertFrame

\* The endpoint looks for the alert under the id of the load balancer, which no
\* alert has: nothing is ever acknowledged.
AcknowledgeAlert == UNCHANGED supervisionVars

\* The clean-up of the night deletes the oldest alerts, those of 90 days.
DeleteOldAlerts(old) ==
  /\ alerts' = SubSeq(alerts, old + 1, Len(alerts))
  /\ UNCHANGED <<manager, supervisionFaults>> /\ alertFrame

------------------------------------------------------------------------------
(* The monitor *)

monitorFrame == UNCHANGED <<clock, registered, getter, alerts, begun>>

\* A log is stored, or lost with its error.
ProcessLog(m) ==
  /\ manager[m].state \in {"running", "stopping"} /\ manager[m].queue # <<>>
  /\ manager' = [manager EXCEPT ![m].queue = Tail(@)]
  /\ \/ lbLogs' = lbLogs \cup {Head(manager[m].queue)} /\ UNCHANGED supervisionFaults
     \/ SupervisionFault /\ UNCHANGED lbLogs
  /\ UNCHANGED nodeStats /\ monitorFrame

Minute(t) == t \div 2

\* The minute is the one in which the tick is taken.  A load balancer that cannot
\* be read has nothing summed.
PerformAggregation(m) ==
  /\ manager[m].nodes = {}
  /\ \E t \in Due(m, manager[m].summed), nodes \in {DOMAIN ConfigNodes, {}} :
       /\ manager' = [manager EXCEPT ![m].summed = t, ![m].minute = Minute(clock),
                                     ![m].nodes = nodes]
       /\ IF nodes = {} THEN SupervisionFault ELSE UNCHANGED supervisionFaults
  /\ UNCHANGED <<lbLogs, nodeStats>> /\ monitorFrame

\* The logs of node n in a minute.
Logged(n, minute) == {l \in lbLogs : l[2] = n /\ Minute(l[3]) = minute}

\* The next place of the list.  COUNT of its node's logs of the minute; a failure
\* or nothing skips it.
SumNode(m) ==
  /\ manager[m].node = 0
  /\ \E p \in manager[m].nodes :
       LET seen == Logged(ConfigNodes[p], manager[m].minute) IN
         /\ \A o \in manager[m].nodes : p <= o
         /\ \/ /\ manager' = IF seen = {} THEN [manager EXCEPT ![m].nodes = @ \ {p}]
                             ELSE [manager EXCEPT ![m].node = p, ![m].count = Cardinality(seen)]
               /\ UNCHANGED supervisionFaults
            \/ SupervisionFault /\ manager' = [manager EXCEPT ![m].nodes = @ \ {p}]
  /\ UNCHANGED <<lbLogs, nodeStats>> /\ monitorFrame

\* A row is inserted, whatever rows there are; a failure ends the aggregation.
CreateNodeStats(m) ==
  /\ manager[m].node # 0
  /\ LET p == manager[m].node IN
       \/ /\ nodeStats' = nodeStats \cup
               {[node |-> ConfigNodes[p], place |-> p, minute |-> manager[m].minute,
                 count |-> manager[m].count, by |-> m, at |-> manager[m].summed]}
          /\ manager' = [manager EXCEPT ![m].nodes = @ \ {p}, ![m].node = 0]
          /\ UNCHANGED supervisionFaults
       \/ /\ SupervisionFault /\ UNCHANGED nodeStats
          /\ manager' = [manager EXCEPT ![m].nodes = {}, ![m].node = 0]
  /\ UNCHANGED lbLogs /\ monitorFrame

------------------------------------------------------------------------------
Registry(g) == FindManager(g) \/ MakeManager(g)

AlertChecks ==
  \/ \E m \in Managers : CheckAlerts(m) \/ CheckCondition(m) \/ ListAlerts(m) \/ CreateAlert(m)
  \/ AcknowledgeAlert
  \/ \E old \in DOMAIN alerts : DeleteOldAlerts(old)

Monitoring ==
  \/ \E g \in Getters, n \in Nodes, t \in 0 .. MaxClock : RecordRequest(g, n, t)
  \/ \E m \in Managers : ProcessLog(m) \/ PerformAggregation(m) \/ SumNode(m) \/ CreateNodeStats(m)

Lifecycle == StopAll \/ Restart \/ \E m \in Managers : Stopped(m)

------------------------------------------------------------------------------
\* Whatever requests race for the manager, and whatever restarts and nightly
\* clean-ups, an open alert is not raised again while it is open - as long as a
\* load balancer has no more conditions than the newest alerts a check looks at,
\* and no read has failed.
AlertsDistinct ==
  supervisionFaults = 0 /\ Cardinality(Nodes) + 3 <= AlertLimit =>
    \A i, j \in Unacknowledged : i # j => alerts[i].type # alerts[j].type

\* Whether the tick was taken in the minute it came in.
InTime(s) == s.minute = Minute(s.at)

\* No sum is above the requests logged in its minute.  And the aggregation, which
\* inserts without looking, sums a minute twice only for a configuration that is
\* listed twice, or when a tick is taken late: over racing requests, restarts and
\* failures, two ticks taken in time never sum the same minute of one place of
\* the list.
MinutesSummedOnce ==
  \A s \in nodeStats :
    /\ s.count <= Cardinality(Logged(s.node, s.minute))
    /\ \A o \in nodeStats :
         InTime(s) /\ InTime(o) /\ o.place = s.place /\ o.minute = s.minute => o = s
==================================================================================
