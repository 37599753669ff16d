------------------------------- MODULE Persistence -------------------------------
(***************************************************************************)
(* What the server keeps in its database while it serves requests, and     *)
(* what it holds of it in memory: the log of requests (LogStore), the      *)
(* configurations behind the clients' keys (ConfigStore), conversation     *)
(* sessions (Sessions), alerts and statistics of load balancers            *)
(* (Supervision).  The parts share no row, so that a behaviour is of one   *)
(* of them at a time; "part" says which, and how far its calls overlap.    *)
(***************************************************************************)
EXTENDS LogStore, ConfigStore, Sessions, Supervision

VARIABLE part

persistenceVars == <<part, logVars, configVars, sessionVars, supervisionVars>>

\* Whether calls do not overlap in this behaviour.
Serial == part \in {"keys one at a time", "balancers one at a time", "sessions one at a time"}

PersistenceInit ==
  /\ part \in {"logging", "retention", "cleanups overlap", "keys", "keys one at a time", "balancers one at a time",
               "sessions", "sessions one at a time", "alerts", "statistics"}
  /\ LogInit(IF part \in {"retention", "cleanups overlap"} THEN LegacyLogs ELSE {},
             part \in {"logging", "retention", "cleanups overlap"})
  /\ ConfigInit /\ SessionsInit /\ SupervisionInit

\* Several workers log; within a day, with and without body files.
Logging ==
  /\ part = "logging"
  /\ \/ \E w \in LogWorkers, toFile \in BOOLEAN : LogWorker(w, toFile)
     \/ Today = Day(FirstTick) /\ LogTick
  /\ UNCHANGED <<part, configVars, sessionVars, supervisionVars>>

\* One worker logs while cleanups run, over days and crashes: one cleanup at a
\* time, or several within the first day.
Retention ==
  /\ part \in {"retention", "cleanups overlap"}
  /\ \/ LogWorker(CHOOSE w \in LogWorkers : TRUE, TRUE)
     \/ \E c \in Cleaners :
          /\ part = "retention" => \A d \in Cleaners \ {c} : writer[d].pc = "idle"
          /\ Cleaner(c)
     \/ (part = "retention" \/ tick = FirstTick) /\ LogTick
     \/ DeleteConfigLogs \/ LogCrash
  /\ UNCHANGED <<part, configVars, sessionVars, supervisionVars>>

\* Requests look up keys while administrators change configurations: one
\* configuration by several of them at a time, or two (or one and a load
\* balancer) call by call.
AConfig == CHOOSE i \in Configs : TRUE
Subjects == IF part = "keys one at a time" THEN Configs ELSE {AConfig}
InFront  == IF part = "balancers one at a time" THEN Balancers ELSE {}

Keyed ==
  /\ part \in {"keys", "keys one at a time", "balancers one at a time"}
  /\ \/ (Serial => NobodyBusy /\ time < 2) /\ ConfigTick
     \/ cleanupExpired
     \/ \E c \in Clients : /\ Serial /\ job[c].pc = "idle" => NobodyBusy
                           /\ Client(c)
     \/ \E u \in Administrators :
          \/ (Serial => NobodyBusy) /\ Begins(u, Subjects, InFront)
          \/ GoesOn(u)
  /\ UNCHANGED <<part, logVars, sessionVars, supervisionVars>>

\* Requests of a session overlap (with one attempt fewer) or not.
Conversing ==
  /\ part \in {"sessions", "sessions one at a time"}
  /\ \E r \in Requests :
       \/ /\ IF Serial THEN request[r].pc = "free" => NobodyServed ELSE turns < MaxTurns - 1
          /\ Begin(r)
       \/ Proceed(r)
  /\ UNCHANGED <<part, logVars, configVars, supervisionVars>>

\* Requests race for the manager of their load balancer, which checks alerts ...
Alerting ==
  /\ part = "alerts"
  /\ \/ \E g \in Getters : Registry(g)
     \/ clock < 2 /\ ClockTick
     \/ AlertChecks \/ Lifecycle
  /\ UNCHANGED <<part, logVars, configVars, sessionVars>>

\* ... or logs and sums up the requests.
Summing ==
  /\ part = "statistics"
  /\ \/ \E g \in Getters : Registry(g)
     \/ ClockTick \/ Monitoring \/ Lifecycle
  /\ UNCHANGED <<part, logVars, configVars, sessionVars>>

PersistenceNext == Logging \/ Retention \/ Keyed \/ Conversing \/ Alerting \/ Summing

Spec == PersistenceInit /\ [][PersistenceNext]_persistenceVars

------------------------------------------------------------------------------
TypeOK ==
  /\ tick \in FirstTick .. MaxTick /\ logFaults \in 0 .. MaxLogFaults
  /\ counted \subseteq logged /\ logged \subseteq LogIds
  /\ time \in 0 .. MaxTime /\ made \subseteq Generated /\ dropped \subseteq Keys
  /\ \A i \in Configs : config[i] # Absent =>
       config[i].key \in Keys /\ config[i].version \in Versions
  /\ Cardinality(Cached) <= MaxEntries
  /\ turns \in 0 .. MaxTurns /\ sessionFaults \in 0 .. MaxSessionFaults
  /\ clock \in 0 .. MaxClock /\ registered \in Managers \cup {NoManager}
  /\ \A m \in Managers : Len(manager[m].queue) <= QueueSize

\* The bodies of kept rows are there, and stay there when cleanups overlap unless
\* a statement fails.
BodiesKept ==
  /\ part # "cleanups overlap" => KeptBodiesReadable
  /\ logFaults = 0 => KeptUnlessRewritten

\* ServedIsRecent, with the types of all parts.
LookupsRecent == TypeOK /\ ServedIsRecent

\* A key leads to its row as it is, when calls do not overlap.
KeysFollowed == Serial => KeysLeadHome

\* Sessions: the counters and the order of messages, exact when requests do not
\* overlap.
SessionsHold == CountersNeverLead /\ TurnsInOrder /\ (Serial => CountersExact)
==================================================================================
