---------------------------- MODULE HealthChecker ----------------------------
(***************************************************************************)
(* DefaultHealthChecker (handler/health_checker.go) for one upstream       *)
(* configuration, and the row of health_statuses it keeps in SQLite        *)
(* (database/health_status.go).                                            *)
(*                                                                         *)
(* The row belongs to the configuration, the checkers to load balancer     *)
(* managers: two load balancers that share a node check it independently,  *)
(* and each check is a goroutine of its own that reads the row, changes    *)
(* it and writes it back whole.  Nothing orders these checks.              *)
(*                                                                         *)
(* The consecutive counts are only ever compared with their thresholds, so *)
(* they stop there.  The last error and the response time are left out.    *)
(***************************************************************************)
EXTENDS Integers

CONSTANTS
    Managers,           \* load balancer managers with this node
    Checks,             \* goroutines that may run CheckNode at a time
    Owner,              \* the manager whose context each of them runs under
    FailureThreshold,   \* hc.failureThreshold
    RecoveryThreshold,  \* hc.recoveryThreshold
    MaxFaults,          \* bound: SQL statements that fail
    MaxRestarts         \* bound: restarts of the process

ASSUME HealthAssumption ==
    /\ Owner \in [Checks -> Managers]
    /\ FailureThreshold \in Nat \ {0} /\ RecoveryThreshold \in Nat \ {0}
    /\ MaxFaults \in Nat /\ MaxRestarts \in Nat

VARIABLES
    up,                 \* whether the upstream answers a HEAD request in time
    row,                \* the row of the configuration, or NoRow
    manager,            \* each manager: where its check loop is
    check,              \* each CheckNode: where it is, and its local variables
    faults, restarts    \* how much of each bound is used

bounds == <<faults, restarts>>
healthVars == <<up, row, manager, check, faults, restarts>>
-------------------------------------------------------------------------------
Row(s, good, bad) == [status |-> s, successes |-> good, failures |-> bad]

NoRow == Row("none", 0, 0)
Unknown == Row("unknown", 0, 0)

Rows == [status : {"healthy", "unhealthy"},
         successes : 0..RecoveryThreshold, failures : 0..FailureThreshold]

ManagerStates == {"absent", "running", "stopping", "stopped"}
ChecksOf == [pc : {"idle", "probe", "read", "write"},
             ok : BOOLEAN,                 \* checkErr == nil
             seen : Rows \cup {Unknown}]   \* currentStatus

IdleCheck == [pc |-> "idle", ok |-> TRUE, seen |-> Unknown]

\* n + 1, up to the threshold it is compared with.
Bumped(n, threshold) == IF n < threshold THEN n + 1 ELSE threshold

HealthInit ==
    /\ up \in BOOLEAN
    /\ row = NoRow
    /\ manager = [m \in Managers |-> "absent"]
    /\ check = [c \in Checks |-> IdleCheck]
    /\ faults = 0 /\ restarts = 0

SqlFails ==
    /\ faults < MaxFaults
    /\ faults' = faults + 1
    /\ UNCHANGED <<row, restarts>>

SqlReads == row # NoRow /\ UNCHANGED <<row, bounds>>
NotFound == row = NoRow /\ UNCHANGED <<row, bounds>>
SqlWrites(r) == row' = r /\ UNCHANGED bounds

CheckAt(c, label) == check[c].pc = label
CheckBecomes(c, v) == check' = [check EXCEPT ![c] = v]
-------------------------------------------------------------------------------
(* The managers.  The first request for a load balancer creates and starts *)
(* its manager; one that has been stopped stays in the registry.           *)

Start(m) ==
    /\ manager[m] = "absent"
    /\ manager' = [manager EXCEPT ![m] = "running"]
    /\ UNCHANGED <<up, row, check, bounds>>

\* Stop cancels the context and waits for the loop, not for its checks.
Stop(m) ==
    /\ manager[m] = "running"
    /\ manager' = [manager EXCEPT ![m] = "stopping"]
    /\ UNCHANGED <<up, row, check, bounds>>

LoopEnds(m) ==
    /\ manager[m] = "stopping"
    /\ manager' = [manager EXCEPT ![m] = "stopped"]
    /\ UNCHANGED <<up, row, check, bounds>>

\* The first round of a loop, or one of its ticks.  A tick may still win
\* against the cancelled context.
CheckAllNodes(c) ==
    /\ manager[Owner[c]] \in {"running", "stopping"}
    /\ CheckAt(c, "idle")
    /\ CheckBecomes(c, [IdleCheck EXCEPT !.pc = "probe"])
    /\ UNCHANGED <<up, row, manager, bounds>>
-------------------------------------------------------------------------------
(* CheckNode                                                               *)

\* The configuration cannot be read: the check ends there.
GetConfigFails(c) ==
    /\ CheckAt(c, "probe")
    /\ SqlFails
    /\ CheckBecomes(c, IdleCheck)
    /\ UNCHANGED <<up, manager>>

\* A request under a cancelled context fails, whatever the upstream.
PerformHealthCheck(c) ==
    /\ CheckAt(c, "probe")
    /\ CheckBecomes(c, [check[c] EXCEPT !.ok = up /\ manager[Owner[c]] = "running",
                                   !.pc = "read"])
    /\ UNCHANGED <<up, row, manager, bounds>>

\* Mutant: the error of the read takes the place of the check's own.
GetStatusSwallowing(c) ==
    LET see(r, result) ==
            CheckBecomes(c, [check[c] EXCEPT !.seen = r, !.ok = result, !.pc = "write"])
    IN  /\ CheckAt(c, "read")
        /\ \/ SqlReads /\ see(row, TRUE)
           \/ (NotFound \/ SqlFails) /\ see(Unknown, FALSE)
        /\ UNCHANGED <<up, manager>>

\* Any error of the read is taken for a missing row.
GetStatus(c) ==
    LET see(r) == CheckBecomes(c, [check[c] EXCEPT !.seen = r, !.pc = "write"])
    IN  /\ CheckAt(c, "read")
        /\ \/ SqlReads /\ see(row)
           \/ (NotFound \/ SqlFails) /\ see(Unknown)
        /\ UNCHANGED <<up, manager>>

\* Mutant: a success leaves the count of failures alone.
JudgedOnBalance(r, ok) ==
    IF ok
    THEN LET good == Bumped(r.successes, RecoveryThreshold)
         IN  Row(IF r.status = "unknown" \/ good = RecoveryThreshold
                 THEN "healthy" ELSE r.status, good, r.failures)
    ELSE LET bad == Bumped(r.failures, FailureThreshold)
         IN  Row(IF r.status = "unknown" \/ bad = FailureThreshold
                 THEN "unhealthy" ELSE r.status, 0, bad)

\* The row after one more result.  An unknown status takes the first result.
RowAfter(r, ok) ==
    IF ok
    THEN LET good == Bumped(r.successes, RecoveryThreshold)
         IN  Row(IF r.status = "unknown" \/ good = RecoveryThreshold
                 THEN "healthy" ELSE r.status, good, 0)
    ELSE LET bad == Bumped(r.failures, FailureThreshold)
         IN  Row(IF r.status = "unknown" \/ bad = FailureThreshold
                 THEN "unhealthy" ELSE r.status, 0, bad)

UpdateStatus(c) ==
    /\ CheckAt(c, "write")
    /\ SqlWrites(RowAfter(check[c].seen, check[c].ok)) \/ SqlFails
    /\ CheckBecomes(c, IdleCheck)
    /\ UNCHANGED <<up, manager>>

CheckNode(c) ==
    GetConfigFails(c) \/ PerformHealthCheck(c) \/ GetStatus(c) \/ UpdateStatus(c)
-------------------------------------------------------------------------------
\* The environment: the upstream fails or recovers; the process dies and
\* starts again with only the row left.
UpstreamTurns ==
    /\ up' = ~up
    /\ UNCHANGED <<row, manager, check, bounds>>

Restart ==
    /\ restarts < MaxRestarts
    /\ restarts' = restarts + 1
    /\ manager' = [m \in Managers |-> "absent"]
    /\ check' = [c \in Checks |-> IdleCheck]
    /\ UNCHANGED <<up, row, faults>>

HealthNext ==
    \/ \E m \in Managers : Start(m) \/ Stop(m) \/ LoopEnds(m)
    \/ \E c \in Checks : CheckAllNodes(c) \/ CheckNode(c)
    \/ UpstreamTurns \/ Restart

HealthSpec == HealthInit /\ [][HealthNext]_healthVars

\* Checks go on (a request has a timeout), tickers tick, and a loop sees that
\* its context is cancelled.  Nothing else has to happen.
HealthFairness ==
    /\ \A c \in Checks : WF_healthVars(CheckNode(c)) /\ WF_healthVars(CheckAllNodes(c))
    /\ \A m \in Managers : WF_healthVars(LoopEnds(m))

FairHealthSpec == HealthSpec /\ HealthFairness
-------------------------------------------------------------------------------
(* Properties                                                              *)

HealthTypeOK ==
    /\ up \in BOOLEAN
    /\ row \in Rows \cup {NoRow}
    /\ manager \in [Managers -> ManagerStates]
    /\ check \in [Checks -> ChecksOf]
    /\ faults \in 0..MaxFaults /\ restarts \in 0..MaxRestarts

\* One run of results ends where the other begins, and a node is only kept
\* in (or out) while the results against it are short of their threshold,
\* whichever stale rows overlapping checks write back.
Coherent(r) ==
    /\ r.successes = 0 \/ r.failures = 0
    /\ r.status = "healthy" => r.failures < FailureThreshold
    /\ r.status = "unhealthy" => r.successes < RecoveryThreshold

StatusMatchesCounts == Coherent(row)

\* The selector believes the row.  While the checks of some manager go on, an
\* upstream that stays down is taken out for good and one that stays up is
\* brought back for good, although checks of both managers, old and new,
\* overwrite each other's counts, and checks of a manager that is being
\* stopped blame the upstream for it.
Checked == \E c \in Checks : manager[Owner[c]] = "running"

DownIsNoticed == (<>[]~up /\ <>[]Checked) => <>[](row.status = "unhealthy")
UpIsNoticed == (<>[]up /\ <>[]Checked) => <>[](row.status = "healthy")

\* A lasting change of the upstream, either way, is noticed for good.
ChangesAreNoticed == DownIsNoticed /\ UpIsNoticed
===============================================================================
