--------------------------- MODULE MCHealthChecker ---------------------------
\* An instance of HealthChecker for TLC.
EXTENDS HealthChecker, TLC

CONSTANTS m1, m2, c1, c2

MCManagers == {m1, m2}
MCChecks == {c1, c2}
MCOwner == c1 :> m1 @@ c2 :> m2
==============================================================================
