SPECIFICATION FairHealthSpec
CONSTANTS
  m1 = m1
  m2 = m2
  c1 = c1
  c2 = c2
  Managers <- MCManagers
  Checks <- MCChecks
  Owner <- MCOwner
  FailureThreshold = 3
  RecoveryThreshold = 2
  MaxFaults = 1
  MaxRestarts = 1
INVARIANTS StatusMatchesCounts
PROPERTIES ChangesAreNoticed
