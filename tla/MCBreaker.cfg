SPECIFICATION FairSpec
CONSTANTS
  c1 = c1
  c2 = c2
  Callers <- MCCallers
  Timeout = 1
  Window = 1
  HalfOpenRequests = 2
  RateNum = 1
  RateDen = 2
  MaxRecords = 1
  MaxFaults = 1
  MaxRestarts = 1
  MaxResets = 1
INVARIANTS OpenHasDeadline
PROPERTIES HalfOpenResolves
