SPECIFICATION SerialSpec
CONSTANTS
  c1 = c1
  c2 = c2
  Callers <- MCCallers
  Timeout = 2
  Window = 2
  HalfOpenRequests = 2
  RateNum = 1
  RateDen = 2
  MaxRecords = 3
  MaxFaults = 0
  MaxRestarts = 2
  MaxResets = 2
PROPERTIES ImplementsTextbook
