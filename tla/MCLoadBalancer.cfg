SPECIFICATION FairSpec
CONSTANTS
  n1 = n1
  n2 = n2
  r1 = r1
  r2 = r2
  Nodes <- MCNodes
  NodeOrder <- MCNodeOrder
  Requests <- MCRequests
  Weight <- MCWeight
  Strategy = "least_connections"
  MaxRetries = 1
  Timeout = 1
  HalfOpenRequests = 1
  Wrap = 2
  MaxLost = 1
INVARIANTS ConnectionAccounting
PROPERTIES  RequestsEnd
