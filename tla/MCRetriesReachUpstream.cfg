SPECIFICATION Spec
CONSTANTS
  n1 = n1
  n2 = n2
  r1 = r1
  r2 = r2
  Nodes <- MCNodes
  NodeOrder <- MCNodeOrder
  Requests <- MCOneRequest
  Weight <- MCWeight
  Strategy = "weighted"
  MaxRetries = 1
  Timeout = 1
  HalfOpenRequests = 2
  Wrap = 2
  MaxLost = 1
INVARIANTS RetriesReachUpstream
