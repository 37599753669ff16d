SPECIFICATION Spec
CONSTANTS
  r1 = r1  r2 = r2  r3 = r3  w = w  adm = adm  a1 = a1  a2 = a2
  requests = requests  toks = toks  k1 = k1  k2 = k2  k3 = k3  T = T
  None = None  Never = Never
  Requests <- MCRequests
  KeyOf <- MCKeyOf
  CounterIds = {1, 2, 3, 4}
  Second = 2
  CleanAge = 4
  Lag = 1
  MaxTime = 6
  Users <- MCUsers
  QuotaIds <- MCQuotaIds
  Days <- Daily
  Estimate <- MCEstimate
  Increment <- MCIncrement
  Pool = {1, 2, 3, 4, 5, 6}
  MaxDay = 2
  MaxDbFaults = 1
  Admins = {a1, a2}
  Rules <- MCRules
  MaxIpFaults = 1
  KeyIds = {k1, k2, k3}
  FirstKey = k1
  Grace = 1
  MaxKeyTime = 3
  MaxKeyFaults = 1
  Worker = w
  Administrator = adm
  Tenant = T
  IpOf <- MCIpOf
  Setups <- MCSetups
CHECK_DEADLOCK FALSE
SYMMETRY Symmetry
INVARIANTS WindowBounded QuotasHold RulesInForce AlwaysAKey
PROPERTIES RetryAfterKept RefusalJustified
