SPECIFICATION Spec
CONSTANTS
    l1 = l1
    l2 = l2
    w1 = w1
    w2 = w2
    c1 = c1
    c2 = c2
    ca = ca
    cb = cb
    lb = lb
    f1 = f1
    f2 = f2
    t1 = t1
    t2 = t2
    u1 = u1
    ad1 = ad1
    ad2 = ad2
    s1 = s1
    s2 = s2
    na = na
    nb = nb
    r1 = r1
    r2 = r2
    m1 = m1
    m2 = m2
    g1 = g1
    g2 = g2
    n1 = n1
    LogIds = {l1, l2}
    LegacyLogs = {l1}
    Kinds = {"req", "resp"}
    LogWorkers = {w1, w2}
    Cleaners = {c1, c2}
    RetentionDays = 2
    Zone <- West
    MaxTick = 7
    MaxLogFaults = 1
    Null = Null
    Empty = Empty
    Nothing = Nothing
    Configs = {ca, cb}
    Balancers = {lb}
    Generated = {f1, f2}
    ConfigTokens = {t1}
    BalancerTokens = {t1, t2}
    BodyKeys = {f2}
    Clients = {u1}
    Administrators = {ad1, ad2}
    TTL = 1
    MaxEntries = 1
    Lag = 1
    MaxTime = 3
    MaxVersion = 2
    NoKey = NoKey
    Absent = Absent
    SessionIds = {s1, s2}
    SessionConfigs = {na, nb}
    Requests = {r1, r2}
    MaxTurns = 3
    MaxSessionFaults = 1
    NoSession = NoSession
    Managers = {m1, m2}
    Getters = {g1, g2}
    Nodes = {n1}
    ConfigNodes <- MCNodes
    AlertLimit = 4
    QueueSize = 1
    MaxClock = 4
    MaxLbLogs = 2
    MaxAlerts = 3
    MaxSupervisionFaults = 1
    NoManager = NoManager
SYMMETRY Symmetry
INVARIANTS BodiesKept StatsConserved LookupsRecent KeysFollowed
           SessionsHold AlertsDistinct MinutesSummedOnce
CHECK_DEADLOCK FALSE
