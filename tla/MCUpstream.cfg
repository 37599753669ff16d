SPECIFICATION FairSpec
CONSTANTS
    Setups <- MCSetups
    Refusals <- MCRefusals
    RetryCount = 3
    Max429 = 1
    BackoffBase = 1
    BackoffMax = 1
    Timeout = 2
    ConnectTimeout = 1
    HeaderTimeout = 3
    Max429Delay = 1
    StallTimeout = 1
    MaxStallRetries = 1
    MaxRetries <- MCMaxRetries
INVARIANTS EffortBounded AtMostOneLateCall
PROPERTIES AtLeastOneRetry RequestEnds
