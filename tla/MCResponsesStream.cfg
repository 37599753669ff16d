SPECIFICATION FairSpec
CONSTANTS
    Setups <- MCSetups
    MaxCalls = 2
    Pieces = 1
    MaxTexts = 1
    MaxNoise = 1
    MaxInFlight = 1
    MaxMalformed = 0
    MaxStallRetries = 1
CHECK_DEADLOCK FALSE
INVARIANTS WireOrder CutIsReported CallsIntact
PROPERTIES EverybodyEnds
