SPECIFICATION Spec
CONSTANTS
    Convs <- MCConvs
    Setups <- MCSetups
    Openers <- MCOpeners
    Replies <- MCReplies
    MaxTurns = 2
    CacheSize = 2
CHECK_DEADLOCK FALSE
INVARIANTS  EverythingDelivered ItemProtocol
PROPERTIES SignaturesRestored
