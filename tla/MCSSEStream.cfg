SPECIFICATION FairSpec
CONSTANTS
  Calls <- MCCalls
  Chunks <- MCChunks
  MaxChunkErrors = 0
  MaxStallRetries = 1
  MaxChunks = 3
CHECK_DEADLOCK FALSE
INVARIANTS WireWellFormed StreamsComplete ArgumentsKeepUp
PROPERTIES StreamEnds
