SPECIFICATION FairSpec
CONSTANTS
    r1 = r1
    r2 = r2
    r3 = r3
    w1 = w1
    w2 = w2
    Records <- MCRecords
    Kinds <- MCKinds
    Workers <- MCWorkers
    TheWorker = w1
    Capacity = 1
    BatchSize = 2
    MaxFaults = 2
CHECK_DEADLOCK FALSE
INVARIANTS EveryRecordOnce StoppedMeansFlushed
PROPERTIES StopsAndWrites
