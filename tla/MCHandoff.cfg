CONSTANTS
    q1 = q1  q2 = q2  q3 = q3  q4 = q4
    b1 = b1  b2 = b2  b3 = b3
    Queues = {q1, q2, q3, q4}
    Buckets = {b1, b2, b3}
    InitTables <- MCSharedTable
    MaxConcurrent = 2
    BufferCapacity = 4
    EpochNs = 2
    Latencies <- MCLatencies
    Loads <- NoLoads
    Pressures = {0, 1, 2}
    TauHot = 1
    TauCold = 1
    EpochBins = 1
    NumEpochs = 4
SPECIFICATION Spec
INVARIANTS FlagsExact DisjointHandoffs SourceStillOwner NeverRaises OnSchedule
PROPERTY ImplementsMigration
