CONSTANTS
    q1 = q1  q2 = q2
    b1 = b1  b2 = b2
    Queues = {q1, q2}
    Buckets = {b1, b2}
    InitTables <- MCSharedTable
    MaxConcurrent = 1
    BufferCapacity = 7
    EpochNs = 2
    Latencies <- MCLatencies
    Loads <- PairLoads
    Pressures = {0, 2}
    TauHot = 1
    TauCold = 1
    EpochBins = 1
    NumEpochs = 3
    D_q = 2
SPECIFICATION FairSpecDelivery
INVARIANTS BufferAccounted PacketsConserved BufferMatchesHandoff OrderedInRing
PROPERTIES NoDeliveryInTransition CommitsInTime
