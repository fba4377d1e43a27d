CONSTANTS
    q1 = q1  q2 = q2  b1 = b1  b2 = b2
    Domains = {"stateless", "stateful"}
    Sizes = {1, 2}
    TicksPerByte = 1
    FifoBytes = 2
    Setup = 1
    MaxTime = 12
    MaxPkts = 20
    Queues <- MCQueues
    Buckets <- MCBuckets
    D_q <- MCRings
    ServiceTimes <- MCServiceTimes
    T_dma <- MCTransits
    TWb = 1
    BinNs = 3
    EpochBins <- MCEpochBins
    NumEpochs <- MCNumEpochs
    InitTables <- MCTables
    Batches <- MCBatches
    LinkModes = {TRUE, FALSE}
    arb <- MCArbiter
    Weight <- MCWeight
    MaxConcurrent = 1
    BufferCapacity = 2
    MaxUndone = 0
SPECIFICATION SpecPath
INVARIANTS LinkSound EachPacketOnce GrowthMatches PressureUnclipped RowsMeaningful
PROPERTIES AdvanceInvisible QueuesArePipelines
