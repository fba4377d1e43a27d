CONSTANTS
    Grain = 2
    DeltaBin = 3
    MyBins = 3
    Mtu = 4
    MinBytes = 2
    MaxBytes = 8
    NsPerByte = 1
    Sources = {"hal_composite"}
    MaxFlows <- MCMaxFlows
    MaxMsgs = 2
    Arrivals = {0, 5, 15}
    Phases = {1, 2}
    Sizes = {3, 11, 40}
    Thinks = {1, 5}
    Elephants = 1
    Interval = 8
    OnInterval = 4
    Jitters <- MCJitters
    OnTimes = {6, 14}
    OffTimes = {3}
    Iat = 4
    PktSizes = {1, 4}
    Classes <- MCClasses
    RateUpdate = 6
    RawRates = {1, 4}
    LinkRate = 3
    Tenants = 1
    FlowSizes = {4}
    FlowRates = {1, 3}
    FlowDurations = {1, 7}
    RateFloor = 1
    RateCap = 2
    MaxSpawn = 2
    MaxAlive = 3
    AllBins = 5
    EpochBins = 1
    ShiftPeriod = 1
    Addrs = {0}
    Ports = {0, 1}
    PortOf <- MCPortOf
    BucketOf <- MCBucketOf
SPECIFICATION Spec
INVARIANT RealisedWithinTarget
