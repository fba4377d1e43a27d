CONSTANTS
    D_q = 2
    ServiceTimes <- MCServiceTimes
    TransitTimes <- MCTransitTimes
    TWb = 1
    BinNs = 3
    MaxBins = 3
    MaxPerBin = 3
    MaxRelease = 2
SPECIFICATION Spec
INVARIANTS CreditsConserved BinBalance
PROPERTY ImplementsRing
