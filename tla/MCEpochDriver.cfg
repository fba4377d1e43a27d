CONSTANTS
    Configs <- MCConfigs
    DeltaNs = 10
    PSteps = 4
    RFull = 8
    Alpha = 1
    AlphaDen = 3
SPECIFICATION Spec
INVARIANTS IndexInRange EpochComplete DropsAccounted WindowsAligned RiskSound
