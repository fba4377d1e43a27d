CONSTANTS
    q1 = q1  q2 = q2  q3 = q3
    b1 = b1  b2 = b2  b3 = b3
    Queues = {q1, q2, q3}
    Buckets = {b1, b2, b3}
    Weights = {0, 2, 5}
    Top = 2
    TauHot = 1
    TauCold = 1
    Tolerance = 20
    MaxMoves = 3
    SchedulerTypes <- Names
    Steps = 1
    Alpha = 1
    AlphaDen = 2
SPECIFICATION SpecAny
INVARIANTS GreedyTracksLoads NeverOverfilled OneMovePerQueue MovesReported
PROPERTY Terminates
