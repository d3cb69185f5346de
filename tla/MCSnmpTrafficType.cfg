SPECIFICATION Spec
CONSTANTS
    w1 = w1
    w2 = w2
    Workers = {w1}
    NoWorker = NoWorker
    i1 = i1
    i2 = i2
    Infs <- OneInf
    NameOf <- MCNameOf
    NoIf = NoIf
    NoName = NoName
    MaxBytes <- TwoBytes
    MaxTime = 3
    MaxBacks = 0
    MaxFaults = 0
    MaxRemovals = 0
    MaxEvents = 0
INVARIANTS
    PointsAreTraffic
