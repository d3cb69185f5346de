SPECIFICATION Spec
CONSTANTS
    w1 = w1
    w2 = w2
    Workers = {w1, w2}
    NoWorker = NoWorker
    i1 = i1
    i2 = i2
    Infs <- TwoInfs
    NameOf <- MCNameOf
    NoIf = NoIf
    NoName = NoName
    MaxBytes <- OneByte
    MaxTime = 2
    MaxBacks = 1
    MaxFaults = 2
    MaxRemovals = 1
    MaxEvents = 2
SYMMETRY
    MCSymmetry
INVARIANTS
    TypeOK
    CoveredOnce
    PointsAreOwn
CONSTRAINT BytesOrEvents
