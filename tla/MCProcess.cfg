SPECIFICATION Spec
CONSTANTS
    p1 = p1
    p2 = p2
    o1 = o1
    o2 = o2
    Pids = {p1, p2}
    NoPid = NoPid
    Operators = {o1, o2}
INVARIANTS
    TypeOK
    OneAdapter
    CanBeStopped
PROPERTIES
    StopEndsAdapter
