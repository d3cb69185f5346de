SPECIFICATION Spec
CONSTANTS
    A = A
    B = B
    C = C
    v1 = v1
    v2 = v2
    f1 = f1
    m1 = m1
    m2 = m2
    mc = mc
    Addrs = {A, B, C}
    Versions = {v1}
    Foreign = {f1}
    NoAddr = NoAddr
    Garbage = {A, B, NoAddr}
    BadAddrs = {C}
    Uncreatable = {}
    Machines = {m1, m2, mc}
    AddrOf <- MCAddrOf
    Lists <- OneListBad
    NumberOfReplicas = 2
    PointHash <- MCPointHash
    NameHash <- MCNameHash
    Budget <- BudgetFixed
    MaxPending = 2
PROPERTIES
    ImplementsAlarmSync
