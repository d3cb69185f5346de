SPECIFICATION Spec
CONSTANTS
    A = A
    B = B
    C = C
    v1 = v1
    v2 = v2
    f1 = f1
    m1 = m1
    m2 = m2
    mc = mc
    Addrs = {A, B}
    Versions = {v1}
    Foreign = {}
    NoAddr = NoAddr
    Garbage = {NoAddr}
    BadAddrs = {}
    Uncreatable = {}
    Machines = {m1, m2}
    AddrOf <- MCAddrOf
    Lists <- OneList
    NumberOfReplicas = 2
    PointHash <- MCPointHash
    NameHash <- MCNameHash
    Budget <- BudgetEdit
    MaxPending = 1
PROPERTIES
    RemovedAlarmsEnd
