SPECIFICATION Spec
CONSTANTS
    s1 = s1
    s2 = s2
    s3 = s3
    n1 = n1
    n2 = n2
    n3 = n3
    n4 = n4
    Addrs <- MCAddrs
    Versions <- MCVersions
    NumberOfReplicas = 2
    PointHash <- MCPointHash
    NameHash <- MCNameHash
    CarefulCallers = TRUE
    EltLists <- MCEltLists
    RequestSizes <- MCRequestSizes
    MaxCount = 3
INVARIANTS
    TypeOK
    RingIsItsMembers
    GetIsOwner
    WalksFindTheClosest
PROPERTIES
    MinimalDisruption
    WalksEnd
