SPECIFICATION Spec
CONSTANTS
    t1 = t1
    u1 = u1
    t2 = t2
    ns1 = ns1
    ns2 = ns2
    k1 = k1
    k2 = k2
    Targets = {t1, u1, t2}
    Namespaces = {ns1, ns2}
    NsOf <- MCNsOf
    Keys = {k1, k2}
    KeyOf <- MCKeyOf
    NoTarget = NoTarget
    Slots = {1, 2}
    MaxJobs = 2
    MaxEdits = 1
    MaxFaults = 1
    PromptRun = TRUE
INVARIANTS
    TypeOK
    OneWorkerPerKey
    TableIsLive
PROPERTIES
    StoppedWorkerEnds
    TableConverges
    SteadyKeepsWorker
