\* Crashes, failed INSERTs and an overrun lock; no deletes.
CONSTANTS
    p1 = p1  p2 = p2
    m1 = m1  m2 = m2  m3 = m3
    d1 = d1  d2 = d2
    Procs = {p1, p2}
    Messages = {m1, m2}
    DelReqs = {}
    Target <- NoTarget
    Own <- NoOwn
    ServedBy <- FaultsServedBy
    Threshold = 2
    ChunkSize = 1
    CacheLimit = 1
    FaultKinds = {"dbError", "crash", "overrun"}
    MaxFaults = 1
SPECIFICATION Spec
INVARIANTS
    TypeOK
    SingleBatch
    NoLossWithoutFault
    SendLoggedOnce
PROPERTIES
    ImplementsLife
    EventuallyStored
