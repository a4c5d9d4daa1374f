\* deleteMessage against running batches, with a failed transaction.
CONSTANTS
    p1 = p1  p2 = p2
    m1 = m1  m2 = m2  m3 = m3
    d1 = d1  d2 = d2
    Procs = {p1}
    Messages = {m1, m2}
    DelReqs = {d1, d2}
    Target <- DeletesTarget
    Own <- DeletesOwn
    ServedBy <- DeletesServedBy
    Threshold = 2
    ChunkSize = 2
    CacheLimit = 1
    FaultKinds = {"dbError"}
    MaxFaults = 1
SPECIFICATION Spec
INVARIANTS
    DeletionReachesDb
    DeletionLogged
    OnlyOwnDeletes
PROPERTIES
    LifeInOrder
    MissesOnlyInBatch
