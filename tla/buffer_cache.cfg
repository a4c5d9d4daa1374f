\* One deleteMessage and three messages through a cache of two.
CONSTANTS
    p1 = p1  p2 = p2
    m1 = m1  m2 = m2  m3 = m3
    d1 = d1  d2 = d2
    Procs = {p1}
    Messages = {m1, m2, m3}
    DelReqs = {d1}
    Target <- CacheTarget
    Own <- CacheOwn
    ServedBy <- CacheServedBy
    Threshold = 3
    ChunkSize = 3
    CacheLimit = 2
    FaultKinds = {}
    MaxFaults = 0
SPECIFICATION Spec
INVARIANT
    CacheKeepsNewest
