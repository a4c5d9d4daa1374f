\* Two numbered workers, three ids a millisecond, a clock set back once.
CONSTANTS
    p1 = p1  p2 = p2
    Procs = {p1, p2}
    WorkerId <- Numbered
    SeqLimit = 3
    MaxTime = 3
    MaxIds = 6
    MaxSlips = 1
SPECIFICATION Spec
INVARIANT
    IdsIncrease
CHECK_DEADLOCK FALSE
