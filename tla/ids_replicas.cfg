\* The deployment: two replicas, both worker 00, an ordinary clock.
CONSTANTS
    p1 = p1  p2 = p2
    Procs = {p1, p2}
    WorkerId <- Deployed
    SeqLimit = 3
    MaxTime = 2
    MaxIds = 3
    MaxSlips = 0
SPECIFICATION Spec
INVARIANT
    IdsUnique
CHECK_DEADLOCK FALSE
