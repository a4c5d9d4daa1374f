\* Two users join at once; there is one place.
CONSTANTS
    u1 = u1  u2 = u2
    s1 = s1  s2 = s2  s3 = s3
    Users = {u1, u2}
    Sockets = {s1, s2}
    UserOf <- TwoUsers
    Capacity = 1
    OpKinds = {}
    MaxOps = 0
SPECIFICATION Spec
INVARIANT
    CapacityRespected
CHECK_DEADLOCK FALSE
