\* Two windows of a user, and every operation that puts users out.
CONSTANTS
    u1 = u1  u2 = u2
    s1 = s1  s2 = s2  s3 = s3
    Users = {u1}
    Sockets = {s1, s2}
    UserOf <- TwoWindows
    Capacity = 2
    OpKinds = {"kick", "ban", "leaveAll", "deleteRoom", "expiry"}
    MaxOps = 1
SPECIFICATION Spec
INVARIANTS
    TypeOK
    PresenceExact
    PutOutStaysOut
    PresentFindable
    MembersIndexed
CHECK_DEADLOCK FALSE
