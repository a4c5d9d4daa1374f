\* A jump, then one page of newer messages.
CONSTANTS
    MaxPosted = 6
    Deletable = {}
    Held = {2}
    PageSize = 2
    CacheSize = 2
    HalfSize = 1
    SearchSize = 2
    ViewLimit = 4
    MaxLost = 0
    q1 = q1
    q2 = q2
    Queries = {q1, q2}
    HasWord <- MCHasWord
    TableHasWord <- MCTableHasWord
    Rounded <- MCRounded
    Slots = {s1}
    People = {u1}
    RoomOwner = u1
    Workers = {h1}
    MaxMail = 2
    Calls = {k1}
    MaxLogins = 2
SPECIFICATION Spec
INVARIANTS
    NewestReachable
CHECK_DEADLOCK FALSE
