\* Three requests of any kinds on one account and a second one to be created.
CONSTANTS
    Users = {u1, u2}
    Names = {n1, n2}
    Reqs = {r1, r2, r3}
    FirstSid = s0
    None = None
    Kinds = {"login", "logout", "visit", "update", "ban", "unban", "delete", "create"}
SPECIFICATION Spec
SYMMETRY Alike
INVARIANTS
    TypeOK
    FindableSession
    PutOutEndsSessions
    ProfileFresh
    NamesApart
PROPERTIES
    BanOnlyLifted
CHECK_DEADLOCK FALSE
