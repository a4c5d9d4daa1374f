\* Four messages, none, two or three of them there at first; the third may be deleted;
\* pages and cache hold two, the list three;
\* two users and two handlers of their room; one window with two requests at once.
CONSTANTS
    MaxPosted = 4
    Deletable = {3}
    Held = {0, 2, 3}
    PageSize = 2
    CacheSize = 2
    HalfSize = 1
    SearchSize = 2
    ViewLimit = 3
    MaxLost = 1
    q1 = q1
    q2 = q2
    Queries = {q1, q2}
    HasWord <- MCHasWord
    TableHasWord <- MCTableHasWord
    Rounded <- MCRounded
    Slots = {s1, s2}
    People = {u1, u2}
    RoomOwner = u1
    Workers = {h1, h2}
    MaxMail = 2
    Calls = {k1, k2}
    MaxLogins = 2
SPECIFICATION Spec
SYMMETRY Alike
INVARIANTS
    TypeOK
    
    
    
    
    
    MembersListed
    SignedInShown
CHECK_DEADLOCK FALSE
