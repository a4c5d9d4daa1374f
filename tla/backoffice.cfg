\* Two rooms, processes and requests; a cache of three messages; five rows, two on a page.
CONSTANTS
    Rooms = {r1, r2}
    Processes = {p1, p2}
    Changed = {r2}
    Used = {r1}
    MaxFaults = 1
    NoRoom = NoRoom
    Requests = {q1, q2}
    None = None
    MaxTalk = 6
    KeptTalk = 3
    Enough = 2
    MergeAtMost = 3
    Wordless = {3, 4}
    Counters = {c1, c2}
    FirstLogs = 1
    MaxLogs = 3
    Passes <- MCPasses
    LogFilters = {"all", "odd"}
    StartRows = 5
    MaxRows = 6
    Line = 2
    Filters = {"all", "odd"}
    Matches <- MCPasses
SPECIFICATION Spec
INVARIANTS
    TypeOK
    SummaryLock
    
    RemovedRoomClean
    ImagesWhole
    ListExact
    CountFresh
PROPERTIES
    LiveRoomStays
    OldRoomsRemoved
CHECK_DEADLOCK FALSE
