SPECIFICATION Spec
CONSTANTS
    Roles = {r1}
    Drafts <- MCDrafts
    Buffer = 2
    MaxBatch = 2
    MaxEmits = 3
    Pages = {p1}
    HistoryCap = 1
    SubCap = 1
    MaxFaults = 1
INVARIANTS
    EventsAccounted
    CloseFlushes
    NoWakeUpLost
    StreamIsContiguous
    HolesAreReported
CHECK_DEADLOCK FALSE
PROPERTIES
    ImplementsFeed
