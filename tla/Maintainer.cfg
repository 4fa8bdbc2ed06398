SPECIFICATION FairSpec
CONSTANTS
    Rows = {r1}
    Vals = {v1, v2}
    NoVal = NoVal
    Threads = {t1, t2}
    NoThread = NoThread
    Conditional = TRUE
    Buffered = FALSE
    RawDeletes = FALSE
    MaxStatements = 3
    MaxTicks = 1
    MaxFailures = 0
CHECK_DEADLOCK FALSE
PROPERTIES
    MaintainerRepairs
    OutdatedObjectsLeave
    DeletedObjectsLeave
