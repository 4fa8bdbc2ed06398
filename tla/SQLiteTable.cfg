SPECIFICATION Spec
CONSTANTS
    Rows = {r1, r2}
    Vals = {v1, v2}
    NoVal = NoVal
    Threads = {t1, t2}
    NoThread = NoThread
    Conditional = FALSE
    Buffered = FALSE
    RawDeletes = TRUE
    MaxStatements = 3
    MaxTicks = 0
    MaxFailures = 1
CHECK_DEADLOCK FALSE
INVARIANTS
    TypeOK
    EnvMirrorsDb
PROPERTY ImplementsMirror
