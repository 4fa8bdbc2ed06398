SPECIFICATION Spec
CONSTANTS
    Rows = {1, 2}
    Vals = {v1}
    NoVal = NoVal
    Slaves = {s1}
    NoSlave = NoSlave
    Writers = {w1}
    TableOf <- TableOfEachRow
    MaxQueriesNumber = 2
    Multimaster = TRUE
    ForceDump = FALSE
    MaxWrites = 1
    MaxBreaks = 1
    MaxImports = 1
    MaxFaults = 1
    MaxIncidents = 1
INVARIANT FollowedRowsConverge
CHECK_DEADLOCK FALSE
