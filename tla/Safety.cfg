SPECIFICATION Spec
CONSTANTS
    Rows = {1}
    Vals = {v1}
    NoVal = NoVal
    Slaves = {s1}
    NoSlave = NoSlave
    Writers = {w1, w2}
    TableOf <- OneTable
    MaxQueriesNumber = 2
    Multimaster = FALSE
    ForceDump = FALSE
    MaxWrites = 2
    MaxBreaks = 1
    MaxImports = 0
    MaxFaults = 1
    MaxIncidents = 1
INVARIANT TypeOK
INVARIANT FreshIds
INVARIANT FollowedRowsConverge
SYMMETRY WriterSymmetry
CHECK_DEADLOCK FALSE
