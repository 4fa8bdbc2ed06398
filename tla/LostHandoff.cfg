SPECIFICATION FairSpec
CONSTANTS
    Rows = {1}
    Vals = {v1}
    NoVal = NoVal
    Slaves = {s1}
    NoSlave = NoSlave
    Writers = {}
    TableOf <- OneTable
    MaxQueriesNumber = 2
    Multimaster = FALSE
    ForceDump = FALSE
    MaxWrites = 0
    MaxBreaks = 0
    MaxImports = 0
    MaxFaults = 0
    MaxIncidents = 0
PROPERTY NewSlavesAreAdopted
CHECK_DEADLOCK FALSE
