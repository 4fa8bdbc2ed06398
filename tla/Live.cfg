SPECIFICATION FairSpec
CONSTANTS
    Rows = {1}
    Vals = {v1}
    NoVal = NoVal
    Slaves = {s1}
    NoSlave = NoSlave
    Writers = {w1}
    TableOf <- TableOfEachRow
    MaxQueriesNumber = 2
    Multimaster = FALSE
    ForceDump = FALSE
    MaxWrites = 2
    MaxBreaks = 1
    MaxImports = 0
    MaxFaults = 1
    MaxIncidents = 1
PROPERTY AckClearsWhatWasSent
PROPERTY OnlyObsoleteSlavesMissWrites
PROPERTY FollowersCatchUp
PROPERTY QueuesDrain
CHECK_DEADLOCK FALSE
