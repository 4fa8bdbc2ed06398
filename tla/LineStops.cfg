SPECIFICATION Spec
CONSTANTS
    Edges = {1, 2, 3}
    NoEdge = NoEdge
    Threads = {t1, t2}
    Kinds <- TwoKinds
    Offset <- TwoOffsets
    MaxOperations = 2
INVARIANTS
    TypeOK
    LinksFollowThePath
    OffsetsFindTheFirstEdge
    PathMirrorsRows
    SerialInsertionsLoseNothing
CHECK_DEADLOCK FALSE
SYMMETRY ThreadSymmetry
