SPECIFICATION FairSpec
CONSTANTS
    Procs = 3
    ChunkBytes = 4
    MaxLine = 3
    Jobs <- CheckedJobs
INVARIANTS LinesOnce OwnersSound ReportIsCount EndExplained
PROPERTIES RunEnds
CHECK_DEADLOCK FALSE
