SPECIFICATION FairSpec
CONSTANTS
    Windows = 5
    Depth = 2
    Frames = 2
INVARIANTS BuffersAccounted AllWindowsWritten WaitedForWriter
PROPERTY RunEnds
CHECK_DEADLOCK TRUE
