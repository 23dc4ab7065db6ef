SPECIFICATION Spec
CONSTANTS
    Nodes = 7
    Block = 2
    Threads = 3
    CarSums <- FewOrManyCars
    TimeSumsA <- ShortOrLongA
    TimeSumsB <- ShortOrLongB
    MaxEvery = 2
    MaxCalls = 3
INVARIANTS OneWorkerPerNode NearestBoundary RangesBounded ClimbEndsAtPeak
PROPERTY CallEnds
CHECK_DEADLOCK TRUE
