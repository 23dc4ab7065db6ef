SPECIFICATION Spec
CONSTANTS
    WordBits = 5
    MaxKey = 9
    Jobs <- CheckedJobs
INVARIANTS PartsInOrder ResultSorted
PROPERTIES RunEnds
CHECK_DEADLOCK FALSE
