SPECIFICATION FairSpec
CONSTANTS
    TailBytes = 32
    Producers = {0, 1}
    Consumers = {c1, c2}
    Runs <- CheckedRuns
INVARIANTS OutcomeExplained NoLostWakeup
PROPERTIES CountOnceSpec RunEnds
CHECK_DEADLOCK TRUE
