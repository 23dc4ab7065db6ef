SPECIFICATION Spec
CONSTANTS
    TailBytes = 32
    Producers = {0, 1}
    Consumers = {c1, c2}
    Runs <- FailingRuns
INVARIANT EveryLineRead
CHECK_DEADLOCK TRUE
