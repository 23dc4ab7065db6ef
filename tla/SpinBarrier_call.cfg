SPECIFICATION FairSpec
CONSTANTS
    Workers = {w0, w1, w2}
    Main = w0
    Ticks = 2
    GenMod = 2
    SpawnMayFail = TRUE
INVARIANTS TypeOK PhaseSeparation WritesVisible NoFinishAfterPanic
PROPERTIES LockstepSpec CallEnds
CHECK_DEADLOCK TRUE
