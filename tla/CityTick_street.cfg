SPECIFICATION Spec
CONSTANTS
    Rows = 1
    Cols = 2
    LinkCells = 3
    VMax = 2
    Detector = 2
    MinGreen = 1
    MaxGreen = 3
    ElapsedMax = 3
    TurnShares = {"left", "right"}
    Demand <- StreetDemand
    WindowTicks = 2
    MaxTick = 5
    MaxCars = 3
INVARIANTS StateChecks LandingRoom Conserved
PROPERTY OrderIndependent
CHECK_DEADLOCK TRUE
