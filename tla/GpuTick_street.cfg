SPECIFICATION Spec
CONSTANTS
    Rows = 1
    Cols = 2
    LinkCells = 2
    VMax = 1
    Detector = 2
    MinGreen = 1
    MaxGreen = 3
    ElapsedMax = 3
    TurnShares = {1, 2}
    Demand <- StreetDemand
    WindowTicks = 2
    CallTicks = 2
    MaxTick = 4
    MaxCars = 3
PROPERTY CitySpec
CHECK_DEADLOCK TRUE
