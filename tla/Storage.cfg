CONSTANTS
    TimeMax = 7
    Capacity = 2
    IdleTimeout = 2
    Lifespan = 3
    MaxNow = 4
    MaxGeneration = 2
    NoValue = NoValue
SPECIFICATION StorageSpec
INVARIANTS AddSaturates StorageTypeOK CellsPartitioned WastedHoldNothing InvalidatedNeverReturn
PROPERTIES LeaseHandsOutFresh LeasedUnmarked
