CONSTANTS
    TimeMax = 3
    Capacity = 2
    IdleTimeout = 1
    Lifespan = 2
    MaxNow = 2
    MaxGeneration = 1
    NoValue = NoValue
    Threads = {t1, t2, t3}
    WaitDurations = {0, 1, 3}
    OverflowWraps = TRUE
SYMMETRY Symmetry
SPECIFICATION Spec
INVARIANTS TypeOK EveryUsedCellOwnedOnce
PROPERTY StorageSpec
CHECK_DEADLOCK FALSE
