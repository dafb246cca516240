CONSTANTS
    TimeMax = 3
    Capacity = 1
    IdleTimeout = 3
    Lifespan = 3
    MaxNow = 1
    MaxGeneration = 0
    NoValue = NoValue
    Threads = {t1, t2}
    WaitDurations = {0, 1}
    OverflowWraps = FALSE
SPECIFICATION Spec
INVARIANT FailedGetIsHarmless
CHECK_DEADLOCK FALSE
