CONSTANTS
    TimeMax = 3
    Capacity = 1
    IdleTimeout = 3
    Lifespan = 3
    MaxNow = 1
    MaxGeneration = 0
    NoValue = NoValue
    Threads = {t1, t2, t3}
    WaitDurations = {1, 3}
    OverflowWraps = FALSE
SPECIFICATION FairSpec
PROPERTY FreeCellReachesSleeper
CHECK_DEADLOCK FALSE
