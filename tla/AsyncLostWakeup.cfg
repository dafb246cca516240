CONSTANTS
    TimeMax = 1
    Capacity = 1
    IdleTimeout = 1
    Lifespan = 1
    MaxNow = 0
    MaxGeneration = 0
    NoValue = NoValue
    Clients = {c1, c2}
    QueueCapacity = 1
    WaitDurations = {1}
    HandlersUsePool = FALSE
SPECIFICATION FairSpec
PROPERTY FreeCellReachesWaiter
