CONSTANTS
    TimeMax = 3
    Capacity = 1
    IdleTimeout = 3
    Lifespan = 3
    MaxNow = 2
    MaxGeneration = 0
    NoValue = NoValue
    Clients = {c1, c2, c3, c4}
    QueueCapacity = 2
    WaitDurations = {1, 2}
    HandlersUsePool = FALSE
SPECIFICATION FairSpec
INVARIANTS TypeOK OneAnswerPerRequest
PROPERTIES EveryRequestAnswered DisableReturns QueueSpec
