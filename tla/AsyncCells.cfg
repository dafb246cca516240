CONSTANTS
    TimeMax = 3
    Capacity = 2
    IdleTimeout = 1
    Lifespan = 2
    MaxNow = 1
    MaxGeneration = 1
    NoValue = NoValue
    Clients = {c1, c2, c3}
    QueueCapacity = 1
    WaitDurations = {0, 1}
    HandlersUsePool = FALSE
SYMMETRY Symmetry
SPECIFICATION Spec
INVARIANTS EveryUsedCellOwnedOnce NoInvalidatedResourceServed
PROPERTY StorageSpec
