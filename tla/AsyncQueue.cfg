CONSTANTS
    TimeMax = 3
    MaxNow = 2
    Clients = {c1, c2, c3}
    QueueCapacity = 2
    IoContexts = {io1, io2}
    Running = {io1}
    WaitDurations = {1, 2}
    NoRequest = NoRequest
    MaxReady = 2
SPECIFICATION Spec
INVARIANTS TypeOK IndexesAgree EarliestHasWait
PROPERTIES ImplementsRequestQueue OverdueLeave
