SPECIFICATION Spec
CONSTANTS
    NumMessages = 2
    Modes = {"auto", "batch", "client", "individual", "transacted"}
    PrefetchSize = 4
    MaximumRedeliveries = 1
    BrokerCounts = {0, 2}
    MaxInterruptions = 1
    MaxFailures = 1
    MaxFaults = 1
INVARIANTS
    OrderKept
    NothingForgotten
    CommitCoversReceived
    CloseSettlesReceived
    StoppedWillStart
PROPERTIES
    ConsumedWereReceived
CHECK_DEADLOCK FALSE
