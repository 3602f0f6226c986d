SPECIFICATION FairSpec
CONSTANTS
    m3 = m3
    Messages = {m1, m3}
    Priorities = {4, 9}
    PriorityOf <- MCPriorityOf
    BlockingReceivers = {b1, b2}
    TimedReceivers = {t1}
    NoWaitReceivers = {n1}
    MaxEnqueued = 4
INVARIANTS
    NoSignalLost
PROPERTIES
    CloseReleasesReceivers
CHECK_DEADLOCK FALSE
