SPECIFICATION FairSpec
CONSTANTS
    SyncCallers = {s1}
    TimedCallers = {t1}
    AsyncCallers = {a1}
    Listeners = {l1}
    Closers = {c1}
    MaxCommandId = 2
INVARIANTS
    TypeOK
    CompletedAtMostOnce
    NobodyStranded
    NoLeakedEntry
    FailedFilterHoldsNothing
PROPERTIES
    CallsEndAfterFailure
    ImplementsRequestReply
CHECK_DEADLOCK FALSE
