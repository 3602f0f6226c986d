SPECIFICATION FairSpec
CONSTANTS
    Tasks = {t1, t2, t3}
    FaultyTasks = {t3}
    StoppingTasks = {t2}
    Shutdowners = {s1}
INVARIANTS
    NoWorkSleptOn
    NoTaskAfterShutdown
PROPERTIES
    EveryTaskGetsItsTurn
    ShutdownReturns
CHECK_DEADLOCK FALSE
