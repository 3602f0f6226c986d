SPECIFICATION Spec
CONSTANTS
    Consumers = {c1}
    Initial = {c1}
    MaxBreaks = 1
INVARIANTS
    FedAgain
CHECK_DEADLOCK FALSE
