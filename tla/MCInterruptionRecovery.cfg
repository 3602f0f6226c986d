SPECIFICATION Spec
CONSTANTS
    Consumers = {c1, c2}
    Initial = {}
    MaxBreaks = 2
INVARIANTS
    FedUnlessRaced
    NobodyStuck
PROPERTIES
    FreshKept
CONSTRAINT SecondBreakAlone
SYMMETRY Alike
CHECK_DEADLOCK FALSE
