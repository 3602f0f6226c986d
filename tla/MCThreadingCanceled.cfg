SPECIFICATION Spec
CONSTANTS
    t1 = t1  t2 = t2  h1 = h1  h2 = h2
    Threads = {t1, t2}
    Helpers = {h1, h2}
    MaxDepth = 2
SYMMETRY Symmetry
INVARIANT DeadOwnsNothing
CHECK_DEADLOCK FALSE
