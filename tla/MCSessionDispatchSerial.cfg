SPECIFICATION Spec
CONSTANTS
    m3 = m3
    Messages = {m1, m3}
    NumConsumers = 2
    Target <- MCTarget
    Runners = {r1, r2, r3}
    Controllers = {k1, k2}
    Ops = {"start", "stop"}
    MaxOps = 3
    Listening = {1, 2}
INVARIANTS
    SerializedAlways
CHECK_DEADLOCK FALSE
