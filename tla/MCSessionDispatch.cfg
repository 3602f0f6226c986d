SPECIFICATION Spec
CONSTANTS
    m3 = m3
    Messages = {m1, m2, m3}
    NumConsumers = 2
    Target <- MCTarget
    Runners = {r1, r2, r3}
    Controllers = {k1, k2}
    Ops = {"start", "stop", "listen"}
    MaxOps = 3
    Listening = {1}
INVARIANTS
    ListenersSerialized
    MessagesConserved
    StopEndsDelivery
    InOrderUntilStopped
    CallsGoOn
CONSTRAINT FewOverlapped
SYMMETRY Alike
CHECK_DEADLOCK FALSE
