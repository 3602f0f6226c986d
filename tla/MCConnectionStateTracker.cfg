SPECIFICATION Spec
CONSTANTS
    s1 = s1  s2 = s2  p1 = p1  p2 = p2  d1 = d1
    Sessions <- TwoSessions
    Producers = {p1, p2}
    Dests = {d1}
    Owner <- SecondOwnsP2
    MaxTx = 2
    MaxSends = 2
    MaxBreaks = 2
CHECK_DEADLOCK FALSE
INVARIANTS CommittedWhole OutcomeTruthful BrokerKnowsSender BrokerMirrorsClient NoCallStranded
