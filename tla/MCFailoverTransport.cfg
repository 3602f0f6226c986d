SPECIFICATION FairSpec
CONSTANTS
    Requests = {q1}
    Oneways = {}
    States = {s1}
    Acks = {}
    Shutdowns = {h1}
    Commands <- MCCommands
    Kind <- MCKind
    NumURIs = 1
    MaxReconnectAttempts = 1
    MaxTransports = 2
    MaxRebalances = 1
    MaxCalls = 2
INVARIANTS
    NotSentTwice
    NoRequestForgotten
PROPERTIES
    ReconnectsOrFails
    CloseReturns
CHECK_DEADLOCK FALSE
