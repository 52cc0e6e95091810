SPECIFICATION FairSpec
CONSTANTS
    Conns = {c1, c2}
    Slots = {s1, s2}
    Consumer = Consumer
    Other = Other
    Nothing = Nothing
    MAX_PENDING_CONNECTIONS = 1
    MAX_AUTHENTICATED_CONNECTIONS = 1
    MAX_CHANNELS = 1
    MAX_STREAMS = 2
    Budgets <- MCBudgets
INVARIANTS
    AccessIsRevoked
    ForwarderOwnsConnections
PROPERTIES
    StoppedServerIsQuiet
CHECK_DEADLOCK FALSE
