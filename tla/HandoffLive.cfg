SPECIFICATION FairSpec
CONSTANTS
    MAX_PROCESSES = 3
    MAX_VERSION = 2
    MAX_OPERATIONS = 2
    MAX_CRASHES = 1
    MAX_SIGNALS = 0
    Clients = {k1, k2}
    PrepareWithinBudget = FALSE
    PromptAbort = FALSE
INVARIANTS
    CommitIsFinal
    OutcomesAgree
PROPERTIES
    UpdateSettles
    ServiceReturns
    OrphansEnd
CHECK_DEADLOCK FALSE
