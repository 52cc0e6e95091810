SPECIFICATION FairSpec
CONSTANTS
    MAX_PROCESSES = 2
    MAX_VERSION = 2
    MAX_OPERATIONS = 1
    MAX_CRASHES = 0
    MAX_SIGNALS = 1
    Clients = {k1}
    PrepareWithinBudget = TRUE
    PromptAbort = TRUE
PROPERTIES
    StopEndsService
CHECK_DEADLOCK FALSE
