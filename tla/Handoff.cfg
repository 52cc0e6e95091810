SPECIFICATION Spec
CONSTANTS
    MAX_PROCESSES = 3
    MAX_VERSION = 3
    MAX_OPERATIONS = 2
    MAX_CRASHES = 1
    MAX_SIGNALS = 1
    Clients = {k1, k2}
    PrepareWithinBudget = TRUE
    PromptAbort = TRUE
SYMMETRY ClientSymmetry
INVARIANTS
    AtMostOneEndpoint
    RunningIsInstalled
CHECK_DEADLOCK FALSE
