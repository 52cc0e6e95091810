SPECIFICATION FairSpec
CONSTANTS
    Hosts = {h1, h2}
    Mine = Mine
    Label = Label
    Nothing = Nothing
    MAX_ATTEMPTS = 1
    MISSES = 3
    MAX_USER = 2
    MAX_FLIPS = 2
    MAX_FAULTS = 1
    MAX_CHANGES = 2
INVARIANTS
    RemovedAfterThreeAbsences
PROPERTIES
    UsersChoicesStand
    HostsGetListed
