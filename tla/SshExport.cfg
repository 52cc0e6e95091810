SPECIFICATION FairSpec
CONSTANTS
    Targets = {t1, t2}
    Labels = {office, t2}
    Slots <- TwoSlots
    Nothing = Nothing
    PREPARE_CONCURRENCY = 1
    MAX_PERMITS = 1
    MAX_EDITS = 1
    MAX_CHANGES = 1
INVARIANTS
    UserEditsKept
    OnlyTrustedKeys
PROPERTIES
    ConfigIsTruthful
    HostsGetServed
ACTION_CONSTRAINT EditsBesideLoop
CHECK_DEADLOCK FALSE
