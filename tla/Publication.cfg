SPECIFICATION Spec
CONSTANTS
    Callers = {c1, c2}
    Nothing = Nothing
    MAX_TIME = 5
    MAX_RUNS = 2
    MAX_FAULTS = 1
SYMMETRY CallerSymmetry
INVARIANTS
    ServingIsAdvertised
    FailedSetupHadCause
PROPERTIES
    RefreshesSpaced
    RefinesLease
