SPECIFICATION FairSpec
CONSTANTS
    Records = {r1}
    Refreshers = {a}
    Envelopes <- LastingEnvelopes
    MAX_LIVE_RECORDS = 1
    MAX_REVISION = 5
    Faithful = FALSE
    MAX_RECORD_FETCH_ATTEMPTS = 2
    MAX_GENERATION = 2
    MAX_TIME = 0
INVARIANTS
    OnlyAuthenticCached
PROPERTIES
    CachedRevisionsOnlyGrow
    RefreshEnds
