SPECIFICATION Spec
CONSTANTS
    Records = {r1}
    Refreshers = {a, b}
    Envelopes <- AllEnvelopes
    MAX_LIVE_RECORDS = 1
    MAX_REVISION = 2
    Faithful = TRUE
    MAX_RECORD_FETCH_ATTEMPTS = 3
    MAX_GENERATION = 3
    MAX_TIME = 1
SYMMETRY RefresherSymmetry
INVARIANTS
    TypeOK
    CachedAsPublished
    NeverOlderThanBefore
    ListsWhatItAccepted
    QuietRefreshConverges
PROPERTIES
    NoStaleResurrection
    ConcurrentRecordsSurvive
