SPECIFICATION FairSpec
CONSTANTS
    Clients = {k1, k2}
    Brokers = {b1, b2}
    None = None
    MAX_LEASES = 4
    MAX_FAULTS = 0
    MAX_RESUMES = 1
    Patient = TRUE
PROPERTIES
    AcquireSucceeds
    BrokerEnds
CHECK_DEADLOCK FALSE
