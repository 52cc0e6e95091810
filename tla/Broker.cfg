SPECIFICATION Spec
CONSTANTS
    Clients = {k1, k2}
    Brokers = {b1, b2}
    None = None
    MAX_LEASES = 1
    MAX_FAULTS = 2
    MAX_RESUMES = 1
    Patient = FALSE
SYMMETRY ProcessSymmetry
INVARIANTS
    OneEndpoint
    SocketIsServers
PROPERTIES
    NoIdleEviction
CHECK_DEADLOCK FALSE
