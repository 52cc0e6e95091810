SPECIFICATION FairSpec
CONSTANTS
    Processes = {p1, p2}
    None = None
    Ids = {i1}
    Scoped = {s1}
    MAX_ACCOUNT_ISSUANCE_ATTEMPTS = 2
    MAX_ISSUED = 2
    MAX_UNINSTALLS = 1
INVARIANTS
    SealedOpens
    IssuedAccountsUsable
PROPERTIES
    AccountNeverReplaced
    CommandsEnd
CHECK_DEADLOCK FALSE
