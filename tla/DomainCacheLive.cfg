SPECIFICATION FairSpec
CONSTANTS
    Clients = {c1, c2}
    Domains = {d1}
    EntryRefreshTimeout = 0
    CacheExpiry = 1
    RetrievalTimeout = 1
    MaxRetrievalRetries = 2
    DisableRefreshTemporaryError = FALSE
    MaxEntries = 3
    MaxTime = 2
    None = None
CHECK_DEADLOCK FALSE
PROPERTIES ResolveReturns RefreshEnds
