SPECIFICATION Spec
CONSTANTS
    Clients = {c1}
    Domains = {d1}
    EntryRefreshTimeout = 1
    CacheExpiry = 2
    RetrievalTimeout = 1
    MaxRetrievalRetries = 1
    DisableRefreshTemporaryError = FALSE
    MaxEntries = 3
    MaxTime = 5
    None = None
CHECK_DEADLOCK FALSE
PROPERTY SuccessNotReplacedByError
