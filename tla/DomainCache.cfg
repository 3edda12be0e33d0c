SPECIFICATION Spec
CONSTANTS
    Clients = {c1, c2}
    Domains = {d1, d2}
    EntryRefreshTimeout = 0
    CacheExpiry = 1
    RetrievalTimeout = 1
    MaxRetrievalRetries = 1
    DisableRefreshTemporaryError = FALSE
    MaxEntries = 3
    MaxTime = 3
    None = None
SYMMETRY Symmetry
CHECK_DEADLOCK FALSE
INVARIANTS AnswersAreLookups WaitIsBounded RequestsBounded CreatedApart
PROPERTY ResolvedNeverLost
