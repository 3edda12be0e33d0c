SPECIFICATION FairSpec
CONSTANTS
    Requests = {r1, r2}
    Keys = {k1}
    ExpirationInterval = 1
    RefreshInterval = 1
    MaxArchives = 3
    MaxTime = 2
    None = None
CHECK_DEADLOCK FALSE
INVARIANTS CreatedApart OffsetsOfOwnArchive CorruptedNotServed NotOvercounted
PROPERTY RootReturns
