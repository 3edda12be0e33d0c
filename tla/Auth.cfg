SPECIFICATION FairSpec
CHECK_DEADLOCK FALSE
CONSTANTS
    Tabs = {t1, t2}
    h1 = h1
    auth = auth
    Sites = {h1, auth}
    AuthHost = auth
    Members = {h1}
    Wanted <- MCWanted
    MaxFaults = 1
    MaxStates = 7
    Garbled = Garbled
    Denied = Denied
    None = None
INVARIANTS TokenOfOwnLogin BackToOwnPage CalmLoadSucceeds
PROPERTY LoneLoadEnds
