SPECIFICATION FairSpec
CONSTANTS
    g1 = g1
    g2 = g2
    s1 = s1
    s2 = s2
    s3 = s3
    Workers = {w1, w2}
    Groups <- MCGroups
    Sites <- MCSites
    GroupOf <- MCGroupOf
    MaxDeploys = 1
    MaxFailures = 1
    None = None
CHECK_DEADLOCK FALSE
INVARIANT NoPanic
PROPERTIES NeverBackwards WatchSpec CatchesUpUnlessFailed RepairedByNextDeploy
