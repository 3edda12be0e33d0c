SPECIFICATION FairSpec
CONSTANTS
    N = 1
    Listeners = {l1, l2}
    Conns = {k1, k2}
    Closers = {x1, x2}
    MaxBacklog = 1
    None = None
CHECK_DEADLOCK FALSE
INVARIANTS SlotsAccounted ConnsWithinLimit
PROPERTIES PoolSpec ConnCloseReturns ListenerCloseEndsServe
