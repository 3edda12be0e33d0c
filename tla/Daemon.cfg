SPECIFICATION FairSpec
CONSTANTS
    NDirs = 3
    Files = {"gitlab-pages", "hosts"}
    MaxSockets = 2
    MaxSignals = 2
CHECK_DEADLOCK FALSE
INVARIANTS PagesIntact ReturnsClean FdsMatch
PROPERTY ReturnsAfterChild
