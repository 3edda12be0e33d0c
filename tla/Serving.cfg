SPECIFICATION Spec
CONSTANTS
    RootPath <- MCRootPath
    Trees <- MCTrees
    Deployed <- MCDeployed
    Requests <- MCRequests
    HtmlNames <- MCHtmlNames
    Rules <- MCRules
    MaxLinks = 4
    MaxDeploys = 1
INVARIANT AsExpected
PROPERTY RequestEnds
CHECK_DEADLOCK FALSE
