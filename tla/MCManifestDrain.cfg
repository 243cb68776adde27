\* The disruption budgets the plan accepts, with percentages and autoscaling.
CONSTANTS
    None = None
    Environments <- MCEnvironments
    UpperCase <- MCUpperCase
    KeepsSchema <- MCKeepsSchema
    OverlaysIn <- MCOverlaysIn
    Manifests <- MCBudgets
    Drafts = {}
    Requests <- MCRequests
    StaticFiles <- MCStaticFiles
    OBSOLETE_FILES <- MCObsolete
    UserFiles <- MCUserFiles
    Neighbours <- MCNeighbours
    Commands = {}
    KebabNames <- MCKebabNames
    BadNames <- MCBadNames
    Unset = Unset

SPECIFICATION MCSpec
INVARIANT EvictionPossible
