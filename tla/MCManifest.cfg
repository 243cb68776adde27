\* Every manifest, generate and check for one environment and for both; and
\* every command of `service new'.
CONSTANTS
    None = None
    Environments <- MCEnvironments
    UpperCase <- MCUpperCase
    KeepsSchema <- MCKeepsSchema
    OverlaysIn <- MCOverlaysIn
    Manifests <- MCManifests
    Drafts <- MCDrafts
    Requests <- MCRequests
    StaticFiles <- MCStaticFiles
    OBSOLETE_FILES <- MCObsolete
    UserFiles <- MCUserFiles
    Neighbours <- MCNeighbours
    Commands <- MCCommands
    KebabNames <- MCKebabNames
    BadNames <- MCBadNames
    Unset = Unset

SPECIFICATION MCSpec
INVARIANTS InvalidLeavesChart ChartSaysPlan CheckTellsTruth OverlaysStayHome OneVariableOnce PoliciesAgree TyposNoticed ScaffoldCloses
