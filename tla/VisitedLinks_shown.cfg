SPECIFICATION FairSpec
CONSTANTS
    Link = {l1, l2}
    TableSizes = {1, 2, 4, 8}
    MinTableSize = 2
    MaxChanged = 1
    MaxAdds = 3
    MaxLaunches = 2
    MaxFailures = 1
INVARIANTS
    TablesAreHalfEmpty
    PendingLinksHaveTimer
    QuietMeansShown
PROPERTY VisitedLinksGetShown
CHECK_DEADLOCK FALSE
