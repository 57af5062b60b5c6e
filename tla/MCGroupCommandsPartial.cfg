CONSTANTS
    NumWorkers = 2
    LibraryIDSpan = 8
    NotLoadable = {{}, {0}, {1}, {2}, {0, 1, 2}}
    MaxResults = 1
    MaxMade = 3
    MaxRuns = 1
    MaxChanges = 1
SPECIFICATION Spec
INVARIANT BarriersAgree
INVARIANT AheadByAstray
PROPERTY CommandAnswered
CHECK_DEADLOCK FALSE
