CONSTANTS
    NumWorkers = 1
    LibraryIDSpan = 6
    NotLoadable = {{}, {0, 1}}
    MaxResults = 1
    MaxMade = 6
    MaxRuns = 1
    MaxChanges = 1
SPECIFICATION Spec
INVARIANT TypeOK
INVARIANT LibraryKept
CHECK_DEADLOCK FALSE
