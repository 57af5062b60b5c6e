CONSTANTS
    NumWorkers = 2
    LibraryIDSpan = 8
    NotLoadable = {{}, {0, 1, 2}}
    MaxResults = 2
    MaxMade = 3
    MaxRuns = 1
    MaxChanges = 2
SPECIFICATION Spec
INVARIANT CommandOver
INVARIANT SameThings
INVARIANT OnlyOldThingsFail
CHECK_DEADLOCK FALSE
