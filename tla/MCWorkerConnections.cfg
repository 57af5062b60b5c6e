CONSTANTS
    Clients = {c1, c2, c3}
    MaxOpens = 2
    MaxRequests <- TwoOfOne
    Sends <- MCSends
    MaxFailures = 1
    NumSessionIDs = 2
SPECIFICATION Spec
INVARIANT TypeOK
INVARIANT OneThreadIsSafe
INVARIANT LateBounded
INVARIANT WhyStopped
CHECK_DEADLOCK FALSE
