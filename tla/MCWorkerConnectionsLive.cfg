CONSTANTS
    Clients = {c1, c2}
    MaxOpens = 2
    MaxRequests <- OneOfEach
    Sends <- MCSends
    MaxFailures = 1
    NumSessionIDs = 2
SPECIFICATION Spec
PROPERTY ClientAccepted
PROPERTY RequestAnswered
CHECK_DEADLOCK FALSE
