CONSTANTS
    NumWorkers = 4
    GroupIDSpan = 4
    MaxRequest = 5
    MaxConnections = 5
SPECIFICATION Spec
INVARIANT TypeOK
INVARIANT WorkersPartitioned
INVARIANT ListingsAgree
INVARIANT OneActiveGroup
INVARIANT HonestReply
PROPERTY LoneClientServed
PROPERTY FreshGroup
PROPERTY LeaseSpec
CHECK_DEADLOCK FALSE
