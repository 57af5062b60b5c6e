CONSTANTS
    NumWorkers = 3
    Ports <- MCPorts
    BufferLengths <- MCBufferLengths
    Failing <- MCFailing
    Hostname <- MCHostname
SPECIFICATION Spec
CHECK_DEADLOCK FALSE
PROPERTIES
    ServesOrEnds
