CONSTANTS
    Byte = 14
    Shapes <- MCShapes
    Clients <- MCClients
    MaxInvalid = 1
SPECIFICATION Spec
CHECK_DEADLOCK FALSE
INVARIANTS
    ReadAsWritten
    SettingsAgree
    EntriesArrive
    FetchedIsSent
    ParametersAgree
