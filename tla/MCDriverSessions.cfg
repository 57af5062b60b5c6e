CONSTANTS
    Clients = {patient, eager}
    Eager = {eager}
    Commands <- MCCommands
    Long = {"RUN TASK"}
    MaxRequests = 3
    Room = 1
    NoClient = NoClient
SPECIFICATION Spec
CHECK_DEADLOCK FALSE
INVARIANTS
    AnswersWhole
    NeverRefused
PROPERTIES
    RequestAnswered
