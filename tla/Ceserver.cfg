CONSTANTS
    Clients = {1, 2}
    MaxCount = 2
    MaxQueue = 1
    MaxSessions = 2
SPECIFICATION Spec
INVARIANTS
    InStep
    EventsOfSession
PROPERTY CallsEnd
CHECK_DEADLOCK FALSE
