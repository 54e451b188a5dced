SPECIFICATION SpecWithServer
CONSTANTS
    a = a
    b = b
    m = m
    Caller = {a, b}
    Manager = {m}
    TidMax = 3
    MaxRequests = 3
    MaxConns = 2
    Writes = {1, 2}
INVARIANTS
    OldRequestsAreDone
PROPERTIES
    ImplementsRemoteStore
CHECK_DEADLOCK FALSE
