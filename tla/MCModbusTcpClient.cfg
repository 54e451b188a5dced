SPECIFICATION Spec
CONSTANTS
    a = a
    b = b
    m = m
    Caller = {a, b}
    Manager = {m}
    TidMax = 2
    MaxRequests = 3
    MaxConns = 2
INVARIANTS
    TypeOK
    AcceptedIsOwn
    NoLeakedConnection
PROPERTIES
    ExecuteReturns
    CloseAndConnectReturn
CHECK_DEADLOCK FALSE
