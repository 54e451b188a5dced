SPECIFICATION Spec
CONSTANTS
    a = a
    b = b
    Caller = {a}
    Calls <- Few
    AnyByte = {3}
    Pause = {3}
    MaxRequests = 2
    MaxOpens = 2
CHECK_DEADLOCK FALSE
INVARIANTS
    AcceptedFits
PROPERTIES
    QuietCallIsAnswered
    ExecuteReturns
