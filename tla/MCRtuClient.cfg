SPECIFICATION Spec
CONSTANTS
    a = a
    b = b
    Caller = {a, b}
    Calls <- MCCalls
    AnyByte = {0, 3}
    Pause = {3}
    MaxRequests = 2
    MaxOpens = 1
CHECK_DEADLOCK FALSE
INVARIANTS
    TypeOK
    AcceptedFits
PROPERTIES
    QuietCallIsAnswered
