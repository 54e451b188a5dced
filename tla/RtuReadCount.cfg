SPECIFICATION Spec
CONSTANTS
    a = a
    b = b
    Caller = {a}
    Calls <- Reads
    AnyByte = {0, 3}
    Pause = {}
    MaxRequests = 2
    MaxOpens = 1
CHECK_DEADLOCK FALSE
INVARIANTS
    ReadHasItsCount
