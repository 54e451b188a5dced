SPECIFICATION Spec
CONSTANTS
    c1 = c1
    c2 = c2
    on = on
    off = off
    bit0 = bit0
    bit1 = bit1
    wide = wide
    Value <- MCValue
    Junk <- MCJunk
    Bit <- MCBit
    Extents <- MCExtents
    DeviceObject = {0, 1, 2}
    CustomCode = {"CUSTOM"}
    Conn = {c1, c2}
    Frame <- MCFrames
    InitialCells <- MCCells
    LocalWrite <- MCLocalWrites
    MaxFrames = 2
    Absorbed = 0
INVARIANTS
    TypeOK
    AnswersFollowRequests
PROPERTIES
    RefusalChangesNothing
    ReadsSeeTheStore
    EveryRequestSettled
