SPECIFICATION Spec
CONSTANTS
    r0 = r0
    r1 = r1
    off = off
    on = on
    junk = junk
    Value <- MCValue
    Junk <- MCJunk
    Layout <- AllLayouts
    Start = {0, 1, 2, 3}
    Count = {0, 1, 2, 3}
    Write <- Writes
INVARIANTS
    TypeOK
    AcceptedIffDisjoint
    LookupIsExact
PROPERTIES
    OnlyValidValuesArrive
    ImplementsAddressSpace
