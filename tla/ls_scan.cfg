SPECIFICATION Spec
CONSTANTS
    RegsCount = 2
    MaxSlots = 2
    MaxEnd = 4
    MaxLen = 5
    Hulls <- MCHulls
INVARIANTS
    TypeOK
    NoClash
    ActiveSorted
    FreeIsUnheld
    ActiveHoldRegisters
PROPERTY
    AllPlaced
CHECK_DEADLOCK FALSE
