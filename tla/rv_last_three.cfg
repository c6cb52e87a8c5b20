SPECIFICATION Spec
CONSTANTS
    NumRegs = 4
    WordMod = 32
    Alu <- MCAlu
    Cmp <- MCCmp
    Start = 4
    MemCap = 12
    InitMem <- MCInitMem
    Programs <- StraightLine
PROPERTY ImplementsIsa
CHECK_DEADLOCK FALSE
