SPECIFICATION Spec
CONSTANTS
    NumRegs = 4
    WordMod = 32
    Alu <- MCAlu
    Cmp <- MCCmp
    Start = 4
    MemCap = 12
    InitMem <- MCInitMem
    Programs <- SafePrograms
INVARIANT TypeOK
INVARIANT NothingLeftBehind
PROPERTY ImplementsIsa
PROPERTY KeepsExecuting
CHECK_DEADLOCK FALSE
