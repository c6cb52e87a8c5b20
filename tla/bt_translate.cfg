SPECIFICATION Spec
CONSTANTS
    Number <- MCNumber
    Arith <- MCArith
    Func <- MCFunc
    Trunc <- MCTrunc
    Round <- MCRound
    Shown <- MCShown
    PrintfShows <- MCPrintfShows
    ScanfReads <- MCScanfReads
    Registers = {0, 1, 2}
    Addresses <- MCAddresses
    LeftFirst = TRUE
    Rax = 0
    Fuel = 24
    MaxDepth = 4
    MaxOut = 2
    FoldLen = 5
    FlowLen = 4
    Programs <- MCPrograms
INVARIANTS
    LabelsAgree
    CodeAgrees
PROPERTIES
    ImplementsProcessor
    HaltsToo
CHECK_DEADLOCK FALSE
