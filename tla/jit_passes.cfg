SPECIFICATION Spec
CONSTANTS
  Width = 2
  MaxMarkers = 4
  MaxCalleeInstrs = 10
  MaxInstrsAfterInlining = 12
  RegsCount = 4
  MaxSlots = 8
  Fuel = 12
  Events = 6
  Programs <- MCPrograms
  Passes = {"DomTree", "Loops", "LinearOrdering", "Checker", "Peephole", "DCE", "CheckElimination", "BranchElimination", "EmptyBlocksRemoval", "Inlining"}
  MaxPasses = 3
  Arguments <- MCArguments
INVARIANTS MeaningKept WellFormed RPOFresh
PROPERTY ChecksMadeOnce
CHECK_DEADLOCK FALSE
