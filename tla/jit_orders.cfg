SPECIFICATION Spec
CONSTANTS
  Width = 2
  MaxMarkers = 4
  MaxCalleeInstrs = 12
  MaxInstrsAfterInlining = 30
  RegsCount = 8
  MaxSlots = 8
  Fuel = 12
  Events = 6
  Programs <- OrderPrograms
  Passes = {"DomTree", "Loops", "LinearOrdering", "Liveness", "RegAlloc"}
  MaxPasses = 2
  Arguments <- MCArguments
INVARIANTS DomTreeFresh LoopsFresh AllocationKept
PROPERTY LiveWhereNeeded
CHECK_DEADLOCK FALSE
