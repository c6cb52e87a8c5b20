SPECIFICATION Spec
CONSTANTS
  Width = 2
  MaxMarkers = 4
  MaxCalleeInstrs = 12
  MaxInstrsAfterInlining = 30
  RegsCount = 4
  MaxSlots = 8
  Fuel = 12
  Events = 6
  Programs <- CrossPrograms
  Passes = {"DomTree"}
  MaxPasses = 2
  Arguments <- MCArguments
INVARIANT DomTreeFresh
CHECK_DEADLOCK FALSE
