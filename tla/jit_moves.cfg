SPECIFICATION Spec
CONSTANTS
  Width = 2
  MaxMarkers = 4
  MaxCalleeInstrs = 12
  MaxInstrsAfterInlining = 30
  RegsCount = 8
  MaxSlots = 8
  Fuel = 12
  Events = 6
  Programs <- SwapPrograms
  Passes = {"RegAlloc"}
  MaxPasses = 2
  Arguments <- MCArguments
INVARIANT PlacesKeepMeaning
CHECK_DEADLOCK FALSE
