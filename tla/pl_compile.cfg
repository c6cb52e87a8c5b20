SPECIFICATION Spec
CONSTANTS
  Lg <- MCLg
  Number <- MCNumber
  Arith <- MCArith
  Func <- MCFunc
  Trunc <- MCTrunc
  Shown <- MCShown
  Registers = {0, 2}
  Addresses <- MCAddresses
  LeftFirst = TRUE
  Jobs <- MCJobs
INVARIANTS ParsedAsMeant SurvivesDisk Compiled PrintedReadsBack
CHECK_DEADLOCK FALSE
