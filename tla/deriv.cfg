SPECIFICATION Spec
CONSTANTS
  P = 11
  Sin <- MCSin
  Cos <- MCCos
  Ln <- MCLn
  PhraseCount = 27
  Points = {0, 2, 3}
  Inputs <- MCInputs
INVARIANTS ParsedAsMeant DerivativeRight ValuesRight OriginalKept GoesThrough PrintedReadsBack
