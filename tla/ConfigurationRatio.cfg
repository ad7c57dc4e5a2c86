SPECIFICATION InvocationSpec
CONSTANTS
  None = None
  Blank = Blank
  Good = Good
  Bad = Bad
  NaN = NaN
  RatioTexts = {0, NaN}
  MaxInt64 = 31
  MaxInt32 = 7
  BytesPerMiB = 4
  MaximumConnections = 3
  MaximumStatementCacheSize = 3
  MaxArguments = 2
  MaxVariables = 1
INVARIANTS
  RatioInRange
CHECK_DEADLOCK FALSE
