SPECIFICATION InvocationSpec
CONSTANTS
  None = None
  Blank = Blank
  Good = Good
  Bad = Bad
  NaN = NaN
  RatioTexts = {0, 2, 3}
  MaxInt64 = 31
  MaxInt32 = 7
  BytesPerMiB = 4
  MaximumConnections = 3
  MaximumStatementCacheSize = 3
  MaxArguments = 2
  MaxVariables = 1
INVARIANTS
  CommandLineWins
  ServesWithinInventory
CHECK_DEADLOCK FALSE
