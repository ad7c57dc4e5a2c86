SPECIFICATION Spec
CONSTANTS
  None = None
  Bad = Bad
  MaximumYear = 1
  MonthsPerYear = 3
INVARIANTS
  AcceptsExactlyWellFormed
  NothingIgnored
  DateWindowExact
CHECK_DEADLOCK FALSE
