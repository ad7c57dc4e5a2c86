SPECIFICATION CachedFairSpec
CONSTANTS
  None = None
  MaximumResourceID = 3
  maximumPageSize = 2
  defaultPageSize = 1
  MaxFailures = 1
  MaxEntries = 2
INVARIANTS
  CachedWalkInv
PROPERTIES
  ImplementsEnumeration
  WalkEnds
