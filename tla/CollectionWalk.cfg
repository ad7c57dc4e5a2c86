SPECIFICATION FairSpec
CONSTANTS
  None = None
  MaximumResourceID = 5
  maximumPageSize = 2
  defaultPageSize = 2
  MaxFailures = 1
INVARIANTS
  TypeOK
  NoDuplicates
  StableRowsDelivered
PROPERTIES
  HasMoreTruthful
  ImplementsEnumeration
  WalkEnds
