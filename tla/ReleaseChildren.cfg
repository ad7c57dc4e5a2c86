SPECIFICATION FairSpec
CONSTANTS
  None = None
  HashMin <- MCHashMin
  HashMax = 1
  maximumPageSize = 2
  Importers = {TRUE, FALSE}
  MaxFailures = 1
INVARIANTS
  ChildrenInv
  StatusWitnessed
  EmptyPageWitnessedByStages
PROPERTIES
  ImplementsEnumeration
  WalkEnds
