SPECIFICATION Spec
CONSTANTS
  None = None
  HashMin <- MCHashMin
  HashMax = 1
  maximumPageSize = 2
  Importers = {TRUE}
  MaxFailures = 1
INVARIANTS
  EmptyPageWitnessed
