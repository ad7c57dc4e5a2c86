SPECIFICATION Spec
CONSTANTS
  None = None
  MaximumReleaseID = 3
  Values = {v1, v2, v3}
  Wanted = v1
  Main = v3
  Plain = v1
  Padded = v2
  MaximumFetch = 3
INVARIANTS
  StatementIsKeysetSelect
  RelationsLossless
