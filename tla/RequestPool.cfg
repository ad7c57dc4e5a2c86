SPECIFICATION FairSpec
CONSTANTS
  None = None
  Public = {a, b}
  Probes = {p}
  MaxConns = 2
  queryTimeout = 2
  readinessTimeout = 1
INVARIANTS
  PoolInv
  ConnectionsAccounted
  AnswersInTime
PROPERTIES
  AnswersWitnessed
  ReadinessRecovers
