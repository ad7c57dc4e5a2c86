SPECIFICATION FairSpec
CONSTANTS
  None = None
  Requests = {r1, r2}
  Buffers = {b1, b2, b3}
  responseBufferCount = 1
  maximumPooledResponseSize = 1
  MaximumSize = 2
INVARIANTS
  ResponderInv
  BuffersExclusive
  AnswersOwn
  RetentionBounded
  GaugeCountsInProgress
  SilenceMeansGone
PROPERTIES
  EveryRequestEnds
