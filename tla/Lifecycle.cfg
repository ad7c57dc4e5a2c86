SPECIFICATION FairSpec
CONSTANTS
  MaxRequests = 2
  MaxConnections = 2
INVARIANTS
  LifecycleInv
  CleanExitMeansDrained
  ReportsNeverBlock
  TelemetryOutlivesQueries
  ExitReleasesAll
  ManagementOutlastsPublic
PROPERTIES
  EventuallyExits
