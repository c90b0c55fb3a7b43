SPECIFICATION FairSpec
CONSTANTS
  Databases <- MCDatabases
  Cap = 1
  Retries = 2
  MaxFaults = 2
  Events = {"apiErr", "dbErr", "badConfig", "nodeDelete", "foreignNode", "unknown", "podDelete", "stop"}
  None = None
CHECK_DEADLOCK FALSE
INVARIANTS
  TypeOK
  SinceTruthful
  FakePodFresh
  Accounted
  Placed
PROPERTIES
  
  KeepsReady
  LoopEnds
  Uploaded
