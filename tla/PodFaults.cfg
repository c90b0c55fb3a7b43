SPECIFICATION Spec
CONSTANTS
  vacuum = vacuum
  dock = dock
  fake = fake
  Pods = {vacuum}
  Mirror = {}
  Containers = 2
  MaxRetries = 1
  MaxTimeouts = 1
  MaxWrites = 2
  Events = {"cmdErr", "apiErr", "modify", "delete", "stop"}
  None = None
CHECK_DEADLOCK FALSE
INVARIANTS
  TypeOK
  NothingMissed
  SucceededTruly
  OverlapBounded
PROPERTY
  ImplementsPodJobs
