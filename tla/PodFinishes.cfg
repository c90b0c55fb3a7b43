SPECIFICATION FairSpec
CONSTANTS
  vacuum = vacuum
  dock = dock
  fake = fake
  Pods = {vacuum, fake}
  Mirror = {fake}
  Containers = 2
  MaxRetries = 2
  MaxTimeouts = 2
  MaxWrites = 2
  Events = {"modify", "delete"}
  None = None
CHECK_DEADLOCK FALSE
PROPERTY
  Finishes
