SPECIFICATION Spec
CONSTANTS
  vacuum = vacuum
  dock = dock
  fake = fake
  Pods = {vacuum, dock}
  Mirror = {}
  Containers = 1
  MaxRetries = 2
  MaxTimeouts = 0
  MaxWrites = 2
  Events = {"cmdErr", "apiErr", "stop"}
  None = None
CHECK_DEADLOCK FALSE
SYMMETRY
  PodSymmetry
INVARIANT
  NoRunAfterSuccess
