SPECIFICATION MCSpec
CONSTANTS
  Files = {1, 2}
  Images <- MCImages
  Log <- MCLog
  MaxChanges = 2
  BadLines = TRUE
  Robots <- MCRobots
  StateHash <- MCStateHash
  MaxFaults = 1
  Events = {"apiErr", "edit", "delete", "badConfig", "noStatus", "lost"}
  Garbage = Garbage
  None = None
CHECK_DEADLOCK FALSE
INVARIANTS
  CopyCurrent
  PathReal
  OnPicture
PROPERTIES
  MapCatchesUp
  Converges
