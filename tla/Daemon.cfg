SPECIFICATION MCSpec
CONSTANTS
  Faults = {"bind", "accept", "strand"}
  Keys = {"k1", "k2", "k3"}
CHECK_DEADLOCK FALSE
INVARIANTS
  CountsRunning
  QuietAfterEnd
  LeftOnlyByStart
PROPERTY
  SignalEnds
