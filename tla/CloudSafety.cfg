SPECIFICATION FairSpec
CONSTANTS
  h1 = h1
  h2 = h2
  i1 = i1
  i2 = i2
  Hosts = {h1, h2}
  DNSHosts = {h1}
  OTCHosts = {h2}
  Dead = {}
  Ids = {i1, i2}
  Cap = 1
  MaxAttempts = 1
  MaxLate = 0
  Leftover <- MCLeftover
  Events = {"loss", "dup", "damage", "write", "info", "stop", "forward", "reject"}
  None = None
  HeaderSize = 3
  Block = 4
  Word = 8
  Keys = {h1, h2}
  Bodies <- MCBodies
CHECK_DEADLOCK FALSE
INVARIANTS
  TypeOK
  ReceiverNotStranded
  RoundTrip
  RemoteIsEndpoint
  KeyOnceReady
PROPERTY
  StopEndsUnlessFull
