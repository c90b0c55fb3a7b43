SPECIFICATION FairSpec
CONSTANTS
  h1 = h1
  h2 = h2
  i1 = i1
  i2 = i2
  Hosts = {h1, h2}
  DNSHosts = {h1, h2}
  OTCHosts = {h1}
  Dead = {h2}
  Ids = {i1, i2}
  Cap = 2
  MaxAttempts = 2
  MaxLate = 0
  Leftover = {}
  Events = {"stop"}
  None = None
  HeaderSize = 3
  Block = 4
  Word = 8
  Keys = {h1, h2}
  Bodies <- MCBodies
CHECK_DEADLOCK FALSE
PROPERTY
  KeepsAlive
