SPECIFICATION FairSpec
CONSTANTS
  init = init
  status = status
  cloud = cloud
  user = user
  did = did
  info = info
  internal = internal
  internal2 = internal2
  proxy = proxy
  Callers = {init, status, user}
  Names = {did, info}
  Command = Command
  Post = Post
  Uses <- UsesApart
  MaxCalls = 2
  None = None
  Conns = {internal, proxy}
  HelloConns = {internal}
  Faults = {}
  Hello = Hello
  Garbage = Garbage
CHECK_DEADLOCK FALSE
INVARIANTS
  RightPeer
PROPERTY
  CallsReturn
