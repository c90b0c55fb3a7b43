SPECIFICATION Spec
CONSTANTS
  init = init
  status = status
  cloud = cloud
  user = user
  did = did
  info = info
  internal = internal
  internal2 = internal2
  proxy = proxy
  Callers = {status, cloud}
  Names = {did, info}
  Command = Command
  Post = Post
  Uses <- UsesShared
  MaxCalls = 1
  None = None
  Conns = {internal, proxy}
  HelloConns = {internal}
  Faults = {}
  Hello = Hello
  Garbage = Garbage
CHECK_DEADLOCK FALSE
INVARIANT
  CorrectChannel
