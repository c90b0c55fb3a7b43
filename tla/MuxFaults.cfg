SPECIFICATION Spec
CONSTANTS
  init = init
  status = status
  cloud = cloud
  user = user
  did = did
  info = info
  internal = internal
  internal2 = internal2
  proxy = proxy
  Callers = {init, status, cloud}
  Names = {did, info}
  Command = Command
  Post = Post
  Uses <- UsesShared
  MaxCalls = 2
  None = None
  Conns = {internal, proxy}
  HelloConns = {internal}
  Faults = {"lateHello", "hangup", "garble", "lose"}
  Hello = Hello
  Garbage = Garbage
CHECK_DEADLOCK FALSE
INVARIANTS
  RegistryLive
  ExclusiveRegistered
  ExclusiveDelivery
  IInv
PROPERTY
  ImplementsCallReply
