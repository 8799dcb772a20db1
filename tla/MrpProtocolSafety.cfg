SPECIFICATION Spec
CONSTANTS
  Callers = {c1, c2}
  Heartbeat = hbt
  Ids = {i1, i2}
  TypeKey = type34
  None = none
  RequestQueue = 1
  InboundQueue = 1
  HeartbeatRetries = 1
  MaxEnables = 1
  CallerOps = {"exchange", "untagged", "send", "close"}
  MayStall = TRUE
CONSTRAINT SendsBeforeHeartbeat
SYMMETRY CallerSymmetry
INVARIANTS TypeOK IInv SlotsAccountedFor NoCallerForgotten NeverReplaced
PROPERTIES QuietAfterClose ImplementsRpcChannel
CHECK_DEADLOCK FALSE
