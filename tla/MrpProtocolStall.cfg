SPECIFICATION FairSpec
CONSTANTS
  Callers = {c1}
  Heartbeat = hbt
  Ids = {i1, i2}
  TypeKey = type34
  None = none
  RequestQueue = 1
  InboundQueue = 1
  HeartbeatRetries = 1
  MaxEnables = 1
  CallerOps = {"exchange"}
  MayStall = TRUE
PROPERTIES EveryCallReturns
CHECK_DEADLOCK FALSE
