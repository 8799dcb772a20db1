SPECIFICATION FairSpec
CONSTANTS
  Callers = {c1}
  Heartbeat = hbt
  Ids = {i1, i2}
  TypeKey = type34
  None = none
  RequestQueue = 2
  InboundQueue = 1
  HeartbeatRetries = 1
  MaxEnables = 1
  CallerOps = {"exchange", "close"}
  MayStall = FALSE
PROPERTIES EveryCallReturns MuteDeviceDropped PeerLossNoticed
