SPECIFICATION FairSpec
CONSTANTS
  c1 = c1
  c2 = c2
  iMC = iMC
  status = status
  None = None
  Callers <- MCCallers
  CallerOps <- OneCloser
  Names <- OneName
  MediaControl = iMC
  Xids = {1, 2, 3, 4}
  RequestQueue = 1
  MaxOutstanding = 1
  MaxEventsPerDrain = 2
  MaxDrainPasses = 2
  MaxAccepted = 1
  MaxInbound = 1
PROPERTIES
  EveryCallReturns
  LossReported
