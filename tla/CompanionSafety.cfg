SPECIFICATION MCSpec
CONSTANTS
  c1 = c1
  c2 = c2
  iMC = iMC
  status = status
  None = None
  Callers <- MCCallers
  CallerOps <- MixedOps
  Names <- MCNames
  MediaControl = iMC
  Xids = {1, 2, 3, 4, 5, 6}
  RequestQueue = 1
  MaxOutstanding = 2
  MaxEventsPerDrain = 1
  MaxDrainPasses = 2
  MaxAccepted = 2
  MaxInbound = 1
SYMMETRY CallerSymmetry
INVARIANTS
  TypeOK
  AnswersMatch
  StashWithinOutstanding
  NothingOutstanding
  SubscriptionsAgree
  NothingLeftRegistered
PROPERTY
  ImplementsRpcChannel
