SPECIFICATION Spec
CONSTANTS
  c1 = c1
  c2 = c2
  iMC = iMC
  status = status
  None = None
  Callers <- MCCallers
  CallerOps <- Commands
  Names <- MCNames
  MediaControl = iMC
  Xids = {1, 2, 3, 4}
  RequestQueue = 1
  MaxOutstanding = 1
  MaxEventsPerDrain = 2
  MaxDrainPasses = 2
  MaxAccepted = 1
  MaxInbound = 2
SYMMETRY CallerSymmetry
INVARIANT
  VolumeKnownOnlyWhenControlled
