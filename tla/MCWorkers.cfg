SPECIFICATION Spec
CONSTANTS
  Workers = {w1, w2}
  MaxFrames = 2
  MaxClock = 3
  None = None
INVARIANT FoundAssert
INVARIANT WorkerNotShared
INVARIANT ExposedInStartOrder
PROPERTY PoolDies
PROPERTY JobsRun
CHECK_DEADLOCK FALSE
