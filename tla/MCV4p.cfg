SPECIFICATION FairSpec
CONSTANTS
  Bufs = {b1, b2}
  MaxFaults = 2
  MaxStops = 1
  None = None
INVARIANT DrmAssertsHold
INVARIANT ImportsAreOpen
INVARIANT BuffersAccounted
PROPERTY FollowsInputs
