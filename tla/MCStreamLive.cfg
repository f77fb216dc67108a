SPECIFICATION FairSpec
CONSTANTS
  Bufs = {b1, b2}
  Sinks = {"h264"}
  UseDrm = FALSE
  Workers = {w1}
  RawCapacity = 1
  None = None
PROPERTY StopTerminates
PROPERTY PlannedIsReleased
CHECK_DEADLOCK FALSE
