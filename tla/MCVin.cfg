SPECIFICATION VinFairSpec
CONSTANTS
  Resolutions = {m1, m2}
  Off = Off
  Broken = Broken
  MaxChanges = 3
  MaxFailures = 2
INVARIANT LinkedStagesAgree
PROPERTY ResolutionFollowed
CHECK_DEADLOCK FALSE
