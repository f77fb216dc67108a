SPECIFICATION Spec
CONSTANTS
  Bufs = {b1, b2}
  Sinks = {"raw"}
  UseDrm = TRUE
  Workers = {w1}
  RawCapacity = 1
  None = None
SYMMETRY Symmetry
INVARIANT NoUseAfterRelease
INVARIANT RefsCoverUsers
INVARIANT ReleaseAssert
INVARIANT NoUseAfterUnmap
INVARIANT IgnoredPutsSucceed
CHECK_DEADLOCK FALSE
