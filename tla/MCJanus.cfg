SPECIFICATION JanusFairSpec
CONSTANTS
  Sessions = {s1, s2}
  VideoRoom = 1
  s1 = s1
  s2 = s2
  p1 = p1
  p2 = p2
  Setups <- MCSetups
INVARIANT NoUseAfterFree
INVARIANT FlagsFollowClients
PROPERTY HandlersReturn
PROPERTY KeyFrameComes
PROPERTY DevicesGivenBack
CHECK_DEADLOCK FALSE
