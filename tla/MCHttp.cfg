SPECIFICATION FairSpec
CONSTANTS
  SnapshotClients = {c}
  StreamClients = {s}
  DualClients = {s}
  DropSame = 1
  ExitAfter = 2
  Second = 2
  Round = 1
  RingCapacity = 1
  MaxRequested = 2
INVARIANT NoEarlyExit
PROPERTY SnapshotsAnswered
PROPERTY StreamShowsLatest
PROPERTY ExitsWhenAlone
CHECK_DEADLOCK FALSE
