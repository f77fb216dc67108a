SPECIFICATION FairSpec
CONSTANTS
  DumpClients = {}
  PythonClients = {p}
  JanusClients = {j}
  Ttl = 2
  MaxCrashes = 1
  Server = Server
  None = None
INVARIANT ReadsIntact
INVARIANT KeyRequestKept
PROPERTY ServerFollowsClients
PROPERTY KeyRequestAnswered
