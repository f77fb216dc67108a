SPECIFICATION Spec
CONSTANTS
  Threads = {t1, t2, t3}
  Elements = {a, b}
  Capacity = 2
  None = None
INVARIANT NoLostWakeup
PROPERTY ImplementsFifo
