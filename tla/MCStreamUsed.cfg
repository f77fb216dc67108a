SPECIFICATION Spec
CONSTANTS
  Bufs = {b1, b2}
  Sinks = {}
  UseDrm = FALSE
  Workers = {w1}
  RawCapacity = 1
  None = None
PROPERTY NeverAlreadyUsed
CHECK_DEADLOCK FALSE
