SPECIFICATION FairSpec
CONSTANTS
  Producers = {p}
  Consumers = {c}
  Capacity = 4
  Payloads = {x, y}
  None = None
INVARIANT PlacesPartitioned
INVARIANT NeverAborts
PROPERTY ImplementsFifo
PROPERTY ProducerGetsItem
