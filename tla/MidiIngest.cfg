SPECIFICATION Spec
CONSTANTS
  keys = keys
  pads = pads
  Port = {keys, pads}
  Frames = 1
  SubBlock = 2
  RowSize = 1
  CarrySize = 1
  QueueSize = 2
  Lookahead = 1
  StartDelay = 0
  Jitter = 1
  MaxEvents = 3
  MaxTime = 6
INVARIANTS
  NothingLost
  LatencyBounded
PROPERTIES
  OrderKept
  NeverEarly
SYMMETRY Symmetry
CHECK_DEADLOCK FALSE
