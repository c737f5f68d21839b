SPECIFICATION LiveSpec
CONSTANTS
  keys = keys
  pads = pads
  Reader = {keys, pads}
  Ordered = TRUE
  MaxPublish = 2
PROPERTIES
  ImplementsAtomic
  ReadReturns
