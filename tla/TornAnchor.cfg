SPECIFICATION Spec
CONSTANTS
  keys = keys
  pads = pads
  Reader = {keys}
  Ordered = FALSE
  MaxPublish = 2
INVARIANTS
  NotTorn
