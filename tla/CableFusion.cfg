SPECIFICATION Spec
CONSTANTS
  NodeCount = 4
  Outputs <- MCOutputs
  UpdateInterval = 2
  MaxCables = 4
  MaxTicks = 3
INVARIANTS
  ComponentsRight
  NeverRejected
  CablesOnTime
CHECK_DEADLOCK FALSE
