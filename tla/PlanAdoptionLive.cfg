SPECIFICATION AFairSpec
CONSTANTS
  a = a
  b = b
  osc = osc
  s1 = s1
  s2 = s2
  NodeIds = {a, b}
  Kinds = {osc}
  Settings = {s1, s2}
  PoolCapacity = 2
  PlanRing = 1
  MaxInstances = 2
  MaxReloads = 2
  BestEffort = FALSE
  CleanupRing = 2
  MaxPanics = 0
PROPERTIES
  ImplementsHandoff
  EvictedAreDropped
  DropReturns
CHECK_DEADLOCK FALSE
