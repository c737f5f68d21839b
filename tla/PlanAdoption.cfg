SPECIFICATION ASpec
CONSTANTS
  a = a
  b = b
  osc = osc
  s1 = s1
  s2 = s2
  NodeIds = {a, b}
  Kinds = {osc}
  Settings = {s1, s2}
  PoolCapacity = 2
  PlanRing = 1
  MaxInstances = 2
  MaxReloads = 3
  BestEffort = TRUE
  CleanupRing = 2
  MaxPanics = 1
SYMMETRY Symmetry
INVARIANTS
  AdoptionSafe
  JoinedMeansDrained
PROPERTIES
  HaltSticky
  ReloadClearsHalt
CHECK_DEADLOCK FALSE
