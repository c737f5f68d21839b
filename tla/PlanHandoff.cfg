SPECIFICATION FairSpec
CONSTANTS
  a = a
  b = b
  osc = osc
  vcf = vcf
  s1 = s1
  s2 = s2
  NodeIds = {a, b}
  Kinds = {osc, vcf}
  Settings = {s1, s2}
  PoolCapacity = 2
  PlanRing = 1
  MaxInstances = 3
  MaxReloads = 3
INVARIANTS
  SlotsPartitioned
  InstancesDistinct
  NextPlanFits
  MirrorMatchesPool
PROPERTIES
  ImplementsReload
  PushedIsAdopted
CHECK_DEADLOCK FALSE
