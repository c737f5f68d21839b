SPECIFICATION LiveSpec
CONSTANTS
  a = a
  b = b
  c = c
  Tap = {a, b, c}
  NoTap = NoTap
  Manifests <- MCManifests
  MaxTaps = 2
  Block = 2
  TapRing = 2
  ReplanRing = 1
  BestEffort = TRUE
  MaxReloads = 2
  MaxFires = 1
INVARIANTS
  OwnHistory
  CellsKept
PROPERTIES
  HistoryKept
  MetersReturn
CHECK_DEADLOCK FALSE
