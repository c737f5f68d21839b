SPECIFICATION Spec
CONSTANTS
  NameCount = 3
  Kind = {"knob", "trigger"}
  Impulse = {"trigger"}
  Smoothed = "knob"
  Manifests <- MCManifests
  Broken = Broken
  SavedSets = {{}}
  Defaulted = {}
  MaxTombstones = 2
  MaxLoads = 2
INVARIANT
  HeardIsOwn
CHECK_DEADLOCK FALSE
