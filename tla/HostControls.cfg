SPECIFICATION LiveSpec
CONSTANTS
  NameCount = 3
  Kind = {"knob", "trigger"}
  Impulse = {"trigger"}
  Smoothed = "knob"
  Manifests <- MCManifests
  Broken = Broken
  SavedSets = {{2, 3}}
  Defaulted = {2}
  MaxTombstones = 2
  MaxLoads = 4
INVARIANTS
  IdsNeverRebound
  RegistrySound
  RoutedToItsName
  RecordedIsOwn
PROPERTIES
  RoutingCatchesUp
CHECK_DEADLOCK FALSE
