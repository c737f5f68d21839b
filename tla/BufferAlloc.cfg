SPECIFICATION Spec
CONSTANTS
  x = x
  y = y
  z = z
  Silence = Silence
  Ports = {x, y, z}
  ReservedSlots = 1
  ScratchCap = 2
  CycleCapacity = 2
  MaxPlans = 3
SYMMETRY Symmetry
INVARIANTS
  CycleSlots
  NoForeignFeedback
PROPERTIES
  FeedbackContinuous
  ExhaustedOnlyIfFull
CHECK_DEADLOCK FALSE
