SPECIFICATION Spec
CONSTANTS
  Hardpoints = {h1}
  RaiseIncrement = 60
  LowerDecrement = 60
  StaticThreshold = 50
  RaiseTimeout = 1
  LowerTimeout = 1
  FaultOnTimeout = TRUE
CHECK_DEADLOCK FALSE
PROPERTIES
  PausedLoweringHoldsTheWeight
