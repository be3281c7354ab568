SPECIFICATION Spec
CONSTANTS
  Watched <- MCWatched
  Forces <- MCForces
  Rate = 1
  NearZero = 1
  Limit = 2
  ThawStep = 1
  SlewSettings = {"Balance", "Acceleration"}
  Loaded = {{"Balance", "Acceleration"}, {}}
CHECK_DEADLOCK FALSE
INVARIANT DisabledAddsNothing
