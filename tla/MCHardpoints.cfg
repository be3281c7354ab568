SPECIFICATION Spec
CONSTANTS
  Hardpoints = {"t", "c", "n"}
  Tension = {"t"}
  Compression = {"c"}
  Elevations = {20, 85, 95}
  IgnoreTension = 80
  IgnoreCompression = 90
  Top = 8
  NearLow = 3
  NearHigh = 5
  Reference = 4
  Starts <- MCStarts
  Forces <- MCForces
  RaiseLimits <- MCRaise
  LowerLimits <- MCLower
  MaxSteps = 2
  Margin = 2
  Fine = 1
  CompressionReadouts = 2
  Period = 2
  Full = 2
  FarAway = 20
  ReferenceSteps = 3
  Jolt = 2
  Targets = {3, 6}
  MoveSteps <- MCMoveSteps
  Scenarios <- MCScenarios
INVARIANTS HardpointInv PassedSawLimits
PROPERTIES ResumesSteadily ImplementsHardpointMotion TestsEnd
CHECK_DEADLOCK FALSE
