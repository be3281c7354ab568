SPECIFICATION Spec
CONSTANTS
  Grace <- MCGrace
  BeatPeriod = 2
  Period = 3
  Threshold = 2
  Actuators = {"f1", "f2"}
  Scenarios <- MCScenarios
INVARIANTS NoSpuriousFault RelaysAreTruthful WindowIsExact
PROPERTIES TriggersEndWithTheirReason StuckDeviceIsFound BoosterCloses
