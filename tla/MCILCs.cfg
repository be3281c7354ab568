SPECIFICATION Spec
CONSTANTS
  Bus <- MCBus
  Hardpoints = {"h1"}
  Monitors = {"m1"}
  Far <- MCFar
  Scenarios <- MCScenarios
  Flaky = {"f2"}
  LVDTPeriod = 1
  Depth = 2
INVARIANT ILCInv
PROPERTIES ModesFollow CountRecovers StatusPolled
