SPECIFICATION FairSpec
CONSTANTS
  Hardpoints = {h1}
  RaiseIncrement = 60
  LowerDecrement = 60
  StaticThreshold = 50
  RaiseTimeout = 1
  LowerTimeout = 1
  FaultOnTimeout = TRUE
CHECK_DEADLOCK FALSE
INVARIANTS
  SupportInv
  TimeIsBounded
PROPERTIES
  FaultPreemptsCommands
  WeightFollowsState
  ImplementsMirrorSupport
  OperationEnds
  LatchedFaultIsActedOn
