SPECIFICATION FairSpec
CONSTANTS
  Clients = {c1}
  Signals = {s1}
  Receivers = {"controller"}
CHECK_DEADLOCK FALSE
INVARIANTS
  NoLostWakeup
  OneUpdate
PROPERTIES
  ImplementsSerialExecutor
  ShutdownEnds
  UpdatesKeepComing
  CommandsAreAnswered
