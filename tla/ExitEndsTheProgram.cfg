SPECIFICATION FairSpec
CONSTANTS
  Clients = {c1}
  Signals = {}
  Receivers = {}
CHECK_DEADLOCK FALSE
PROPERTIES
  ExitEndsTheProgram
