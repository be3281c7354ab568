SPECIFICATION Spec
CONSTANTS
  Count = 4
  Dual = {1, 2, 3}
  AlongX = {3}
  Near <- MCFar
  Settle = 2
  Capacity = 2
  Commands <- MCCommands
  Suspects <- MCSuspects
  Budgets <- MCBudgets
INVARIANTS BumpInv SilencedWhileTesting
PROPERTIES VerdictIsEarned TestingEnds
CHECK_DEADLOCK FALSE
