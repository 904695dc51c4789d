SPECIFICATION Spec
CONSTANTS
  Transitioning = TRUE
  Kinds <- EnterKinds
  MaxRuns = 1
  MaxActions = 1
  MaxCommands = 1
INVARIANTS EnterActionsBeforeTransitions
