SPECIFICATION Spec
CONSTANTS
  Transitioning = FALSE
  Kinds <- RunKinds
  MaxRuns = 2
  MaxActions = 1
  MaxCommands = 1
INVARIANTS BusyIsExact FiredIsStillGood
