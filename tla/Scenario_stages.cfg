SPECIFICATION FairSpec
CONSTANTS
  Transitioning = TRUE
  Kinds <- StageKinds
  MaxRuns = 1
  MaxActions = 2
  MaxCommands = 1
PROPERTIES SettledBeforeAdvance KeepsLifecycle BusyRunsSettle
