SPECIFICATION FairSpec
CONSTANTS
  Transitioning = FALSE
  Kinds <- CompleteKinds
  MaxRuns = 1
  MaxActions = 1
  MaxCommands = 2
PROPERTIES FinalizationEnds
