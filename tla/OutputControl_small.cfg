CONSTANTS
  NoController = NoController
  NoTarget = NoTarget
  Targets = {t1}
  Controllers = {heater}
  QueueCapacity = 2
  MaxWrites = 2
  MaxEvents = 1
  MaxInstances = 2
  MaxTransitions = 1
SPECIFICATION FairSpec
INVARIANTS ManualHolds AutomaticWritesHaveOwner SafeBeforeRelease OwnershipMatchesLoops CompletionsAreMatched
PROPERTIES KeepsOwnership CommandsReturn ConfirmsTakeovers
