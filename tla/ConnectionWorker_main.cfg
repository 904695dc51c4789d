SPECIFICATION FairSpec
CONSTANTS
  Series = {"fast", "slow"}
  Interval <- TwoIntervals
  DefaultInterval = 2
  MaxPoll = 2
  MaxCommands = 2
  Capacity = 1
INVARIANTS SuspensionNeedsThreeFailures BacklogIsBounded StoppedIsClosed
PROPERTIES ServesRequests CommandsAreAnswered
CHECK_DEADLOCK FALSE
