SPECIFICATION Spec
CONSTANTS
  MaxSignal = 3
  Controllers = {heater}
  MaxRevisions = 0
  MaxSamples = 1
INVARIANT EverythingIsFed
CHECK_DEADLOCK FALSE
