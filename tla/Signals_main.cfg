SPECIFICATION Spec
CONSTANTS
  MaxSignal = 3
  Controllers = {heater, pump}
  MaxRevisions = 1
  MaxSamples = 1
INVARIANTS NothingSpansAReplacement StoreMatchesGraph
PROPERTIES OnlySafeLoopsAreRemoved
CHECK_DEADLOCK FALSE
