\* One fleet, one adapter, one signal.
CONSTANTS
  Fleets = {"north"}
  MaxAdapters = 1
  MaxSignals = 1
  BatchSize = 1
SPECIFICATION Spec
CHECK_DEADLOCK FALSE
INVARIANT
  CleanupStopsAll
