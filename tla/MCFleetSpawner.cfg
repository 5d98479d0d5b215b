\* Two fleets, three adapters created, two signals, requests of up to two fleets.
\* The spawner really ends after a signal.
CONSTANTS
  Fleets = {"north", "south"}
  MaxAdapters = 3
  MaxSignals = 2
  BatchSize = 2
SPECIFICATION FairSpec
CHECK_DEADLOCK FALSE
INVARIANTS
  TypeOK
  OneAdapterPerFleet
  RunningAreKnown
  RunningHasConfig
  AnswersTruthful
PROPERTIES
  DeadAreForgotten
  CallsReturn
  SignalsEnd
