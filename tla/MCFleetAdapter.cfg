\* One robot of the configuration and one that is only discovered; the
\* adapter may fail to start.
CONSTANTS
  Robots = {"r1", "r2"}
  Static = {"r1"}
  Mapped = {"r1", "r2"}
SPECIFICATION FairSpec
CHECK_DEADLOCK FALSE
INVARIANTS
  TypeOK
  RegisteredHandleKept
  RegisteredIsUpdated
  OneSourceServed
PROPERTIES
  JoinsFleet
  LoopGoesOn
