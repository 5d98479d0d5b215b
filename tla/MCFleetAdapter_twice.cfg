\* A robot of the configuration that the REST server lists as well.
CONSTANTS
  Robots = {"r1", "r2"}
  Static = {"r1"}
  Mapped = {"r1", "r2"}
SPECIFICATION Spec
CHECK_DEADLOCK FALSE
INVARIANT
  RegisteredOnce
