\* The durations of robot_state.cpp.
CONSTANTS
  HoldFor = 10
  BlockedFor = 8
  CooldownFor = 15
SPECIFICATION FairSpec
INVARIANTS
  TypeOK
  HoldIsInterruption
PROPERTIES
  RecoveryPaced
  HoldEnds
  BlockedIsRecovered
