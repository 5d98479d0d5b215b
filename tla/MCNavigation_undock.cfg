\* One dock request with an undock motion.
CONSTANTS
  MaxRequests = 1
  Preempt = FALSE
  LateReplies = FALSE
  Undocks = TRUE
SPECIFICATION Spec
INVARIANT
  UndockReachesRobot
