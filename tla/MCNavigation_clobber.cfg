\* A callback of the old session against the new one.
CONSTANTS
  MaxRequests = 2
  Preempt = TRUE
  LateReplies = FALSE
  Undocks = FALSE
SPECIFICATION Spec
INVARIANT
  ActivePlanHasSession
