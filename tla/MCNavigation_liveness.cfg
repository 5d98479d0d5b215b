\* RMF waits for each plan; no reply misses its timeout.
CONSTANTS
  MaxRequests = 2
  Preempt = FALSE
  LateReplies = FALSE
  Undocks = TRUE
SPECIFICATION FairSpec
INVARIANT
  WaitIsServed
PROPERTY
  PathResolves
