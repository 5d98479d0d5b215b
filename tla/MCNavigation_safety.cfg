\* Two requests in every interleaving of the three threads; RMF may stop and replace
\* plans, and replies may miss their timeout.
CONSTANTS
  MaxRequests = 2
  Preempt = TRUE
  LateReplies = TRUE
  Undocks = TRUE
SPECIFICATION Spec
INVARIANTS
  TypeOK
  EstimatorFresh
  CompletionTruthful
  FinishedAtMostOnce
  ReplansJustified
  ActiveSessionCanEnd
PROPERTY
  KeepsPromise
