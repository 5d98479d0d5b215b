\* Three executions: one that is withdrawn, one that overwrites it, and one
\* after both.
CONSTANTS
  MaxExecutions = 3
  Categories = {"undock", "go_to_place"}
  Claimed = {"undock"}
SPECIFICATION FairSpec
CHECK_DEADLOCK FALSE
INVARIANTS
  TypeOK
  AnsweredAtMostOnce
  AwaitedIsPolled
  OwnAnswer
PROPERTY
  StoredIsAnswered
