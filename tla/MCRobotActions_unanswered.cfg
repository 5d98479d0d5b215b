\* One undock, then a go_to_place that no plugin claims.
CONSTANTS
  MaxExecutions = 2
  Categories = {"undock", "go_to_place"}
  Claimed = {"undock"}
SPECIFICATION FairSpec
CHECK_DEADLOCK FALSE
PROPERTY
  AcceptedIsAnswered
