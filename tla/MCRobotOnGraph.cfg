\* Junctions less than three lanes away; plans of at most three stops.
CONSTANTS
  Waypoints = {0, 1, 2, 3, 4, 5}
  Graphs <- MCGraphs
  MaxDepth = 3
  None = none
  SpeedLimit <- MCSpeedLimit
SPECIFICATION GraphSpec
INVARIANTS
  GraphTypeOK
  PathIsDrivable
  NeverToldAhead
  LegsWithinLimits
  DockSeenIsFound
  UndockStartsAtPlace
PROPERTY FindsNearestJunction
