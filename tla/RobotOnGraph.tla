---------------------------- MODULE RobotOnGraph ----------------------------
(***************************************************************************)
(* What one robot's calls on the executor read from the navigation graph:  *)
(* the tick that tells RMF where the robot is (RobotState::update), a new  *)
(* path and a dock request (PathHandle), and the undock action, which runs *)
(* the search of UndockSearch.  The calls exclude one another; the robot's *)
(* feedback comes in between.                                              *)
(*                                                                         *)
(* A place is the set of the waypoints that matter there: none when the    *)
(* robot is off the graph, one when it merges onto a waypoint, both ends   *)
(* when it merges onto a lane.  A lane carries the name of the dock at its *)
(* exit.                                                                   *)
(***************************************************************************)
EXTENDS UndockSearch

CONSTANTS
  SpeedLimit   \* the limit of each pair of waypoints that is a lane; 0: none

ASSUME SpeedLimitAssumption == SpeedLimit \in [Waypoints \X Waypoints -> Nat]

VARIABLES
  seen,    \* current_position_, as a place; {} before the first tick
  nearby,  \* nearby_lanes_, in whatever order
  route,   \* the session's waypoint_graph_indices and waypoint_approach_lanes
  leg,     \* the waypoint of the route that the robot drives to
  target,  \* the session's current_target_index
  out      \* history: what the last call gave out

robotVars == <<seen, nearby, route, leg, target, out>>
graphVars == <<vars, robotVars>>

Nothing == [call |-> "none"]
Stops == [at : Waypoints \union {None}, lanes : SUBSET graph]

GraphTypeOK ==
  /\ SearchTypeOK
  /\ seen \in SUBSET Waypoints
  /\ nearby \in SUBSET graph
  /\ route \in Seq(Stops)
  /\ leg \in 0..Len(route) /\ target \in 0..leg
  /\ out.call \in {"none", "update", "dock", "path", "undock"}

GraphInit ==
  /\ SearchInit
  /\ seen = {} /\ nearby = {}
  /\ route = << >> /\ leg = 0 /\ target = 0
  /\ out = Nothing
-----------------------------------------------------------------------------
(***************************************************************************)
(* The library's side: where a robot can be merged onto the graph, and the *)
(* plans it can be given.                                                  *)
(***************************************************************************)
Connected == UNION {{l[1], l[2]} : l \in graph}

Places ==
  {{}} \union {{w} : w \in Connected} \union {{l[1], l[2]} : l \in graph}

\* The lanes of compute_plan_starts: of a robot on a lane, that lane and its
\* reverse; a robot on a waypoint starts from no lane.
StartLanes(place) ==
  {l \in graph : l[1] # l[2] /\ {l[1], l[2]} = place}

\* The waypoints of compute_plan_starts: the one the robot is on, or where the
\* lanes it is on lead to.
StartWaypoints(place) ==
  IF Cardinality(place) = 1 THEN place ELSE {l[2] : l \in StartLanes(place)}

\* After stop s of a plan: a turn in place, or the end of a lane; or of two
\* that are driven without a stop between them.
Leaving(s) == {l \in graph : s.at \in {None, l[1]}}

StopsAfter(s) ==
  {t \in {[at |-> s.at, lanes |-> {}]} : s.at # None}
  \union {[at |-> l[2], lanes |-> {l}] : l \in Leaving(s)}

StopsFarAfter(s) ==
  {[at |-> p[2][2], lanes |-> {p[1], p[2]}] :
     p \in {q \in Leaving(s) \X graph : q[1][2] = q[2][1] /\ q[2][2] # q[1][1]}}

FirstStops == [at : Connected \union {None}, lanes : {{}}]

Longer(plans) ==
  UNION {{Append(r, s) : s \in StopsAfter(r[Len(r)])} : r \in plans}

DrivenThrough(plans) ==
  UNION {{Append(r, s) : s \in StopsFarAfter(r[Len(r)])} : r \in plans}

\* Bound: plans of at most three stops, one that is driven through included.
Plans ==
  LET one == {<<s>> : s \in FirstStops} IN
  one \union Longer(one) \union Longer(Longer(one)) \union DrivenThrough(one)
-----------------------------------------------------------------------------
(***************************************************************************)
(* A tick of RobotState::update.                                           *)
(***************************************************************************)
\* Mutant: no lanes near by, if the robot is on none.
OnlyStartLanes(place) == StartLanes(place)

NearbyLanes(place) ==
  IF StartLanes(place) = {} THEN graph ELSE StartLanes(place)

\* get_navigation_lanes, with the lanes of the next waypoint if there is none
\* to this one.
NavigationLanes ==
  IF route[target + 1].lanes = {} /\ target + 1 < Len(route)
    THEN route[target + 2].lanes
    ELSE route[target + 1].lanes

Told ==
  IF target >= Len(route) THEN [call |-> "update", by |-> "map"]
  ELSE IF NavigationLanes # {}
    THEN [call |-> "update", by |-> "lanes", lanes |-> NavigationLanes]
  ELSE IF route[target + 1].at # None
    THEN [call |-> "update", by |-> "waypoint", at |-> route[target + 1].at]
  ELSE [call |-> "update", by |-> "map"]

Update(place) ==
  /\ start = None
  /\ seen' = place
  /\ nearby' = NearbyLanes(place)
  /\ out' = Told
  /\ UNCHANGED <<vars, route, leg, target>>
-----------------------------------------------------------------------------
(***************************************************************************)
(* PathHandle: a new path, and its end.                                    *)
(***************************************************************************)
\* The slowest lane that arrives at the stop.
StopLimit(s) ==
  LET limits == {SpeedLimit[l] : l \in s.lanes} \ {0} IN
  IF limits = {} THEN 0 ELSE CHOOSE m \in limits : \A n \in limits : m <= n

\* Mutant: a leg takes the limit of the waypoint it leaves.
LegsByEntry(r) == [i \in 1..(Len(r) - 1) |-> StopLimit(r[i])]

\* generate_lanes: a leg takes the limit of the waypoint it arrives at.
Legs(r) == [i \in 1..(Len(r) - 1) |-> StopLimit(r[i + 1])]

\* Mutant: the target belongs to the handle, and a new path leaves it alone.
FollowFromOldTarget(r) ==
  /\ start = None
  /\ route' = r
  /\ leg' = 0
  /\ out' = [call |-> "path", legs |-> Legs(r)]
  /\ UNCHANGED <<vars, seen, nearby, target>>

\* An empty path returns before this.  The heading of a plan of one stop is
\* left out: distances decide it (approach_yaw_for).
FollowNewPath(r) ==
  /\ start = None
  /\ route' = r
  /\ leg' = 0 /\ target' = 0
  /\ out' = [call |-> "path", legs |-> Legs(r)]
  /\ UNCHANGED <<vars, seen, nearby>>

\* The session ends: completed, failed or stopped.
EndPath ==
  /\ start = None
  /\ route # << >>
  /\ route' = << >> /\ leg' = 0 /\ target' = 0
  /\ out' = Nothing
  /\ UNCHANGED <<vars, seen, nearby>>

\* The robot drives on; past the last stop it has arrived.
DriveOn ==
  /\ leg < Len(route)
  /\ leg' = leg + 1
  /\ UNCHANGED <<vars, seen, nearby, route, target, out>>

\* Mutant: the robot reports one waypoint too many.
FeedbackPastLeg ==
  /\ route # << >>
  /\ target' = leg + 1
  /\ out' = Nothing
  /\ UNCHANGED <<vars, seen, nearby, route, leg>>

\* The estimator of the session's own goal notes what the robot reports.
Feedback ==
  /\ route # << >>
  /\ target' = leg
  /\ out' = Nothing
  /\ UNCHANGED <<vars, seen, nearby, route, leg>>
-----------------------------------------------------------------------------
(***************************************************************************)
(* PathHandle::dock.                                                       *)
(***************************************************************************)
\* RMF docks a robot that has finished its path; the request reads nothing of
\* the session anyway.
Idle == start = None /\ route = << >>

DockingLanes(w) == {l \in nearby : l[2] = w}

DockUnknown(w) ==
  /\ Idle
  /\ DockingLanes(w) = {}
  /\ out' = [call |-> "dock", dock |-> w, found |-> FALSE]
  /\ UNCHANGED <<vars, seen, nearby, route, leg, target>>

LeadsElsewhere(w, docking) == \E l \in graph : l[1] = w /\ l[2] # docking[1]

\* The robot is told to stay docked.
StayDocked(w) ==
  /\ Idle
  /\ \E docking \in DockingLanes(w) : ~LeadsElsewhere(w, docking)
  /\ out' = [call |-> "dock", dock |-> w, found |-> TRUE, motion |-> << >>]
  /\ UNCHANGED <<vars, seen, nearby, route, leg, target>>

\* The undock motion: from the dock to the entry of the lane that leaves it.
LeaveDock(w) ==
  /\ Idle
  /\ \E docking \in DockingLanes(w) : LeadsElsewhere(w, docking)
  /\ \E approach \in {l \in graph : l[1] = w} :
       out' = [call |-> "dock", dock |-> w, found |-> TRUE,
               motion |-> <<w, approach[1]>>]
  /\ UNCHANGED <<vars, seen, nearby, route, leg, target>>
-----------------------------------------------------------------------------
(***************************************************************************)
(* UndockAction: the planning, up to the search.                           *)
(***************************************************************************)
\* Mutant: the ends of the lanes are left out.
OnlyStartWaypoints(place) == StartWaypoints(place) \ {0}

\* The candidates of find_closest_waypoint; the code takes waypoint 0 for no
\* waypoint.
Candidates(place) ==
  (StartWaypoints(place) \ {0})
  \union UNION {{l[1], l[2]} : l \in StartLanes(place)}

PlanUndock(place) ==
  /\ Idle
  /\ \E w \in Candidates(place) :
       /\ BeginSearch(w)
       /\ out' = [call |-> "undock", place |-> place, from |-> w]
  /\ UNCHANGED <<seen, nearby, route, leg, target>>

UndockFails(place) ==
  /\ Idle
  /\ Candidates(place) = {}
  /\ out' = [call |-> "undock", place |-> place, from |-> None]
  /\ UNCHANGED <<vars, seen, nearby, route, leg, target>>
-----------------------------------------------------------------------------
SearchOn == SearchStep /\ UNCHANGED robotVars

GraphNext ==
  \/ \E place \in Places : Update(place) \/ PlanUndock(place) \/ UndockFails(place)
  \/ \E r \in Plans : FollowNewPath(r)
  \/ EndPath \/ DriveOn \/ Feedback
  \/ \E w \in Waypoints : DockUnknown(w) \/ StayDocked(w) \/ LeaveDock(w)
  \/ SearchOn

\* The search runs on without waiting for anything; nothing obliges RMF or the
\* robot to do anything.
GraphSpec == GraphInit /\ [][GraphNext]_graphVars /\ WF_graphVars(SearchOn)
-----------------------------------------------------------------------------
(***************************************************************************)
(* Properties.                                                             *)
(***************************************************************************)
\* RMF is never told that the robot is on a lane it has not come to: the lanes
\* are those of a leg that the robot has begun, or leave the waypoint it is
\* turning at.  Reports lag behind, and plans are replaced, but an index of an
\* old plan is never used for a new one (RobotState::update,
\* PathHandle::get_navigation_lanes).
NeverToldAhead ==
  out.call = "update" /\ out.by = "lanes" =>
    \E i \in 1..Len(route) :
      /\ out.lanes = route[i].lanes
      /\ i <= leg + 1 \/ (i = leg + 2 /\ route[leg + 1].lanes = {})

\* No leg is driven faster than the lanes it runs along allow, and none without
\* a limit if one of them has one (PathHandle::follow_new_path,
\* NavigationController::generate_lanes).
LegsWithinLimits ==
  out.call = "path" =>
    \A i \in 1..(Len(route) - 1) : \A l \in route[i + 1].lanes :
      SpeedLimit[l] # 0 => out.legs[i] \in 1..SpeedLimit[l]

\* A dock is not found only before the first tick, if no lane ends there, or if
\* the robot was last seen on a lane that does not: so never for a robot that
\* was seen on the dock itself (PathHandle::dock, RobotState::update).
DockSeenIsFound ==
  out.call = "dock" /\ ~out.found =>
    \/ seen = {} /\ nearby = {}
    \/ \A l \in graph : l[2] # out.dock
    \/ Cardinality(seen) = 2 /\ \A l \in StartLanes(seen) : l[2] # out.dock

\* An undock motion is planned from a waypoint at the robot's place, and the
\* search is given up before it starts only if the robot is off the graph, or
\* on waypoint 0 itself (UndockAction::find_closest_waypoint).
UndockStartsAtPlace ==
  out.call = "undock" =>
    /\ out.from = None => out.place \in {{}, {0}}
    /\ out.from # None => out.from \in out.place /\ start \in {None, out.from}
=============================================================================
