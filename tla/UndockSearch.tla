---------------------------- MODULE UndockSearch ----------------------------
(***************************************************************************)
(* The undock plugin's search (UndockAction::generate_undock_path): breadth *)
(* first along the lanes, from the waypoint the robot is nearest to, for a *)
(* junction the robot can be driven out to.  One action is one turn of the *)
(* loop, or of its inner loop over the destinations.                       *)
(***************************************************************************)
EXTENDS Naturals, Sequences, FiniteSets

CONSTANTS
  Waypoints,  \* the indices of the graph's waypoints
  Graphs,     \* the graphs considered: sets of lanes, from entry to exit
  MaxDepth,   \* MAX_DEPTH, 5 in the code
  None        \* no waypoint

ASSUME WaypointsAssumption == Waypoints \subseteq Nat /\ None \notin Waypoints
ASSUME GraphsAssumption == Graphs \subseteq SUBSET (Waypoints \X Waypoints)
ASSUME DepthAssumption == MaxDepth \in Nat \ {0}

VARIABLES
  graph,      \* traffic_graph; the code never changes it
  searching,  \* generate_undock_path is running
  start,      \* start_waypoint, or None while the planning does not run
  queue,      \* bfs_queue: the paths; depth and waypoint follow from a path
  visited,
  path,       \* the path taken from the queue and being extended
  todo,       \* unvisited_destinations that are not in the queue yet
  answer      \* what the search returned: a path, or << >>

searchVars == <<searching, start, queue, visited, path, todo, answer>>
vars == <<graph, searchVars>>

Last(p) == p[Len(p)]
Depth(p) == Len(p) - 1

SearchTypeOK ==
  /\ graph \in Graphs
  /\ searching \in BOOLEAN
  /\ start \in Waypoints \union {None}
  /\ queue \in Seq(Seq(Waypoints))
  /\ visited \in SUBSET Waypoints
  /\ path \in Seq(Waypoints)
  /\ todo \in SUBSET Waypoints
  /\ answer \in Seq(Waypoints)

SearchInit ==
  /\ graph \in Graphs
  /\ searching = FALSE
  /\ start = None
  /\ queue = << >> /\ visited = {}
  /\ path = << >> /\ todo = {}
  /\ answer = << >>

\* distinct_neighbors: lanes count in both directions.
Neighbours(w) == {v \in Waypoints : <<w, v>> \in graph \/ <<v, w>> \in graph}

IsJunction(w) == Cardinality(Neighbours(w)) >= 3

\* Exits of get_outgoing_lanes(w).
Destinations(w) == {v \in Waypoints : <<w, v>> \in graph}

BeginSearch(w) ==
  /\ start = None
  /\ searching' = TRUE
  /\ start' = w
  /\ queue' = <<<<w>>>>
  /\ visited' = {w}
  /\ answer' = << >>
  /\ UNCHANGED <<graph, path, todo>>

\* The next path in the queue, once all destinations of the last are in it.
Front == Head(queue)
AtFront == searching /\ todo = {} /\ queue # << >>

Finish(p) ==
  /\ searching' = FALSE
  /\ answer' = p
  /\ queue' = << >> /\ visited' = {} /\ path' = << >> /\ todo' = {}
  /\ UNCHANGED <<graph, start>>

\* A path of MAX_DEPTH lanes is dropped before its end is looked at.
DropDeep ==
  /\ AtFront
  /\ Depth(Front) >= MaxDepth
  /\ queue' = Tail(queue)
  /\ UNCHANGED <<graph, searching, start, visited, path, todo, answer>>

FoundJunction ==
  /\ AtFront
  /\ Depth(Front) \in 1..(MaxDepth - 1) /\ IsJunction(Last(Front))
  /\ Finish(Front)

\* Mutant: a destination that was visited before is entered again.
ExpandAll ==
  /\ AtFront
  /\ Depth(Front) < MaxDepth
  /\ Depth(Front) = 0 \/ ~IsJunction(Last(Front))
  /\ queue' = Tail(queue)
  /\ path' = Front
  /\ todo' = Destinations(Last(Front))
  /\ UNCHANGED <<graph, searching, start, visited, answer>>

Expand ==
  /\ AtFront
  /\ Depth(Front) < MaxDepth
  /\ Depth(Front) = 0 \/ ~IsJunction(Last(Front))
  /\ queue' = Tail(queue)
  /\ path' = Front
  /\ todo' = Destinations(Last(Front)) \ visited
  /\ UNCHANGED <<graph, searching, start, visited, answer>>

\* Mutant: what was found last is looked at first.
EnqueueInFront ==
  /\ searching
  /\ \E next \in todo :
       /\ \A v \in todo : next <= v
       /\ visited' = visited \union {next}
       /\ queue' = <<Append(path, next)>> \o queue
       /\ todo' = todo \ {next}
  /\ UNCHANGED <<graph, searching, start, path, answer>>

\* A std::set is walked through in ascending order.
Enqueue ==
  /\ searching
  /\ \E next \in todo :
       /\ \A v \in todo : next <= v
       /\ visited' = visited \union {next}
       /\ queue' = Append(queue, Append(path, next))
       /\ todo' = todo \ {next}
  /\ UNCHANGED <<graph, searching, start, path, answer>>

NoJunction ==
  /\ searching /\ todo = {} /\ queue = << >>
  /\ Finish(<< >>)

\* The planning makes poses of the path and starts the motion, or fails.
TakeAnswer ==
  /\ ~searching /\ start # None
  /\ start' = None
  /\ answer' = << >>
  /\ UNCHANGED <<graph, searching, queue, visited, path, todo>>

SearchStep ==
  DropDeep \/ FoundJunction \/ Expand \/ Enqueue \/ NoJunction \/ TakeAnswer

SearchNext == SearchStep \/ \E w \in Waypoints : BeginSearch(w)

\* The loop runs on the executor, with nothing to wait for.
SearchSpec == SearchInit /\ [][SearchNext]_vars /\ WF_vars(SearchStep)
-----------------------------------------------------------------------------
(***************************************************************************)
(* Properties.                                                             *)
(***************************************************************************)
\* The search finds a shortest way to a nearest junction, or that there is none
\* less than MAX_DEPTH lanes away, and it ends: the order of the queue, the set
\* of visited waypoints and the depth together make it so
\* (generate_undock_path).
Promised == INSTANCE NearestJunction
FindsNearestJunction == Promised!Spec

\* A path that the robot is sent along never passes a waypoint twice, follows
\* the lanes in their direction, and ends away from the start at a junction
\* (generate_undock_path).
PathIsDrivable ==
  answer # << >> =>
    /\ Len(answer) \in 2..MaxDepth
    /\ answer[1] = start
    /\ \A i \in 1..(Len(answer) - 1) : <<answer[i], answer[i + 1]>> \in graph
    /\ \A i, j \in 1..Len(answer) : answer[i] = answer[j] => i = j
    /\ IsJunction(Last(answer))
=============================================================================
