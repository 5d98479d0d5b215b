------------------------- MODULE RobotOnGraphProofs -------------------------
(***************************************************************************)
(* Proofs about the search of an undock path and about the calls that read *)
(* the graph, for every set of graphs, every depth and all speed limits.   *)
(***************************************************************************)
EXTENDS RobotOnGraph, Integers, FiniteSetTheorems, WellFoundedInduction, TLAPS

\* A set of natural numbers has a least one: the intervals below its members
\* are finite sets, and inclusion is well founded on those.
LEMMA LeastNatural ==
  ASSUME NEW T \in SUBSET Nat, T # {}
  PROVE  \E x \in T : \A y \in T : x <= y
<1> DEFINE Below == {0..x : x \in T}
<1>1. Below \subseteq FiniteSubsetsOf(Nat) /\ Below # {}
  <2>1. ASSUME NEW x \in T PROVE 0..x \in SUBSET Nat /\ IsFiniteSet(0..x)
    BY FS_Interval
  <2> QED BY <2>1 DEF FiniteSubsetsOf
<1>2. PICK b \in Below : \A c \in Below : <<c, b>> \notin StrictSubsetOrdering(Nat)
  <2> HIDE DEF Below
  <2> QED BY <1>1, FS_StrictSubsetOrderingWellFounded, WFMin
<1>3. PICK x \in T : b = 0..x
  OBVIOUS
<1>4. ASSUME NEW y \in T, y < x PROVE FALSE
  <2>1. 0..y \subseteq 0..x /\ x \in 0..x /\ x \notin 0..y
    BY <1>4
  <2>2. 0..y \in SUBSET Nat /\ 0..x \in SUBSET Nat
    OBVIOUS
  <2>3. <<0..y, b>> \in StrictSubsetOrdering(Nat)
    BY <1>3, <2>1, <2>2 DEF StrictSubsetOrdering
  <2> QED BY <1>2, <2>3
<1> QED BY <1>4

(***************************************************************************)
(* A path in the queue starts at s, follows the lanes of g, and consists   *)
(* of different waypoints of a set, the visited ones; n bounds its length. *)
(***************************************************************************)
GoodPath(p, s, g, within, n) ==
  /\ p \in Seq(Waypoints)
  /\ Len(p) \in 1..n
  /\ p[1] = s
  /\ \A i \in 1..(Len(p) - 1) : <<p[i], p[i + 1]>> \in g
  /\ \A i \in 1..Len(p) : p[i] \in within
  /\ \A i, j \in 1..Len(p) : p[i] = p[j] => i = j

\* A path stays good as more waypoints are visited.
LEMMA GoodPathGrows ==
  ASSUME NEW p, NEW s, NEW g, NEW v, NEW w, NEW n,
         GoodPath(p, s, g, v, n), v \subseteq w
  PROVE  GoodPath(p, s, g, w, n)
BY DEF GoodPath

\* A good path that is extended along a lane to a waypoint not visited yet is
\* a good path of one lane more.
LEMMA GoodPathExtends ==
  ASSUME NEW p, NEW s, NEW g, NEW v, NEW n \in Nat, NEW w \in Waypoints,
         GoodPath(p, s, g, v, n), w \notin v, <<Last(p), w>> \in g
  PROVE  GoodPath(Append(p, w), s, g, v \union {w}, n + 1)
<1> DEFINE q == Append(p, w)
<1>1. /\ p \in Seq(Waypoints) /\ Len(p) \in 1..n /\ Len(p) \in Nat
  BY DEF GoodPath
<1>2. /\ q \in Seq(Waypoints) /\ Len(q) = Len(p) + 1 /\ q[Len(p) + 1] = w
      /\ \A i \in 1..Len(p) : q[i] = p[i]
  BY <1>1
<1>3. q[1] = s
  BY <1>1, <1>2 DEF GoodPath
<1>4. ASSUME NEW i \in 1..(Len(q) - 1)
      PROVE  <<q[i], q[i + 1]>> \in g
  <2>1. CASE i = Len(p)
    <3>1. q[i] = Last(p) /\ q[i + 1] = w
      BY <1>1, <1>2, <2>1 DEF Last
    <3> QED BY <3>1
  <2>2. CASE i # Len(p)
    <3>1. i \in 1..(Len(p) - 1) /\ q[i] = p[i] /\ q[i + 1] = p[i + 1]
      BY <1>1, <1>2, <2>2
    <3> QED BY <3>1 DEF GoodPath
  <2> QED BY <2>1, <2>2
<1>5. \A i \in 1..Len(p) : q[i] \in v /\ q[i] # w
  BY <1>2 DEF GoodPath
<1>6. \A i \in 1..Len(q) : i \in 1..Len(p) \/ i = Len(p) + 1
  BY <1>1, <1>2
<1>7. \A i \in 1..Len(q) : q[i] \in v \union {w}
  BY <1>2, <1>5, <1>6
<1>8. \A i, j \in 1..Len(p) : q[i] = q[j] => i = j
  BY <1>2 DEF GoodPath
<1>9. \A i, j \in 1..Len(q) : q[i] = q[j] => i = j
  BY <1>2, <1>5, <1>6, <1>8
<1>10. Len(q) \in 1..(n + 1)
  BY <1>1, <1>2
<1> HIDE DEF q
<1>11. GoodPath(q, s, g, v \union {w}, n + 1)
  BY <1>2, <1>3, <1>4, <1>7, <1>9, <1>10 DEF GoodPath
<1> QED BY <1>11 DEF q

(***************************************************************************)
(* The inductive invariant of the search: the queue holds good paths, and  *)
(* what is to be put into the queue was not visited and lies one lane from *)
(* the end of the path that is extended.                                   *)
(***************************************************************************)
GoodQueue ==
  \A k \in 1..Len(queue) : GoodPath(queue[k], start, graph, visited, MaxDepth + 1)

GoodTodo ==
  todo # {} =>
    /\ GoodPath(path, start, graph, visited, MaxDepth)
    /\ \A w \in todo : w \notin visited /\ <<Last(path), w>> \in graph

SearchInv ==
  /\ SearchTypeOK
  /\ searching => start # None
  /\ ~searching => queue = << >> /\ todo = {}
  /\ GoodQueue
  /\ GoodTodo
  /\ PathIsDrivable

LEMMA EmptySequences ==
  << >> \in Seq(Waypoints) /\ << >> \in Seq(Seq(Waypoints)) /\ Len(<< >>) = 0
<1>1. \A S : << >> \in Seq(S)
  OBVIOUS
<1> QED BY <1>1

LEMMA SearchInvInit == SearchInit => SearchInv
<1> SUFFICES ASSUME SearchInit PROVE SearchInv
  OBVIOUS
<1>1. SearchTypeOK
  BY EmptySequences DEF SearchInit, SearchTypeOK
<1>2. queue = << >> /\ todo = {} /\ answer = << >> /\ searching = FALSE
  BY DEF SearchInit
<1>3. GoodQueue /\ GoodTodo /\ PathIsDrivable
  BY <1>2 DEF GoodQueue, GoodTodo, PathIsDrivable
<1> QED BY <1>1, <1>2, <1>3 DEF SearchInv

\* The front of a queue of good paths is one, and so is each path that is left.
LEMMA FrontIsGood ==
  ASSUME SearchTypeOK, GoodQueue, queue # << >>
  PROVE  /\ Front \in Seq(Waypoints)
         /\ GoodPath(Front, start, graph, visited, MaxDepth + 1)
         /\ Tail(queue) \in Seq(Seq(Waypoints))
         /\ \A k \in 1..Len(Tail(queue)) :
              GoodPath(Tail(queue)[k], start, graph, visited, MaxDepth + 1)
<1>1. queue \in Seq(Seq(Waypoints)) /\ Len(queue) \in Nat /\ Len(queue) >= 1
  BY DEF SearchTypeOK
<1>2. Front = queue[1] /\ queue[1] \in Seq(Waypoints)
  BY <1>1 DEF Front
<1>3. /\ Tail(queue) \in Seq(Seq(Waypoints))
      /\ Len(Tail(queue)) = Len(queue) - 1
      /\ \A k \in 1..Len(Tail(queue)) : Tail(queue)[k] = queue[k + 1]
  BY <1>1
<1>4. \A k \in 1..Len(Tail(queue)) : k + 1 \in 1..Len(queue)
  BY <1>1, <1>3
<1> QED BY <1>1, <1>2, <1>3, <1>4 DEF GoodQueue

\* A step of the search keeps the invariant.
LEMMA SearchInvStep ==
  ASSUME SearchInv, SearchStep \/ \E w \in Waypoints : BeginSearch(w)
  PROVE  SearchInv'
<1> USE DepthAssumption, WaypointsAssumption
<1>1. ASSUME NEW w \in Waypoints, BeginSearch(w)
      PROVE  SearchInv'
  <2>1. SearchTypeOK' /\ start' # None
    BY <1>1 DEF SearchInv, SearchTypeOK, BeginSearch
  <2>2. GoodPath(<<w>>, w, graph, {w}, MaxDepth + 1)
    BY DEF GoodPath
  <2>3. GoodQueue'
    BY <1>1, <2>2 DEF BeginSearch, GoodQueue
  <2>4. todo = {}
    BY <1>1 DEF SearchInv, GoodTodo, BeginSearch, GoodPath, SearchTypeOK
  <2> QED BY <1>1, <2>1, <2>3, <2>4 DEF BeginSearch, SearchInv, GoodTodo, PathIsDrivable
<1>2. ASSUME DropDeep PROVE SearchInv'
  <2>1. /\ Tail(queue) \in Seq(Seq(Waypoints))
        /\ \A k \in 1..Len(Tail(queue)) :
             GoodPath(Tail(queue)[k], start, graph, visited, MaxDepth + 1)
    BY <1>2, FrontIsGood DEF SearchInv, DropDeep, AtFront
  <2> QED BY <1>2, <2>1 DEF SearchInv, SearchTypeOK, DropDeep, GoodQueue, GoodTodo,
          PathIsDrivable, IsJunction, Neighbours
<1>3. ASSUME FoundJunction PROVE SearchInv'
  <2>1. PICK p : p = Front
    OBVIOUS
  <2>2. p \in Seq(Waypoints) /\ GoodPath(p, start, graph, visited, MaxDepth + 1)
    BY <1>3, <2>1, FrontIsGood DEF SearchInv, FoundJunction, AtFront
  <2>3. /\ Len(p) - 1 \in 1..(MaxDepth - 1) /\ IsJunction(Last(p))
        /\ answer' = p /\ start' = start /\ graph' = graph
        /\ queue' = << >> /\ visited' = {} /\ path' = << >> /\ todo' = {}
        /\ searching' = FALSE
    BY <1>3, <2>1 DEF FoundJunction, Finish, Depth
  <2>4. Len(p) \in 2..MaxDepth
    BY <2>2, <2>3
  <2>5. IsJunction(Last(p))'
    BY <2>3 DEF IsJunction, Neighbours, Last
  <2>6. PathIsDrivable'
    BY <2>2, <2>3, <2>4, <2>5 DEF PathIsDrivable, GoodPath, Last
  <2>7. SearchTypeOK'
    BY <2>2, <2>3, EmptySequences DEF SearchInv, SearchTypeOK
  <2> QED BY <2>3, <2>6, <2>7 DEF SearchInv, GoodQueue, GoodTodo
<1>4. ASSUME Expand PROVE SearchInv'
  <2>1. /\ Front \in Seq(Waypoints)
        /\ GoodPath(Front, start, graph, visited, MaxDepth + 1)
        /\ Tail(queue) \in Seq(Seq(Waypoints))
        /\ \A k \in 1..Len(Tail(queue)) :
             GoodPath(Tail(queue)[k], start, graph, visited, MaxDepth + 1)
    BY <1>4, FrontIsGood DEF SearchInv, Expand, AtFront
  <2>2. Len(Front) - 1 < MaxDepth /\ Len(Front) \in Nat
    BY <1>4, <2>1 DEF Expand, Depth
  <2>3. GoodPath(Front, start, graph, visited, MaxDepth)
    BY <2>1, <2>2 DEF GoodPath
  <2>4. /\ path' = Front /\ queue' = Tail(queue)
        /\ todo' = {w \in Waypoints : <<Last(Front), w>> \in graph} \ visited
        /\ UNCHANGED <<graph, searching, start, visited, answer>>
    BY <1>4 DEF Expand, Destinations
  <2>5. SearchTypeOK'
    BY <2>1, <2>4 DEF SearchInv, SearchTypeOK
  <2>6. GoodQueue'
    BY <2>1, <2>4 DEF GoodQueue
  <2>7. GoodTodo'
    BY <2>3, <2>4 DEF GoodTodo, Last
  <2>8. PathIsDrivable'
    BY <2>4 DEF SearchInv, PathIsDrivable, IsJunction, Neighbours, Last
  <2>9. searching
    BY <1>4 DEF Expand, AtFront
  <2> QED BY <2>4, <2>5, <2>6, <2>7, <2>8, <2>9 DEF SearchInv
<1>5. ASSUME Enqueue PROVE SearchInv'
  <2>1. PICK next \in todo :
          /\ visited' = visited \union {next}
          /\ queue' = Append(queue, Append(path, next))
          /\ todo' = todo \ {next}
    BY <1>5 DEF Enqueue
  <2>2. searching /\ UNCHANGED <<graph, searching, start, path, answer>>
    BY <1>5 DEF Enqueue
  <2>3. /\ GoodPath(path, start, graph, visited, MaxDepth)
        /\ next \in Waypoints /\ next \notin visited /\ <<Last(path), next>> \in graph
    BY <2>1 DEF SearchInv, GoodTodo, SearchTypeOK
  <2>4. PICK p : p = Append(path, next)
    OBVIOUS
  <2>5. GoodPath(p, start, graph, visited \union {next}, MaxDepth + 1)
    BY <2>3, <2>4, GoodPathExtends
  <2>6. p \in Seq(Waypoints)
    BY <2>5 DEF GoodPath
  <2>7. queue' = Append(queue, p) /\ queue \in Seq(Seq(Waypoints))
    BY <2>1, <2>4 DEF SearchInv, SearchTypeOK
  <2>8. /\ queue' \in Seq(Seq(Waypoints)) /\ Len(queue') = Len(queue) + 1
        /\ queue'[Len(queue) + 1] = p
        /\ \A k \in 1..Len(queue) : queue'[k] = queue[k]
    BY <2>6, <2>7
  <2>9. \A k \in 1..Len(queue) :
          GoodPath(queue[k], start, graph, visited \union {next}, MaxDepth + 1)
    BY GoodPathGrows DEF SearchInv, GoodQueue
  <2>10. GoodQueue'
    <3>1. ASSUME NEW k \in 1..Len(queue')
          PROVE  GoodPath(queue'[k], start, graph, visited \union {next}, MaxDepth + 1)
      <4>1. k \in 1..Len(queue) \/ k = Len(queue) + 1
        BY <2>7, <2>8
      <4> QED BY <2>5, <2>8, <2>9, <4>1
    <3> QED BY <2>1, <2>2, <3>1 DEF GoodQueue
  <2>11. GoodTodo'
    <3>1. GoodPath(path, start, graph, visited \union {next}, MaxDepth)
      BY <2>3, GoodPathGrows
    <3> QED BY <2>1, <2>2, <3>1 DEF SearchInv, GoodTodo, Last
  <2>12. SearchTypeOK'
    BY <2>1, <2>2, <2>3, <2>8 DEF SearchInv, SearchTypeOK
  <2>13. PathIsDrivable'
    BY <2>2 DEF SearchInv, PathIsDrivable, IsJunction, Neighbours, Last
  <2> QED BY <2>2, <2>10, <2>11, <2>12, <2>13 DEF SearchInv
<1>6. ASSUME NoJunction PROVE SearchInv'
  <2>1. /\ queue' = << >> /\ todo' = {} /\ answer' = << >> /\ searching' = FALSE
        /\ visited' = {} /\ path' = << >> /\ UNCHANGED <<graph, start>>
    BY <1>6 DEF NoJunction, Finish
  <2>2. SearchTypeOK'
    BY <2>1, EmptySequences DEF SearchInv, SearchTypeOK
  <2>3. GoodQueue' /\ GoodTodo' /\ PathIsDrivable'
    BY <2>1 DEF GoodQueue, GoodTodo, PathIsDrivable
  <2> QED BY <2>1, <2>2, <2>3 DEF SearchInv
<1>7. ASSUME TakeAnswer PROVE SearchInv'
  <2>1. /\ ~searching /\ start' = None /\ answer' = << >>
        /\ UNCHANGED <<graph, searching, queue, visited, path, todo>>
    BY <1>7 DEF TakeAnswer
  <2>2. SearchTypeOK'
    BY <2>1 DEF SearchInv, SearchTypeOK
  <2>3. PathIsDrivable'
    BY <2>1 DEF PathIsDrivable
  <2>4. queue' = << >> /\ todo' = {}
    BY <2>1 DEF SearchInv
  <2>5. GoodQueue' /\ GoodTodo'
    BY <2>4, EmptySequences DEF GoodQueue, GoodTodo
  <2> QED BY <2>1, <2>2, <2>3, <2>4, <2>5 DEF SearchInv
<1> QED
  BY <1>1, <1>2, <1>3, <1>4, <1>5, <1>6, <1>7 DEF SearchStep

LEMMA SearchInvStutters ==
  ASSUME SearchInv, UNCHANGED vars
  PROVE  SearchInv'
BY DEF SearchInv, SearchTypeOK, GoodQueue, GoodTodo, PathIsDrivable, IsJunction,
       Neighbours, Last, vars, searchVars

(***************************************************************************)
(* The calls of the executor.                                              *)
(***************************************************************************)
\* What a plan is appended with is a stop, so a plan is a sequence of stops.
LEMMA LongerPlans ==
  ASSUME graph \subseteq Waypoints \X Waypoints,
         NEW plans, \A r \in plans : r \in Seq(Stops) /\ Len(r) >= 1
  PROVE  /\ \A r \in Longer(plans) : r \in Seq(Stops) /\ Len(r) >= 1
         /\ \A r \in DrivenThrough(plans) : r \in Seq(Stops) /\ Len(r) >= 1
<1>1. ASSUME NEW s \in Stops
      PROVE  StopsAfter(s) \subseteq Stops /\ StopsFarAfter(s) \subseteq Stops
  BY DEF Stops, StopsAfter, StopsFarAfter, Leaving
<1>2. ASSUME NEW r \in plans, NEW s \in Stops
      PROVE  Append(r, s) \in Seq(Stops) /\ Len(Append(r, s)) >= 1
  <2>1. r \in Seq(Stops) /\ Len(r) \in Nat
    OBVIOUS
  <2> QED BY <2>1
<1>3. ASSUME NEW r \in plans
      PROVE  r[Len(r)] \in Stops
  <2>1. r \in Seq(Stops) /\ Len(r) \in Nat /\ Len(r) >= 1
    OBVIOUS
  <2> QED BY <2>1
<1> QED BY <1>1, <1>2, <1>3 DEF Longer, DrivenThrough

LEMMA PlansAreRoutes ==
  ASSUME graph \subseteq Waypoints \X Waypoints
  PROVE  \A r \in Plans : r \in Seq(Stops) /\ Len(r) >= 1
<1> DEFINE one == {<<s>> : s \in FirstStops}
<1>1. \A s \in FirstStops : s \in Stops
  BY DEF FirstStops, Stops, Connected
<1>2. \A r \in one : r \in Seq(Stops) /\ Len(r) >= 1
  <2>1. ASSUME NEW s \in Stops PROVE <<s>> \in Seq(Stops) /\ Len(<<s>>) >= 1
    OBVIOUS
  <2> QED BY <1>1, <2>1
<1> HIDE DEF one
<1>3. \A r \in Longer(one) \union DrivenThrough(one) : r \in Seq(Stops) /\ Len(r) >= 1
  BY <1>2, LongerPlans
<1>4. \A r \in Longer(Longer(one)) : r \in Seq(Stops) /\ Len(r) >= 1
  BY <1>3, LongerPlans
<1> QED BY <1>2, <1>3, <1>4 DEF Plans, one

(***************************************************************************)
(* The inductive invariant: the lanes near by are those of the last place  *)
(* seen, and what a call gave out stays true to the route while it is the  *)
(* last call.                                                              *)
(***************************************************************************)
NearbyOfSeen == (seen = {} /\ nearby = {}) \/ nearby = NearbyLanes(seen)

PathGivenOut ==
  out.call = "path" => out.legs = Legs(route)

RobotInv ==
  /\ SearchInv
  /\ GraphTypeOK
  /\ NearbyOfSeen
  /\ PathGivenOut
  /\ NeverToldAhead
  /\ DockSeenIsFound
  /\ UndockStartsAtPlace

LEMMA CardinalityOfPair ==
  ASSUME NEW a, NEW b, a # b
  PROVE  Cardinality({a, b}) = 2
<1>1. IsFiniteSet({a}) /\ Cardinality({a}) = 1 /\ b \notin {a}
  BY FS_Singleton
<1>2. {a, b} = {a} \union {b}
  OBVIOUS
<1>3. Cardinality({a} \union {b}) = Cardinality({a}) + 1
  BY <1>1, FS_AddElement
<1> QED BY <1>1, <1>2, <1>3

LEMMA GraphIsLanes ==
  ASSUME GraphTypeOK
  PROVE  graph \subseteq Waypoints \X Waypoints
BY GraphsAssumption DEF GraphTypeOK, SearchTypeOK

LEMMA RobotInvInit == GraphInit => RobotInv
<1> SUFFICES ASSUME GraphInit PROVE RobotInv
  OBVIOUS
<1>1. SearchInv
  BY SearchInvInit DEF GraphInit
<1>2. /\ seen = {} /\ nearby = {} /\ route = << >> /\ leg = 0 /\ target = 0
      /\ out = Nothing
  BY DEF GraphInit
<1>3. GraphTypeOK
  BY <1>1, <1>2 DEF GraphTypeOK, SearchInv, Nothing
<1> QED BY <1>1, <1>2, <1>3 DEF RobotInv, NearbyOfSeen, PathGivenOut, NeverToldAhead,
        DockSeenIsFound, UndockStartsAtPlace, Nothing

\* A tick: what RMF is told is read off the route.
LEMMA UpdateKeepsInv ==
  ASSUME RobotInv, NEW place \in Places, Update(place)
  PROVE  RobotInv'
<1>1. /\ seen' = place /\ nearby' = NearbyLanes(place) /\ out' = Told
      /\ UNCHANGED vars /\ UNCHANGED <<route, leg, target>>
  BY DEF Update
<1>2. graph' = graph /\ start' = start
  BY <1>1 DEF vars, searchVars
<1>3. SearchInv'
  BY <1>1, SearchInvStutters DEF RobotInv
<1>4. /\ route \in Seq(Stops) /\ Len(route) \in Nat
      /\ leg \in 0..Len(route) /\ target \in 0..leg
  BY DEF RobotInv, GraphTypeOK
<1>5. out'.call = "update"
  BY <1>1 DEF Told
<1>6. place \subseteq Waypoints /\ NearbyLanes(place) \subseteq graph
  BY GraphIsLanes DEF RobotInv, Places, Connected, NearbyLanes, StartLanes
<1>7. Stops' = Stops
  BY <1>2 DEF Stops
<1>8. GraphTypeOK'
  BY <1>1, <1>2, <1>3, <1>4, <1>5, <1>6, <1>7 DEF GraphTypeOK, SearchInv
<1>9. NearbyOfSeen'
  BY <1>1, <1>2 DEF NearbyOfSeen, NearbyLanes, StartLanes
<1>10. NeverToldAhead'
  <2>1. SUFFICES ASSUME Told.by = "lanes"
                 PROVE  \E i \in 1..Len(route) :
                          /\ Told.lanes = route[i].lanes
                          /\ i <= leg + 1 \/ (i = leg + 2 /\ route[leg + 1].lanes = {})
    BY <1>1 DEF NeverToldAhead
  <2>2. target < Len(route) /\ Told.lanes = NavigationLanes
    BY <1>4, <2>1 DEF Told
  <2>3. CASE route[target + 1].lanes = {} /\ target + 1 < Len(route)
    <3>1. Told.lanes = route[target + 2].lanes
      BY <2>2, <2>3 DEF NavigationLanes
    <3>2. target + 2 \in 1..Len(route) /\ (target + 2 <= leg + 1 \/ target = leg)
      BY <1>4, <2>3
    <3> QED BY <1>4, <2>3, <3>1, <3>2
  <2>4. CASE ~(route[target + 1].lanes = {} /\ target + 1 < Len(route))
    <3>1. Told.lanes = route[target + 1].lanes
      BY <2>2, <2>4 DEF NavigationLanes
    <3>2. target + 1 \in 1..Len(route) /\ target + 1 <= leg + 1
      BY <1>4, <2>2
    <3> QED BY <3>1, <3>2
  <2> QED BY <2>3, <2>4
<1>11. PathGivenOut' /\ DockSeenIsFound' /\ UndockStartsAtPlace'
  BY <1>5 DEF PathGivenOut, DockSeenIsFound, UndockStartsAtPlace
<1> QED BY <1>3, <1>8, <1>9, <1>10, <1>11 DEF RobotInv

\* A new path: the target starts anew with the robot's progress.
LEMMA FollowNewPathKeepsInv ==
  ASSUME RobotInv, NEW r \in Plans, FollowNewPath(r)
  PROVE  RobotInv'
<1>1. /\ route' = r /\ leg' = 0 /\ target' = 0
      /\ UNCHANGED vars /\ UNCHANGED <<seen, nearby>>
  BY DEF FollowNewPath
<1>2. out' = [call |-> "path", legs |-> Legs(r)]
  BY DEF FollowNewPath
<1>3. graph' = graph /\ start' = start
  BY <1>1 DEF vars, searchVars
<1>4. SearchInv'
  BY <1>1, SearchInvStutters DEF RobotInv
<1>5. r \in Seq(Stops) /\ Stops' = Stops
  BY <1>3, GraphIsLanes, PlansAreRoutes DEF RobotInv, Stops
<1>6. Len(r) \in Nat
  BY <1>5
<1>7. out'.call = "path" /\ out'.legs = Legs(r)
  BY <1>2
<1>8. GraphTypeOK'
  BY <1>1, <1>3, <1>4, <1>5, <1>6, <1>7 DEF RobotInv, GraphTypeOK, SearchInv
<1>9. NearbyOfSeen'
  BY <1>1, <1>3 DEF RobotInv, NearbyOfSeen, NearbyLanes, StartLanes
<1>10. PathGivenOut'
  BY <1>1, <1>7 DEF PathGivenOut, Legs, StopLimit
<1>11. NeverToldAhead' /\ DockSeenIsFound' /\ UndockStartsAtPlace'
  BY <1>7 DEF NeverToldAhead, DockSeenIsFound, UndockStartsAtPlace
<1> QED BY <1>4, <1>8, <1>9, <1>10, <1>11 DEF RobotInv

\* A session's end and feedback give nothing out; the robot may drive on.
LEMMA SessionKeepsInv ==
  ASSUME RobotInv, EndPath \/ DriveOn \/ Feedback
  PROVE  RobotInv'
<1>1. UNCHANGED vars /\ UNCHANGED <<seen, nearby>>
  BY DEF EndPath, DriveOn, Feedback
<1>2. graph' = graph /\ start' = start
  BY <1>1 DEF vars, searchVars
<1>3. SearchInv'
  BY <1>1, SearchInvStutters DEF RobotInv
<1>4. /\ route \in Seq(Stops) /\ Len(route) \in Nat
      /\ leg \in 0..Len(route) /\ target \in 0..leg
  BY DEF RobotInv, GraphTypeOK
<1>5. Stops' = Stops /\ << >> \in Seq(Stops) /\ Len(<< >>) = 0
  BY <1>2, EmptySequences DEF Stops
<1>6. NearbyOfSeen'
  BY <1>1, <1>2 DEF RobotInv, NearbyOfSeen, NearbyLanes, StartLanes
<1>7. CASE EndPath \/ Feedback
  <2>1. out' = Nothing
    BY <1>7 DEF EndPath, Feedback
  <2>2. out'.call = "none"
    BY <2>1 DEF Nothing
  <2>3. GraphTypeOK'
    <3>1. \/ route' = << >> /\ leg' = 0 /\ target' = 0
          \/ route' = route /\ leg' = leg /\ target' = leg
      BY <1>7 DEF EndPath, Feedback
    <3>2. CASE route' = << >> /\ leg' = 0 /\ target' = 0
      <4>1. route' \in Seq(Stops) /\ leg' \in 0..Len(route') /\ target' \in 0..leg'
        BY <1>5, <3>2
      <4> QED BY <1>1, <1>2, <1>3, <1>5, <2>2, <4>1 DEF RobotInv, GraphTypeOK, SearchInv
    <3>3. CASE route' = route /\ leg' = leg /\ target' = leg
      <4>1. route' \in Seq(Stops) /\ leg' \in 0..Len(route') /\ target' \in 0..leg'
        BY <1>4, <3>3
      <4> QED BY <1>1, <1>2, <1>3, <1>5, <2>2, <4>1 DEF RobotInv, GraphTypeOK, SearchInv
    <3> QED BY <3>1, <3>2, <3>3
  <2> QED BY <1>3, <1>6, <2>2, <2>3 DEF RobotInv, PathGivenOut, NeverToldAhead,
          DockSeenIsFound, UndockStartsAtPlace
<1>8. CASE DriveOn
  <2>1. leg < Len(route) /\ leg' = leg + 1 /\ UNCHANGED <<route, target, out>>
    BY <1>8 DEF DriveOn
  <2>2. GraphTypeOK'
    <3>1. leg' \in 0..Len(route') /\ target' \in 0..leg'
      BY <1>4, <2>1
    <3> QED BY <1>1, <1>2, <1>3, <1>4, <1>5, <2>1, <3>1 DEF RobotInv, GraphTypeOK, SearchInv
  <2>3. NeverToldAhead'
    BY <1>4, <2>1 DEF RobotInv, NeverToldAhead
  <2>4. PathGivenOut'
    BY <1>1, <1>2, <2>1 DEF RobotInv, PathGivenOut, Legs, StopLimit
  <2>5. DockSeenIsFound' /\ UndockStartsAtPlace'
    BY <1>1, <1>2, <2>1 DEF RobotInv, DockSeenIsFound, UndockStartsAtPlace, StartLanes
  <2> QED BY <1>3, <1>6, <2>2, <2>3, <2>4, <2>5 DEF RobotInv
<1> QED BY <1>7, <1>8

\* A dock request: the lanes near by tell whether the dock is known.
LEMMA DockKeepsInv ==
  ASSUME RobotInv, NEW w \in Waypoints, DockUnknown(w) \/ StayDocked(w) \/ LeaveDock(w)
  PROVE  RobotInv'
<1>1. UNCHANGED vars /\ UNCHANGED <<seen, nearby, route, leg, target>>
  BY DEF DockUnknown, StayDocked, LeaveDock
<1>2. graph' = graph /\ start' = start
  BY <1>1 DEF vars, searchVars
<1>3. SearchInv'
  BY <1>1, SearchInvStutters DEF RobotInv
<1>4. out'.call = "dock"
  BY DEF DockUnknown, StayDocked, LeaveDock
<1>5. GraphTypeOK'
  BY <1>1, <1>2, <1>3, <1>4 DEF RobotInv, GraphTypeOK, SearchInv, Stops
<1>6. NearbyOfSeen'
  BY <1>1, <1>2 DEF RobotInv, NearbyOfSeen, NearbyLanes, StartLanes
<1>7. DockSeenIsFound'
  <2>1. CASE DockUnknown(w)
    <3>1. out' = [call |-> "dock", dock |-> w, found |-> FALSE] /\ \A l \in nearby : l[2] # w
      BY <2>1 DEF DockUnknown, DockingLanes
    <3>2. \/ seen = {} /\ nearby = {}
          \/ nearby = graph /\ \A l \in graph : l[2] # w
          \/ StartLanes(seen) # {} /\ \A l \in StartLanes(seen) : l[2] # w
      BY <3>1 DEF RobotInv, NearbyOfSeen, NearbyLanes
    <3>3. StartLanes(seen) # {} => Cardinality(seen) = 2
      <4>1. ASSUME NEW l \in graph, l[1] # l[2], {l[1], l[2]} = seen
            PROVE  Cardinality(seen) = 2
        BY <4>1, CardinalityOfPair
      <4> QED BY <4>1 DEF StartLanes
    <3> QED BY <1>1, <1>2, <3>1, <3>2, <3>3 DEF DockSeenIsFound, StartLanes
  <2>2. CASE StayDocked(w) \/ LeaveDock(w)
    <3>1. out'.found = TRUE
      BY <2>2 DEF StayDocked, LeaveDock
    <3> QED BY <3>1 DEF DockSeenIsFound
  <2> QED BY <2>1, <2>2
<1>8. PathGivenOut' /\ NeverToldAhead' /\ UndockStartsAtPlace'
  BY <1>4 DEF PathGivenOut, NeverToldAhead, UndockStartsAtPlace
<1> QED BY <1>3, <1>5, <1>6, <1>7, <1>8 DEF RobotInv

\* The planning of an undock motion, up to the search.
LEMMA PlanningKeepsInv ==
  ASSUME RobotInv, NEW place \in Places, PlanUndock(place) \/ UndockFails(place)
  PROVE  RobotInv'
<1>1. /\ UNCHANGED <<seen, nearby, route, leg, target>> /\ graph' = graph
      /\ out'.call = "undock"
  BY DEF PlanUndock, UndockFails, BeginSearch, vars
<1>2. SearchInv'
  <2>1. CASE PlanUndock(place)
    <3>1. PICK w \in Candidates(place) : BeginSearch(w)
      BY <2>1 DEF PlanUndock
    <3>2. w \in Waypoints
      BY GraphIsLanes DEF RobotInv, Candidates, StartWaypoints, StartLanes, Places, Connected
    <3> QED BY <3>1, <3>2, SearchInvStep DEF RobotInv
  <2>2. CASE UndockFails(place)
    BY <2>2, SearchInvStutters DEF RobotInv, UndockFails
  <2> QED BY <2>1, <2>2
<1>3. GraphTypeOK'
  BY <1>1, <1>2 DEF RobotInv, GraphTypeOK, SearchInv, Stops
<1>4. NearbyOfSeen'
  BY <1>1 DEF RobotInv, NearbyOfSeen, NearbyLanes, StartLanes
<1>5. UndockStartsAtPlace'
  <2>1. CASE PlanUndock(place)
    <3>1. PICK w \in Candidates(place) :
            /\ BeginSearch(w)
            /\ out' = [call |-> "undock", place |-> place, from |-> w]
      BY <2>1 DEF PlanUndock
    <3>2. w \in place /\ w \in Waypoints
      BY GraphIsLanes DEF RobotInv, Candidates, StartWaypoints, StartLanes, Places, Connected
    <3>3. start' = w /\ w # None
      BY <3>1, <3>2, WaypointsAssumption DEF BeginSearch
    <3> QED BY <3>1, <3>2, <3>3 DEF UndockStartsAtPlace
  <2>2. CASE UndockFails(place)
    <3>1. /\ Candidates(place) = {}
          /\ out' = [call |-> "undock", place |-> place, from |-> None]
      BY <2>2 DEF UndockFails
    <3>2. ASSUME NEW l \in graph, place = {l[1], l[2]}, l[1] # l[2]
          PROVE  FALSE
      BY <3>1, <3>2 DEF Candidates, StartLanes
    <3>3. ASSUME NEW w \in Waypoints, place = {w}, w # 0
          PROVE  FALSE
      <4>1. Cardinality(place) = 1
        BY <3>3, FS_Singleton
      <4> QED BY <3>1, <3>3, <4>1 DEF Candidates, StartWaypoints
    <3>4. place \in {{}, {0}}
      BY <3>2, <3>3, GraphIsLanes DEF RobotInv, Places, Connected
    <3> QED BY <3>1, <3>4 DEF UndockStartsAtPlace
  <2> QED BY <2>1, <2>2
<1>6. PathGivenOut' /\ NeverToldAhead' /\ DockSeenIsFound'
  BY <1>1 DEF PathGivenOut, NeverToldAhead, DockSeenIsFound
<1> QED BY <1>2, <1>3, <1>4, <1>5, <1>6 DEF RobotInv

\* The search itself leaves what was given out alone.
LEMMA SearchOnKeepsInv ==
  ASSUME RobotInv, SearchOn
  PROVE  RobotInv'
<1>1. UNCHANGED <<seen, nearby, route, leg, target, out>> /\ SearchStep
  BY DEF SearchOn, robotVars
<1>2. graph' = graph /\ start' \in {start, None}
  BY <1>1 DEF SearchStep, DropDeep, FoundJunction, Expand, Enqueue, NoJunction,
     TakeAnswer, Finish
<1>3. SearchInv'
  BY <1>1, SearchInvStep DEF RobotInv
<1>4. GraphTypeOK'
  BY <1>1, <1>2, <1>3 DEF RobotInv, GraphTypeOK, SearchInv, Stops
<1>5. NearbyOfSeen' /\ DockSeenIsFound' /\ NeverToldAhead' /\ UndockStartsAtPlace'
  BY <1>1, <1>2 DEF RobotInv, NearbyOfSeen, NearbyLanes, StartLanes, DockSeenIsFound,
     NeverToldAhead, UndockStartsAtPlace
<1>6. PathGivenOut'
  BY <1>1, <1>2 DEF RobotInv, PathGivenOut, Legs, StopLimit
<1> QED BY <1>3, <1>4, <1>5, <1>6 DEF RobotInv

THEOREM RobotInvariant == GraphSpec => []RobotInv
<1>1. ASSUME RobotInv, UNCHANGED graphVars
      PROVE  RobotInv'
  <2>1. UNCHANGED vars /\ UNCHANGED robotVars
    BY <1>1 DEF graphVars
  <2>2. SearchInv'
    BY <1>1, <2>1, SearchInvStutters DEF RobotInv
  <2>3. graph' = graph /\ start' = start /\ UNCHANGED <<seen, nearby, route, leg, target, out>>
    BY <2>1 DEF vars, searchVars, robotVars
  <2> QED BY <1>1, <2>2, <2>3 DEF RobotInv, GraphTypeOK, SearchInv, Stops, NearbyOfSeen,
          NearbyLanes, StartLanes, PathGivenOut, Legs, StopLimit, NeverToldAhead, DockSeenIsFound, UndockStartsAtPlace
<1>2. RobotInv /\ [GraphNext]_graphVars => RobotInv'
  BY <1>1, UpdateKeepsInv, FollowNewPathKeepsInv, SessionKeepsInv, DockKeepsInv,
     PlanningKeepsInv, SearchOnKeepsInv DEF GraphNext
<1> QED BY <1>2, RobotInvInit, PTL DEF GraphSpec

\* Type correctness of the search and of the calls.
THEOREM RobotTypes == GraphSpec => []GraphTypeOK
<1>1. RobotInv => GraphTypeOK
  BY DEF RobotInv
<1> QED BY <1>1, RobotInvariant, PTL

\* The path of an undock motion can be driven, on every graph and whatever the
\* bound on its length (UndockAction::generate_undock_path).
THEOREM UndockPathIsDrivable == GraphSpec => []PathIsDrivable
<1>1. RobotInv => PathIsDrivable
  BY DEF RobotInv, SearchInv
<1> QED BY <1>1, RobotInvariant, PTL

\* RMF is never told that the robot is on a lane it has not come to
\* (RobotState::update, PathHandle::get_navigation_lanes).
THEOREM ToldLanesAreReached == GraphSpec => []NeverToldAhead
<1>1. RobotInv => NeverToldAhead
  BY DEF RobotInv
<1> QED BY <1>1, RobotInvariant, PTL

\* The slowest lane of a stop is as slow as each of them.
LEMMA StopLimitIsLeast ==
  ASSUME GraphTypeOK, NEW s \in Stops, NEW l \in s.lanes, SpeedLimit[l] # 0
  PROVE  StopLimit(s) \in 1..SpeedLimit[l]
<1> DEFINE limits == {SpeedLimit[k] : k \in s.lanes} \ {0}
<1>1. \A k \in s.lanes : SpeedLimit[k] \in Nat
  BY GraphIsLanes, SpeedLimitAssumption DEF Stops
<1>2. limits \in SUBSET Nat /\ limits # {} /\ SpeedLimit[l] \in limits
  BY <1>1
<1>3. \E m \in limits : \A n \in limits : m <= n
  BY <1>2, LeastNatural
<1>4. /\ StopLimit(s) \in limits
      /\ \A n \in limits : StopLimit(s) <= n
  BY <1>2, <1>3 DEF StopLimit
<1>5. StopLimit(s) # 0 /\ StopLimit(s) \in Nat /\ StopLimit(s) <= SpeedLimit[l]
  BY <1>2, <1>4
<1> QED BY <1>1, <1>5

\* No leg is driven faster than its lanes allow (PathHandle::follow_new_path,
\* NavigationController::generate_lanes).
THEOREM LegsAreSlowEnough == GraphSpec => []LegsWithinLimits
<1>1. ASSUME RobotInv PROVE LegsWithinLimits
  <2>1. SUFFICES ASSUME out.call = "path", NEW i \in 1..(Len(route) - 1),
                        NEW l \in route[i + 1].lanes, SpeedLimit[l] # 0
                 PROVE  out.legs[i] \in 1..SpeedLimit[l]
    BY DEF LegsWithinLimits
  <2>2. route \in Seq(Stops) /\ GraphTypeOK
    BY <1>1 DEF RobotInv, GraphTypeOK
  <2>3. i + 1 \in 1..Len(route)
    BY <2>2
  <2>4. route[i + 1] \in Stops
    BY <2>2, <2>3
  <2>5. out.legs[i] = StopLimit(route[i + 1])
    BY <1>1, <2>1 DEF RobotInv, PathGivenOut, Legs
  <2> QED BY <2>1, <2>2, <2>4, <2>5, StopLimitIsLeast
<1> QED BY <1>1, RobotInvariant, PTL

\* A robot seen on the dock finds it (PathHandle::dock, RobotState::update).
THEOREM DocksAreFound == GraphSpec => []DockSeenIsFound
<1>1. RobotInv => DockSeenIsFound
  BY DEF RobotInv
<1> QED BY <1>1, RobotInvariant, PTL

\* An undock motion starts where the robot is
\* (UndockAction::find_closest_waypoint).
THEOREM UndockStarts == GraphSpec => []UndockStartsAtPlace
<1>1. RobotInv => UndockStartsAtPlace
  BY DEF RobotInv
<1> QED BY <1>1, RobotInvariant, PTL

(***************************************************************************)
(* Why the search finds a nearest junction.  It goes by levels: the queue  *)
(* holds paths of D lanes, then paths of D + 1; what is nearer than D      *)
(* lanes is done with, and what is D lanes away is done with or is at the  *)
(* end of a path in the queue.                                             *)
(***************************************************************************)
\* Seen not to be a junction, and extended or being extended.
Done(v) ==
  /\ v = start \/ ~IsJunction(v)
  /\ Destinations(v) \subseteq visited \union todo

Queued(v, d) ==
  \E k \in 1..Len(queue) : Last(queue[k]) = v /\ Depth(queue[k]) = d

QueueByLevel(D) ==
  /\ \A k \in 1..Len(queue) : Depth(queue[k]) \in {D, D + 1}
  /\ \A j, k \in 1..Len(queue) : j <= k => Depth(queue[j]) <= Depth(queue[k])
  /\ todo # {} => Depth(path) = D

NearerIsDone(D) ==
  \A n \in Nat : n < D => \A s \in Promised!Ways(n) : Done(s[n + 1])

LevelIsQueued(D) ==
  /\ \A s \in Promised!Ways(D) : Done(s[D + 1]) \/ Queued(s[D + 1], D)
  /\ \A v \in visited : Done(v) \/ Queued(v, D) \/ Queued(v, D + 1)

Level(D) ==
  /\ QueueByLevel(D)
  /\ NearerIsDone(D)
  /\ D < MaxDepth => LevelIsQueued(D)

BreadthFirst == searching => \E D \in 0..MaxDepth : Level(D)

\* The way that is left without the last lane.
LEMMA WayWithoutLast ==
  ASSUME NEW D \in Nat, NEW s \in Promised!Ways(D + 1)
  PROVE  /\ [i \in 1..(D + 1) |-> s[i]] \in Promised!Ways(D)
         /\ s[D + 1] \in Waypoints /\ s[D + 2] \in Destinations(s[D + 1])
<1>1. /\ s \in [1..(D + 2) -> Waypoints] /\ s[1] = start
      /\ \A i \in 1..(D + 1) : <<s[i], s[i + 1]>> \in graph
  <2>1. (D + 1) + 1 = D + 2
    OBVIOUS
  <2> QED BY <2>1 DEF Promised!Ways
<1>2. [i \in 1..(D + 1) |-> s[i]] \in [1..(D + 1) -> Waypoints]
  BY <1>1
<1>3. \A i \in 1..D : i \in 1..(D + 1) /\ i + 1 \in 1..(D + 1)
  OBVIOUS
<1>4. [i \in 1..(D + 1) |-> s[i]] \in Promised!Ways(D)
  BY <1>1, <1>2, <1>3 DEF Promised!Ways
<1>5. D + 1 \in 1..(D + 1) /\ (D + 1) + 1 = D + 2 /\ D + 2 \in 1..(D + 2) /\ D + 1 \in 1..(D + 2)
  OBVIOUS
<1> QED BY <1>1, <1>4, <1>5 DEF Destinations

\* When no path of the level is left, the next level is all in the queue.
LEMMA LevelAdvances ==
  ASSUME todo = {}, NEW D \in 0..MaxDepth, D < MaxDepth, Level(D),
         \A k \in 1..Len(queue) : Depth(queue[k]) # D
  PROVE  Level(D + 1)
<1> USE DepthAssumption
<1>1. \A v : ~Queued(v, D)
  BY DEF Queued
<1>2. \A s \in Promised!Ways(D) : Done(s[D + 1])
  BY <1>1 DEF Level, LevelIsQueued
<1>3. QueueByLevel(D + 1)
  BY DEF Level, QueueByLevel
<1>4. NearerIsDone(D + 1)
  <2> SUFFICES ASSUME NEW n \in Nat, n < D + 1, NEW s \in Promised!Ways(n)
               PROVE  Done(s[n + 1])
    BY DEF NearerIsDone
  <2>1. n < D \/ n = D
    OBVIOUS
  <2> QED BY <1>2, <2>1 DEF Level, NearerIsDone
<1>5. \A v \in visited : Done(v) \/ Queued(v, D + 1)
  BY <1>1 DEF Level, LevelIsQueued
<1>6. ASSUME NEW s \in Promised!Ways(D + 1)
      PROVE  Done(s[(D + 1) + 1]) \/ Queued(s[(D + 1) + 1], D + 1)
  <2> DEFINE p == [i \in 1..(D + 1) |-> s[i]]
  <2>1. p \in Promised!Ways(D) /\ s[D + 2] \in Destinations(s[D + 1])
    BY WayWithoutLast
  <2>2. p[D + 1] = s[D + 1]
    OBVIOUS
  <2>3. Done(s[D + 1])
    BY <1>2, <2>1, <2>2
  <2>4. s[D + 2] \in visited /\ (D + 1) + 1 = D + 2
    BY <2>1, <2>3 DEF Done
  <2> QED BY <1>5, <2>4
<1>7. LevelIsQueued(D + 1)
  BY <1>5, <1>6 DEF LevelIsQueued
<1> QED BY <1>3, <1>4, <1>7 DEF Level

\* The level is that of the front.
LEMMA FrontLevel ==
  ASSUME SearchInv, BreadthFirst, AtFront
  PROVE  \E D \in 0..MaxDepth : Level(D) /\ Depth(Front) = D
<1> USE DepthAssumption
<1>1. PICK D \in 0..MaxDepth : Level(D)
  BY DEF BreadthFirst, AtFront
<1>2. /\ queue \in Seq(Seq(Waypoints)) /\ Len(queue) \in Nat /\ 1 \in 1..Len(queue)
      /\ Front = queue[1] /\ todo = {}
  BY DEF AtFront, Front, SearchInv, SearchTypeOK
<1>3. Depth(Front) \in {D, D + 1}
  BY <1>1, <1>2 DEF Level, QueueByLevel
<1>4. Depth(Front) <= MaxDepth
  BY <1>2 DEF SearchInv, GoodQueue, GoodPath, Depth
<1>5. CASE Depth(Front) = D + 1
  <2>1. \A k \in 1..Len(queue) : Depth(queue[k]) # D
    BY <1>1, <1>2, <1>5 DEF Level, QueueByLevel
  <2>2. D < MaxDepth /\ D + 1 \in 0..MaxDepth
    BY <1>4, <1>5
  <2> QED BY <1>1, <1>2, <1>5, <2>1, <2>2, LevelAdvances
<1> QED BY <1>1, <1>3, <1>5

LEMMA BeginByLevel ==
  ASSUME SearchInv, NEW w \in Waypoints, BeginSearch(w)
  PROVE  Level(0)'
<1> USE DepthAssumption
<1>1. /\ start' = w /\ queue' = <<<<w>>>> /\ visited' = {w} /\ todo' = todo /\ todo = {}
      /\ graph' = graph
  BY WaypointsAssumption DEF BeginSearch, SearchInv
<1>2. Len(queue') = 1 /\ queue'[1] = <<w>> /\ Len(<<w>>) = 1 /\ <<w>>[1] = w
  BY <1>1
<1>3. Queued(w, 0)'
  <2>1. 1 \in 1..Len(queue') /\ Last(queue'[1]) = w /\ Depth(queue'[1]) = 0
    BY <1>2 DEF Last, Depth
  <2>2. \E k \in 1..Len(queue') : Last(queue'[k]) = w /\ Depth(queue'[k]) = 0
    BY <2>1
  <2> QED BY <2>2 DEF Queued, Last, Depth
<1>4. QueueByLevel(0)'
  BY <1>1, <1>2 DEF QueueByLevel, Depth
<1>5. NearerIsDone(0)'
  BY DEF NearerIsDone
<1>6. ASSUME NEW s \in Promised!Ways(0)'
      PROVE  s[1] = w
  BY <1>1, <1>6 DEF Promised!Ways
<1>7. LevelIsQueued(0)'
  BY <1>1, <1>3, <1>6 DEF LevelIsQueued
<1> QED BY <1>4, <1>5, <1>7 DEF Level

LEMMA DropByLevel ==
  ASSUME SearchInv, BreadthFirst, DropDeep
  PROVE  BreadthFirst'
<1> USE DepthAssumption
<1>1. PICK D \in 0..MaxDepth : Level(D) /\ Depth(Front) = D
  BY FrontLevel DEF DropDeep
<1>2. /\ UNCHANGED <<graph, searching, start, visited, path, todo>>
      /\ queue' = Tail(queue) /\ Depth(Front) >= MaxDepth /\ AtFront
  BY DEF DropDeep
<1>3. D = MaxDepth
  BY <1>1, <1>2
<1>4. /\ queue \in Seq(Seq(Waypoints)) /\ queue # << >>
  BY <1>2 DEF AtFront, SearchInv, SearchTypeOK
<1>5. /\ Len(queue') = Len(queue) - 1
      /\ \A k \in 1..Len(queue') : queue'[k] = queue[k + 1] /\ k + 1 \in 1..Len(queue)
  BY <1>2, <1>4
<1>6. QueueByLevel(D)'
  BY <1>1, <1>2, <1>4, <1>5 DEF Level, QueueByLevel, Depth
<1>7. NearerIsDone(D)'
  BY <1>1, <1>2
  DEF Level, NearerIsDone, Done, Promised!Ways, IsJunction, Neighbours, Destinations
<1>8. Level(D)'
  BY <1>3, <1>6, <1>7 DEF Level
<1> QED BY <1>8 DEF BreadthFirst

\* The front is extended: from then on it is done with.
LEMMA ExpandByLevel ==
  ASSUME SearchInv, BreadthFirst, Expand
  PROVE  BreadthFirst'
<1> USE DepthAssumption
<1>1. PICK D \in 0..MaxDepth : Level(D) /\ Depth(Front) = D
  BY FrontLevel DEF Expand
<1>0. PICK f : f = Front
  OBVIOUS
<1>2. /\ UNCHANGED <<graph, searching, start, visited>>
      /\ queue' = Tail(queue) /\ path' = f
      /\ todo' = Destinations(Last(f)) \ visited
      /\ Depth(f) = 0 \/ ~IsJunction(Last(f))
      /\ AtFront /\ todo = {} /\ Depth(f) = D /\ D < MaxDepth
  BY <1>0, <1>1 DEF Expand, AtFront
<1>3. /\ queue \in Seq(Seq(Waypoints)) /\ queue # << >> /\ f = queue[1]
      /\ Len(queue) \in Nat /\ 1 \in 1..Len(queue)
  BY <1>0, <1>2 DEF AtFront, SearchInv, SearchTypeOK, Front
<1>4. /\ Len(queue') = Len(queue) - 1
      /\ \A k \in 1..Len(queue') : queue'[k] = queue[k + 1] /\ k + 1 \in 1..Len(queue)
  BY <1>2, <1>3
<1>5. \A k \in 1..Len(queue) :
        k = 1 \/ \E j \in 1..Len(queue') : queue'[j] = queue[k]
  <2> SUFFICES ASSUME NEW k \in 1..Len(queue), k # 1
               PROVE  \E j \in 1..Len(queue') : queue'[j] = queue[k]
    OBVIOUS
  <2>1. k - 1 \in 1..Len(queue') /\ (k - 1) + 1 = k
    BY <1>3, <1>4
  <2> QED BY <1>4, <2>1
<1>6. GoodPath(f, start, graph, visited, MaxDepth + 1)
  BY <1>3 DEF SearchInv, GoodQueue
<1>7. /\ \A v : Destinations(v)' = Destinations(v)
      /\ \A v : IsJunction(v)' <=> IsJunction(v)
      /\ \A n : Promised!Ways(n)' = Promised!Ways(n)
  BY <1>2 DEF Destinations, IsJunction, Neighbours, Promised!Ways
<1>8. \A v : Done(v) => Done(v)'
  BY <1>2, <1>7 DEF Done
<1>9. Done(Last(f))'
  <2>1. Depth(f) = 0 => Last(f) = start
    <3>1. Len(f) \in Nat /\ f[1] = start
      BY <1>6 DEF GoodPath
    <3>2. Depth(f) = 0 => Len(f) = 1
      BY <3>1 DEF Depth
    <3> QED BY <3>1, <3>2 DEF Last
  <2>2. (Last(f) = start \/ ~IsJunction(Last(f)))'
    BY <1>2, <1>7, <2>1 DEF Last
  <2>3. Destinations(Last(f))' \subseteq visited' \union todo'
    BY <1>2, <1>7 DEF Last
  <2> QED BY <2>2, <2>3 DEF Done, Last
<1>10. \A v, d : Queued(v, d) => Queued(v, d)' \/ Done(v)'
  <2> SUFFICES ASSUME NEW v, NEW d, NEW k \in 1..Len(queue),
                      Last(queue[k]) = v, Depth(queue[k]) = d
               PROVE  Queued(v, d)' \/ Done(v)'
    BY DEF Queued
  <2>1. CASE k = 1
    <3>1. v = Last(f)
      BY <1>3, <2>1
    <3>2. PICK u : u = Last(f)
      OBVIOUS
    <3>3. Done(u)'
      BY <1>9, <3>2
    <3> QED BY <3>1, <3>2, <3>3
  <2>2. CASE k # 1
    BY <1>5, <2>2 DEF Queued, Last, Depth
  <2> QED BY <2>1, <2>2
<1>11. QueueByLevel(D)'
  BY <1>1, <1>2, <1>3, <1>4 DEF Level, QueueByLevel, Depth
<1>12. NearerIsDone(D)'
  BY <1>1, <1>7, <1>8 DEF Level, NearerIsDone
<1>13. LevelIsQueued(D)'
  <2>1. LevelIsQueued(D)
    BY <1>1, <1>2 DEF Level
  <2>2. \A s \in Promised!Ways(D)' : Done(s[D + 1])' \/ Queued(s[D + 1], D)'
    BY <1>7, <1>8, <1>10, <2>1 DEF LevelIsQueued
  <2>3. \A v \in visited' : Done(v)' \/ Queued(v, D)' \/ Queued(v, D + 1)'
    BY <1>2, <1>8, <1>10, <2>1 DEF LevelIsQueued
  <2> QED BY <2>2, <2>3 DEF LevelIsQueued
<1> QED BY <1>11, <1>12, <1>13 DEF Level, BreadthFirst

\* What is put into the queue is one lane farther away.
LEMMA EnqueueByLevel ==
  ASSUME SearchInv, BreadthFirst, Enqueue
  PROVE  BreadthFirst'
<1> USE DepthAssumption
<1>1. PICK next \in todo :
        /\ visited' = visited \union {next}
        /\ queue' = Append(queue, Append(path, next))
        /\ todo' = todo \ {next}
  BY DEF Enqueue
<1>2. searching /\ UNCHANGED <<graph, searching, start, path>>
  BY DEF Enqueue
<1>3. PICK D \in 0..MaxDepth : Level(D)
  BY <1>2 DEF BreadthFirst
<1>4. PICK p : p = Append(path, next)
  OBVIOUS
<1>5. /\ GoodPath(path, start, graph, visited, MaxDepth)
      /\ Depth(path) = D /\ next \in Waypoints
  BY <1>1, <1>3 DEF SearchInv, GoodTodo, Level, QueueByLevel, SearchTypeOK
<1>6. path \in Seq(Waypoints) /\ Len(path) = D + 1 /\ D < MaxDepth
  BY <1>5 DEF GoodPath, Depth
<1>7. p \in Seq(Waypoints) /\ Len(p) = D + 2 /\ p[D + 2] = next
  BY <1>4, <1>5, <1>6
<1>8. Depth(p) = D + 1 /\ Last(p) = next
  BY <1>7 DEF Depth, Last
<1>9. queue \in Seq(Seq(Waypoints)) /\ queue' = Append(queue, p)
  BY <1>1, <1>4 DEF SearchInv, SearchTypeOK
<1>10. /\ Len(queue) \in Nat /\ Len(queue') = Len(queue) + 1
       /\ queue'[Len(queue) + 1] = p
       /\ \A k \in 1..Len(queue) : queue'[k] = queue[k]
  BY <1>7, <1>9
<1>11. \A k \in 1..Len(queue') : k \in 1..Len(queue) \/ (k = Len(queue) + 1 /\ queue'[k] = p)
  BY <1>10
<1>12. /\ \A v : Destinations(v)' = Destinations(v)
       /\ \A v : IsJunction(v)' <=> IsJunction(v)
       /\ \A n : Promised!Ways(n)' = Promised!Ways(n)
  BY <1>2 DEF Destinations, IsJunction, Neighbours, Promised!Ways
<1>13. \A v : Done(v) => Done(v)'
  BY <1>1, <1>2, <1>12 DEF Done
<1>14. \A v, d : Queued(v, d) => Queued(v, d)'
  BY <1>10 DEF Queued, Last, Depth
<1>15. Queued(next, D + 1)'
  BY <1>8, <1>10 DEF Queued, Last, Depth
<1>16. QueueByLevel(D)'
  <2>1. QueueByLevel(D)
    BY <1>3 DEF Level
  <2>2. \A k \in 1..Len(queue') : Depth(queue'[k]) \in {D, D + 1}
    BY <1>8, <1>10, <1>11, <2>1 DEF QueueByLevel
  <2>3. \A j, k \in 1..Len(queue') : j <= k => Depth(queue'[j]) <= Depth(queue'[k])
    BY <1>8, <1>10, <1>11, <2>1, <2>2 DEF QueueByLevel
  <2> QED BY <1>2, <1>5, <2>2, <2>3 DEF QueueByLevel, Depth
<1>17. NearerIsDone(D)'
  BY <1>3, <1>12, <1>13 DEF Level, NearerIsDone
<1>18. LevelIsQueued(D)'
  <2>1. LevelIsQueued(D)
    BY <1>3, <1>6 DEF Level
  <2>2. \A s \in Promised!Ways(D)' : Done(s[D + 1])' \/ Queued(s[D + 1], D)'
    BY <1>12, <1>13, <1>14, <2>1 DEF LevelIsQueued
  <2>3. \A v \in visited' : Done(v)' \/ Queued(v, D)' \/ Queued(v, D + 1)'
    BY <1>1, <1>13, <1>14, <1>15, <2>1 DEF LevelIsQueued
  <2> QED BY <2>2, <2>3 DEF LevelIsQueued
<1> QED BY <1>16, <1>17, <1>18 DEF Level, BreadthFirst

\* The planning starts at a waypoint.
LEMMA CandidatesAreWaypoints ==
  ASSUME SearchTypeOK, NEW place \in Places
  PROVE  Candidates(place) \subseteq Waypoints
<1>1. graph \in SUBSET (Waypoints \X Waypoints)
  BY GraphsAssumption DEF SearchTypeOK
<1>2. \A l \in graph : l[1] \in Waypoints /\ l[2] \in Waypoints
  BY <1>1
<1>3. place \subseteq Waypoints
  BY <1>2 DEF Places, Connected
<1>4. StartLanes(place) \subseteq graph
  BY DEF StartLanes
<1>5. StartWaypoints(place) \subseteq Waypoints
  BY <1>2, <1>3, <1>4 DEF StartWaypoints
<1> QED BY <1>2, <1>4, <1>5 DEF Candidates

\* A call begins a search, runs it on or leaves it alone.
LEMMA CallsLeaveSearch ==
  ASSUME SearchTypeOK, [GraphNext]_graphVars
  PROVE  UNCHANGED vars \/ SearchOn \/ \E w \in Waypoints : BeginSearch(w)
<1>1. ASSUME NEW place \in Places, PlanUndock(place)
      PROVE  \E w \in Waypoints : BeginSearch(w)
  BY <1>1, CandidatesAreWaypoints DEF PlanUndock
<1> QED BY <1>1 DEF GraphNext, graphVars, Update, UndockFails, FollowNewPath, EndPath,
    DriveOn, Feedback, DockUnknown, StayDocked, LeaveDock

\* While nothing of the search changes, it stays where it is.
LEMMA LevelsStutter ==
  ASSUME BreadthFirst, UNCHANGED <<graph, searching, start, queue, visited, path, todo>>
  PROVE  BreadthFirst'
<1>1. /\ \A v : Done(v)' <=> Done(v)
      /\ \A v, d : Queued(v, d)' <=> Queued(v, d)
      /\ \A n : Promised!Ways(n)' = Promised!Ways(n)
  BY DEF Done, Queued, Destinations, IsJunction, Neighbours, Promised!Ways, Last, Depth
<1>2. ASSUME NEW D \in 0..MaxDepth, Level(D)
      PROVE  Level(D)'
  <2>1. QueueByLevel(D)'
    BY <1>2 DEF Level, QueueByLevel, Depth
  <2>2. NearerIsDone(D)'
    BY <1>1, <1>2 DEF Level, NearerIsDone
  <2>3. D < MaxDepth => LevelIsQueued(D)'
    BY <1>1, <1>2 DEF Level, LevelIsQueued
  <2> QED BY <2>1, <2>2, <2>3 DEF Level
<1> QED BY <1>2 DEF BreadthFirst

LEMMA BreadthFirstStep ==
  ASSUME SearchInv, BreadthFirst, [GraphNext]_graphVars
  PROVE  BreadthFirst'
<1>1. CASE UNCHANGED <<graph, searching, start, queue, visited, path, todo>>
  BY <1>1, LevelsStutter
<1>2. CASE \E w \in Waypoints : BeginSearch(w)
  <2>1. 0 \in 0..MaxDepth
    BY DepthAssumption
  <2>2. Level(0)'
    BY <1>2, BeginByLevel
  <2> QED BY <2>1, <2>2 DEF BreadthFirst
<1>3. CASE searching' = FALSE
  BY <1>3 DEF BreadthFirst
<1>4. CASE DropDeep \/ Expand \/ Enqueue
  BY <1>4, DropByLevel, ExpandByLevel, EnqueueByLevel
<1>5. CASE UNCHANGED vars
  BY <1>1, <1>5 DEF vars, searchVars
<1>6. SearchOn => DropDeep \/ Expand \/ Enqueue \/ searching' = FALSE \/ TakeAnswer
  BY DEF SearchOn, SearchStep, FoundJunction, NoJunction, Finish
<1>7. TakeAnswer => searching' = FALSE
  BY DEF TakeAnswer, SearchInv, SearchTypeOK
<1>8. CASE SearchOn
  BY <1>3, <1>4, <1>6, <1>7, <1>8
<1> QED BY <1>2, <1>5, <1>8, CallsLeaveSearch DEF SearchInv

LEMMA BreadthFirstHolds == GraphSpec => []BreadthFirst
<1>1. GraphInit => BreadthFirst
  BY DEF GraphInit, SearchInit, BreadthFirst
<1>2. RobotInv /\ BreadthFirst /\ [GraphNext]_graphVars => BreadthFirst'
  BY BreadthFirstStep DEF RobotInv
<1> QED BY <1>1, <1>2, RobotInvariant, PTL DEF GraphSpec

\* The promise counts neighbours as the search does.
LEMMA SameJunctions == \A v : Promised!Junction(v) <=> IsJunction(v)
<1>1. \A S : Promised!Cardinality(S) = Cardinality(S)
  BY DEF Promised!Cardinality, Cardinality, Promised!IsFiniteSet, IsFiniteSet
<1> QED BY <1>1 DEF Promised!Junction, Promised!Neighbours, IsJunction, Neighbours

\* The path that is returned is a shortest way to a nearest junction.
LEMMA FoundIsNearest ==
  ASSUME SearchInv, BreadthFirst, FoundJunction
  PROVE  answer' \in Promised!Answers
<1> USE DepthAssumption
<1>1. PICK D \in 0..MaxDepth : Level(D) /\ Depth(Front) = D
  BY FrontLevel DEF FoundJunction
<1>2. PICK f : f = Front
  OBVIOUS
<1>3. answer' = f /\ D \in 1..(MaxDepth - 1) /\ IsJunction(Last(f)) /\ Depth(f) = D
  BY <1>1, <1>2 DEF FoundJunction, Finish
<1>4. GoodPath(f, start, graph, visited, MaxDepth + 1)
  BY <1>2, FrontIsGood DEF FoundJunction, AtFront, SearchInv
<1>5. Len(f) = D + 1 /\ f \in Seq(Waypoints) /\ Last(f) = f[D + 1]
  BY <1>3, <1>4 DEF GoodPath, Depth, Last
<1>6. f \in Promised!Ways(D)
  <2>1. f \in [1..(D + 1) -> Waypoints]
    BY <1>5
  <2>2. \A i \in 1..D : <<f[i], f[i + 1]>> \in graph
    BY <1>4, <1>5 DEF GoodPath
  <2> QED BY <1>4, <2>1, <2>2 DEF GoodPath, Promised!Ways
<1>7. f[D + 1] # start
  BY <1>3, <1>4, <1>5 DEF GoodPath
<1>8. \A v : Promised!Junction(v) <=> IsJunction(v)
  BY SameJunctions
<1>9. f \in Promised!GoodWays(D)
  BY <1>3, <1>5, <1>6, <1>7, <1>8 DEF Promised!GoodWays
<1>10. D \in Promised!Lengths
  BY <1>3, <1>9 DEF Promised!Lengths
<1>11. ASSUME NEW m \in Promised!Lengths, m < D
       PROVE  FALSE
  <2>1. PICK s \in Promised!GoodWays(m) : TRUE
    BY DEF Promised!Lengths
  <2>2. m \in Nat /\ s \in Promised!Ways(m)
    BY DEF Promised!Lengths, Promised!GoodWays
  <2>3. s[m + 1] # start /\ IsJunction(s[m + 1])
    BY <1>8 DEF Promised!GoodWays
  <2>4. Done(s[m + 1])
    BY <1>1, <1>11, <2>2 DEF Level, NearerIsDone
  <2> QED BY <2>3, <2>4 DEF Done
<1>12. Promised!Lengths \subseteq Nat
  BY DEF Promised!Lengths
<1>13. \A m \in Promised!Lengths : D <= m
  BY <1>11, <1>12
<1>14. (CHOOSE n \in Promised!Lengths : \A m \in Promised!Lengths : n <= m) = D
  <2>1. \A n \in Promised!Lengths : (\A m \in Promised!Lengths : n <= m) => n = D
    BY <1>10, <1>12, <1>13
  <2> QED BY <1>10, <1>13, <2>1
<1> QED BY <1>3, <1>9, <1>10, <1>14 DEF Promised!Answers

\* An empty queue means that everything near was seen.
LEMMA EmptyIsAllDone ==
  ASSUME BreadthFirst, searching, todo = {}, queue = << >>
  PROVE  NearerIsDone(MaxDepth)
<1> USE DepthAssumption
<1> DEFINE left == {MaxDepth - D : D \in {d \in 0..MaxDepth : Level(d)}}
<1>1. left \in SUBSET Nat /\ left # {}
  BY DEF BreadthFirst
<1>2. PICK x \in left : \A y \in left : x <= y
  <2> HIDE DEF left
  <2> QED BY <1>1, LeastNatural
<1>3. PICK D \in 0..MaxDepth : Level(D) /\ x = MaxDepth - D
  OBVIOUS
<1>4. CASE D < MaxDepth
  <2>1. \A k \in 1..Len(queue) : Depth(queue[k]) # D
    BY EmptySequences
  <2>2. Level(D + 1)
    BY <1>3, <1>4, <2>1, LevelAdvances
  <2>3. D + 1 \in 0..MaxDepth
    BY <1>4
  <2>4. MaxDepth - (D + 1) \in left
    BY <2>2, <2>3
  <2>5. x <= MaxDepth - (D + 1)
    <3> HIDE DEF left
    <3> QED BY <1>2, <2>4
  <2> QED BY <1>3, <2>5
<1>5. CASE D = MaxDepth
  BY <1>3, <1>5 DEF Level
<1> QED BY <1>4, <1>5

\* Nothing is returned only if no junction is near enough.
LEMMA NothingIsNear ==
  ASSUME BreadthFirst, NoJunction
  PROVE  answer' \in Promised!Answers
<1> USE DepthAssumption
<1>1. NearerIsDone(MaxDepth) /\ answer' = << >>
  BY EmptyIsAllDone DEF NoJunction, Finish
<1>2. ASSUME NEW m \in Promised!Lengths
      PROVE  FALSE
  <2>1. PICK s \in Promised!GoodWays(m) : TRUE
    BY DEF Promised!Lengths
  <2>2. m \in Nat /\ m < MaxDepth /\ s \in Promised!Ways(m)
    BY DEF Promised!Lengths, Promised!GoodWays
  <2>3. s[m + 1] # start /\ IsJunction(s[m + 1])
    BY SameJunctions DEF Promised!GoodWays
  <2>4. Done(s[m + 1])
    BY <1>1, <2>2 DEF NearerIsDone
  <2> QED BY <2>3, <2>4 DEF Done
<1> QED BY <1>1, <1>2 DEF Promised!Answers

\* Every answer of the search is a shortest way to a nearest junction, or none
\* if there is no junction within reach, whatever the graph, its size and the
\* depth: the search implements its promise (generate_undock_path).  That it
\* answers at all is SearchEnds.
THEOREM SearchFindsNearest == GraphSpec => Promised!Safe
<1>1. GraphInit => Promised!Init
  BY GraphsAssumption DEF GraphInit, SearchInit, Promised!Init
<1>2. ASSUME RobotInv, BreadthFirst, [GraphNext]_graphVars
      PROVE  [Promised!Next]_(Promised!vars)
  <2>1. CASE \E w \in Waypoints : BeginSearch(w)
    BY <2>1 DEF BeginSearch, Promised!Next, Promised!Ask
  <2>2. CASE FoundJunction
    <3>1. answer' \in Promised!Answers
      BY <1>2, <2>2, FoundIsNearest DEF RobotInv
    <3> QED BY <2>2, <3>1
        DEF FoundJunction, AtFront, Finish, Promised!Next, Promised!Answer
  <2>3. CASE NoJunction
    <3>1. answer' \in Promised!Answers
      BY <1>2, <2>3, NothingIsNear
    <3> QED BY <2>3, <3>1 DEF NoJunction, Finish, Promised!Next, Promised!Answer
  <2>4. CASE TakeAnswer
    BY <2>4 DEF TakeAnswer, Promised!Next, Promised!Take
  <2>5. CASE DropDeep \/ Expand \/ Enqueue
    BY <2>5 DEF DropDeep, Expand, Enqueue, Promised!vars
  <2>6. CASE UNCHANGED vars
    BY <2>6 DEF vars, searchVars, Promised!vars
  <2> QED BY <1>2, <2>1, <2>2, <2>3, <2>4, <2>5, <2>6, CallsLeaveSearch
      DEF RobotInv, SearchInv, SearchOn, SearchStep
<1> QED BY <1>1, <1>2, RobotInvariant, BreadthFirstHolds, PTL DEF GraphSpec, Promised!Safe

-----------------------------------------------------------------------------
(***************************************************************************)
(* The search ends: each turn of its loops drops a path from the queue, or *)
(* takes one out to expand it, or pays for the path it adds with a         *)
(* waypoint that it will not visit again.                                  *)
(***************************************************************************)
Unvisited == Waypoints \ visited

SearchLeft ==
  IF searching THEN 2 * Cardinality(Unvisited) + Len(queue) + 2
  ELSE IF start # None THEN 1 ELSE 0

MostSteps == 2 * Cardinality(Waypoints) + 1

\* Whatever the loops find, one of their branches is taken.
SearchGoesOn ==
  searching =>
    /\ todo # {} => \E next \in todo : \A v \in todo : next <= v
    /\ queue # << >> => Depth(Front) \in 0..MaxDepth

SearchAdvances ==
  /\ SearchOn => SearchLeft' < SearchLeft
  /\ start # None /\ ~SearchOn => SearchLeft' = SearchLeft

LEMMA SearchCounts ==
  ASSUME IsFiniteSet(Waypoints), SearchTypeOK
  PROVE  /\ IsFiniteSet(Unvisited)
         /\ Cardinality(Unvisited) \in Nat
         /\ Cardinality(Unvisited) <= Cardinality(Waypoints)
         /\ Cardinality(Waypoints) \in Nat
         /\ Len(queue) \in Nat
         /\ SearchLeft \in Nat
<1>1. Unvisited \in SUBSET Waypoints /\ queue \in Seq(Seq(Waypoints))
  BY DEF Unvisited, SearchTypeOK
<1>2. /\ IsFiniteSet(Unvisited)
      /\ Cardinality(Unvisited) \in Nat
      /\ Cardinality(Unvisited) <= Cardinality(Waypoints)
      /\ Cardinality(Waypoints) \in Nat
  BY <1>1, FS_Subset, FS_CardinalityType
<1>3. Len(queue) \in Nat
  BY <1>1
<1> HIDE DEF Unvisited
<1>4. SearchLeft \in Nat
  BY <1>2, <1>3 DEF SearchLeft
<1> QED BY <1>2, <1>3, <1>4

\* A loop that takes a path out of the queue leaves one less.
LEMMA TakingShortens ==
  ASSUME SearchTypeOK, AtFront, queue' = Tail(queue), UNCHANGED <<searching, visited>>,
         IsFiniteSet(Waypoints)
  PROVE  SearchLeft' < SearchLeft
<1>1. queue \in Seq(Seq(Waypoints)) /\ queue # << >> /\ searching
  BY DEF SearchTypeOK, AtFront
<1>2. Len(Tail(queue)) = Len(queue) - 1 /\ Len(queue) \in Nat
  BY <1>1
<1>3. Len(queue') = Len(queue) - 1
  BY <1>2
<1>4. Cardinality(Unvisited)' = Cardinality(Unvisited) /\ Cardinality(Unvisited) \in Nat
  BY SearchCounts DEF Unvisited
<1> QED BY <1>1, <1>2, <1>3, <1>4 DEF SearchLeft

\* A waypoint is visited once, when its path is put into the queue.
LEMMA EnqueuingPays ==
  ASSUME IsFiniteSet(Waypoints), SearchInv, Enqueue
  PROVE  SearchLeft' < SearchLeft
<1>1. PICK next \in todo :
        /\ visited' = visited \union {next}
        /\ queue' = Append(queue, Append(path, next))
  BY DEF Enqueue
<1>2. searching /\ searching'
  BY DEF Enqueue
<1>3. next \in Unvisited
  BY <1>1 DEF SearchInv, SearchTypeOK, GoodTodo, Unvisited
<1>4. Unvisited' = Unvisited \ {next}
  BY <1>1 DEF Unvisited
<1>5. IsFiniteSet(Unvisited) /\ Cardinality(Unvisited) \in Nat
  BY SearchCounts DEF SearchInv
<1>6. Cardinality(Unvisited \ {next}) = Cardinality(Unvisited) - 1
  BY <1>3, <1>5, FS_RemoveElement
<1>7. Cardinality(Unvisited)' = Cardinality(Unvisited) - 1
  BY <1>4, <1>6
<1>8. /\ path \in Seq(Waypoints) /\ next \in Waypoints
      /\ queue \in Seq(Seq(Waypoints))
  BY DEF SearchInv, SearchTypeOK
<1>9. PICK p : p = Append(path, next)
  OBVIOUS
<1>10. p \in Seq(Waypoints)
  <2>1. Append(path, next) \in Seq(Waypoints)
    BY <1>8
  <2> QED BY <1>9, <2>1
<1>11. Len(queue') = Len(queue) + 1 /\ Len(queue) \in Nat
  BY <1>1, <1>8, <1>9, <1>10
<1> QED BY <1>2, <1>5, <1>7, <1>11 DEF SearchLeft

LEMMA SearchOnAdvances ==
  ASSUME IsFiniteSet(Waypoints), SearchInv, SearchStep
  PROVE  SearchLeft' < SearchLeft
<1>1. /\ Cardinality(Unvisited) \in Nat /\ Len(queue) \in Nat
      /\ searching \in BOOLEAN
  BY SearchCounts DEF SearchInv, SearchTypeOK
<1>2. CASE DropDeep \/ Expand
  BY <1>2, TakingShortens DEF DropDeep, Expand, SearchInv, AtFront
<1>3. CASE Enqueue
  BY <1>3, EnqueuingPays
<1>4. CASE FoundJunction \/ NoJunction
  <2>1. searching /\ ~searching' /\ start' = start
    BY <1>4 DEF FoundJunction, NoJunction, AtFront, Finish
  <2> QED BY <1>1, <2>1 DEF SearchLeft
<1>5. CASE TakeAnswer
  <2>1. ~searching /\ ~searching' /\ start # None /\ start' = None
    BY <1>5 DEF TakeAnswer
  <2> QED BY <2>1 DEF SearchLeft
<1> QED BY <1>2, <1>3, <1>4, <1>5 DEF SearchStep

LEMMA SearchBound ==
  ASSUME IsFiniteSet(Waypoints), SearchInv, SearchLeft <= MostSteps,
         [GraphNext]_graphVars
  PROVE  (SearchLeft <= MostSteps)'
<1>1. /\ SearchLeft \in Nat /\ Cardinality(Waypoints) \in Nat
      /\ SearchTypeOK /\ SearchTypeOK'
  <2>1. SearchInv'
    BY CallsLeaveSearch, SearchInvStep, SearchInvStutters DEF SearchInv, SearchOn
  <2> QED BY <2>1, SearchCounts DEF SearchInv
<1>2. SearchLeft' \in Nat
  <2>1. Unvisited' \in SUBSET Waypoints /\ Len(queue') \in Nat
    BY <1>1 DEF Unvisited, SearchTypeOK
  <2>2. Cardinality(Unvisited') \in Nat
    BY <2>1, FS_Subset, FS_CardinalityType
  <2>3. Cardinality(Unvisited)' \in Nat
    BY <2>2
  <2> QED BY <2>1, <2>3 DEF SearchLeft
<1>3. CASE UNCHANGED vars
  <2>1. SearchLeft' = SearchLeft
    BY <1>3 DEF vars, searchVars, SearchLeft, Unvisited
  <2> QED BY <2>1 DEF MostSteps
<1>4. CASE SearchOn
  <2>1. SearchLeft' < SearchLeft
    BY <1>4, SearchOnAdvances DEF SearchOn
  <2> QED BY <1>1, <1>2, <2>1 DEF MostSteps
<1>5. ASSUME NEW w \in Waypoints, BeginSearch(w)
      PROVE  SearchLeft' <= MostSteps
  <2>1. searching' /\ Len(queue') = 1 /\ Unvisited' = Waypoints \ {w}
    BY <1>5 DEF BeginSearch, Unvisited
  <2>2. Cardinality(Waypoints \ {w}) = Cardinality(Waypoints) - 1
    BY FS_RemoveElement
  <2>3. Cardinality(Unvisited)' = Cardinality(Waypoints) - 1
    BY <2>1, <2>2
  <2> QED BY <1>1, <2>1, <2>3 DEF SearchLeft, MostSteps
<1> QED BY <1>3, <1>4, <1>5, CallsLeaveSearch DEF SearchInv, MostSteps

\* The search answers on every finite graph, cyclic ones included: after at most
\* two turns of its loops for each waypoint and one more, with every turn one
\* less, and whatever other call comes in between
\* (UndockAction::generate_undock_path).
THEOREM SearchEnds ==
  ASSUME IsFiniteSet(Waypoints)
  PROVE  GraphSpec => /\ [](SearchLeft \in 0..MostSteps)
                      /\ []SearchGoesOn
                      /\ [][SearchAdvances]_graphVars
<1>1. GraphInit => SearchLeft <= MostSteps
  <2> SUFFICES ASSUME GraphInit PROVE SearchLeft <= MostSteps
    OBVIOUS
  <2>1. searching = FALSE /\ start = None
    BY DEF GraphInit, SearchInit
  <2>2. Cardinality(Waypoints) \in Nat
    BY FS_CardinalityType
  <2> QED BY <2>1, <2>2 DEF SearchLeft, MostSteps
<1>2. RobotInv /\ SearchLeft <= MostSteps /\ [GraphNext]_graphVars
        => (SearchLeft <= MostSteps)'
  BY SearchBound DEF RobotInv
<1>3. RobotInv /\ SearchLeft <= MostSteps => SearchLeft \in 0..MostSteps
  <2> SUFFICES ASSUME RobotInv, SearchLeft <= MostSteps
               PROVE  SearchLeft \in 0..MostSteps
    OBVIOUS
  <2>1. SearchLeft \in Nat /\ Cardinality(Waypoints) \in Nat
    BY SearchCounts DEF RobotInv, SearchInv
  <2>2. MostSteps \in Nat
    BY <2>1 DEF MostSteps
  <2> QED BY <2>1, <2>2
<1>4. RobotInv => SearchGoesOn
  <2> SUFFICES ASSUME RobotInv
               PROVE  /\ todo # {} => \E next \in todo : \A v \in todo : next <= v
                      /\ queue # << >> => Depth(Front) \in 0..MaxDepth
    BY DEF SearchGoesOn
  <2>1. todo \in SUBSET Nat
    BY WaypointsAssumption DEF RobotInv, SearchInv, SearchTypeOK
  <2>2. todo # {} => \E next \in todo : \A v \in todo : next <= v
    BY <2>1, LeastNatural
  <2>3. queue # << >> => Len(Front) \in 1..(MaxDepth + 1)
    BY FrontIsGood DEF RobotInv, SearchInv, GoodPath
  <2> QED BY <2>2, <2>3, DepthAssumption DEF Depth
<1>5. RobotInv /\ [GraphNext]_graphVars => [SearchAdvances]_graphVars
  <2> SUFFICES ASSUME RobotInv, [GraphNext]_graphVars PROVE SearchAdvances
    OBVIOUS
  <2>1. SearchOn => SearchLeft' < SearchLeft
    BY SearchOnAdvances DEF RobotInv, SearchOn
  <2>2. start # None /\ ~SearchOn => UNCHANGED vars
    BY CallsLeaveSearch DEF RobotInv, SearchInv, BeginSearch
  <2>3. UNCHANGED vars => SearchLeft' = SearchLeft
    BY DEF vars, searchVars, SearchLeft, Unvisited
  <2> QED BY <2>1, <2>2, <2>3 DEF SearchAdvances
<1> QED BY <1>1, <1>2, <1>3, <1>4, <1>5, RobotInvariant, PTL DEF GraphSpec
=============================================================================
