--------------------------- MODULE NearestJunction ---------------------------
(***************************************************************************)
(* What the search of an undock motion promises: a shortest way along the  *)
(* lanes, in their direction, from where the robot starts to a junction    *)
(* other than the start, if there is one that is near enough, and nothing  *)
(* otherwise; and the search ends.                                         *)
(***************************************************************************)
EXTENDS Naturals, FiniteSets

CONSTANTS
  Waypoints,
  MaxDepth,   \* junctions are looked for less than so many lanes away
  None        \* no waypoint

VARIABLES
  graph,      \* the lanes, as pairs of an entry and an exit
  searching,
  start,
  answer      \* the way found, or << >>

vars == <<graph, searching, start, answer>>

\* Waypoints one lane away, in whatever direction.
Neighbours(w) == {v \in Waypoints : <<w, v>> \in graph \/ <<v, w>> \in graph}
Junction(w) == Cardinality(Neighbours(w)) >= 3

\* The ways of n lanes from the start.
Ways(n) ==
  {s \in [1..(n + 1) -> Waypoints] :
     s[1] = start /\ \A i \in 1..n : <<s[i], s[i + 1]>> \in graph}

GoodWays(n) == {s \in Ways(n) : s[n + 1] # start /\ Junction(s[n + 1])}

Lengths == {n \in 1..(MaxDepth - 1) : GoodWays(n) # {}}

Answers ==
  IF Lengths = {} THEN {<< >>}
  ELSE GoodWays(CHOOSE n \in Lengths : \A m \in Lengths : n <= m)

Init ==
  /\ graph \in SUBSET (Waypoints \X Waypoints)
  /\ searching = FALSE
  /\ start = None
  /\ answer = << >>

Ask ==
  /\ start = None
  /\ searching' = TRUE
  /\ start' \in Waypoints
  /\ answer' = << >>
  /\ UNCHANGED graph

Answer ==
  /\ searching
  /\ searching' = FALSE
  /\ answer' \in Answers
  /\ UNCHANGED <<graph, start>>

Take ==
  /\ ~searching /\ start # None
  /\ start' = None
  /\ answer' = << >>
  /\ UNCHANGED <<graph, searching>>

Next == Ask \/ Answer \/ Take

Safe == Init /\ [][Next]_vars

Spec == Safe /\ WF_vars(Answer) /\ WF_vars(Take)
=============================================================================
