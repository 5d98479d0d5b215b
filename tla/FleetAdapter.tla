---------------------------- MODULE FleetAdapter ----------------------------
(***************************************************************************)
(* The fleet adapter's book-keeping of robots: FleetAdapter registers the  *)
(* configured (static) robots with RMF, RestRobotDiscovery registers those *)
(* that it finds while the adapter runs (dynamic), and the update timer    *)
(* gives RMF the positions of the robots in FleetAdapter::robots_.         *)
(*                                                                         *)
(* There are two tables of robots and two of command handles, and a robot  *)
(* of one name may come from either source.  The timer callback and RMF's  *)
(* answers run one after the other on the adapter's executor; the robots   *)
(* and the REST server change at any step, also while the callback waits.  *)
(***************************************************************************)
EXTENDS Naturals

CONSTANTS
  Robots,    \* the names that match the discovery's pattern
  Static,    \* the robots of the configuration
  Mapped     \* the robots on a map that has a coordinate transform

ASSUME RobotsAssumption ==
  Static \subseteq Robots /\ Mapped \subseteq Robots /\ "none" \notin Robots

VARIABLES
  pc,           \* where the main thread (until the timer) or the executor is
  todo,         \* the robots that the loop under way has still to visit
  cur,          \* the robot that is being added, or "none"
  main,         \* FleetAdapter::robots_: the source of each RobotState
  found,        \* RestRobotDiscovery::robots_
  kept,         \* RestRobotDiscovery::command_handles_: none, one that RMF
                \* does not know, or the one it was registered with
  discovering,  \* discovery_ is set
  due,          \* a discovery period has passed since the last scan
  added,        \* how often each source called add_robot for each robot
  handles,      \* the RobotStates that have their update handle
  served,       \* the RobotStates whose position RMF has been given
  announced,    \* the robots the REST server lists
  publishing,   \* the robots whose TF reaches a new subscriber
  near          \* the robots within reach of a waypoint or lane

tables == <<main, found, kept>>
rmf == <<added, handles, served>>
world == <<announced, publishing, near>>
vars == <<pc, todo, cur, tables, discovering, due, rmf, world>>

Sources == {"static", "dynamic"}
RobotStates == Sources \X Robots

TypeOK ==
  /\ pc \in {"boot", "static", "discovery", "idle", "update", "discover",
             "add", "pose", "place", "merge", "down"}
  /\ todo \subseteq Robots
  /\ cur \in Robots \union {"none"}
  /\ cur # "none" <=> pc \in {"pose", "place"}
  /\ main \in [Robots -> Sources \union {"none"}]
  /\ found \subseteq Robots
  /\ kept \in [Robots -> {"none", "unknown", "registered"}]
  /\ discovering \in BOOLEAN /\ due \in BOOLEAN
  /\ added \in [RobotStates -> Nat]
  /\ handles \subseteq RobotStates /\ served \subseteq handles
  /\ announced \subseteq Robots /\ publishing \subseteq Robots /\ near \subseteq Robots

Init ==
  /\ pc = "boot" /\ todo = {} /\ cur = "none"
  /\ main = [r \in Robots |-> "none"]
  /\ found = {}
  /\ kept = [r \in Robots |-> "none"]
  /\ discovering = FALSE /\ due = TRUE
  /\ added = [x \in RobotStates |-> 0]
  /\ handles = {} /\ served = {}
  /\ announced = {} /\ publishing = {} /\ near = {}

AddRobot(s, r) == added' = [added EXCEPT ![<<s, r>>] = @ + 1]

(***************************************************************************)
(* initialize_fleet, on the main thread.                                   *)
(***************************************************************************)
\* Zenoh may be missing, but not the graph.
InitializeFleet ==
  /\ pc = "boot"
  /\ pc' = "static" /\ todo' = Static
  /\ UNCHANGED <<cur, tables, discovering, due, rmf, world>>

InitializeFails ==
  /\ pc = "boot"
  /\ pc' = "down"
  /\ UNCHANGED <<todo, cur, tables, discovering, due, rmf, world>>

\* No pose, no start near the pose, or an exception.
SkipStaticRobot(r) ==
  /\ pc = "static" /\ r \in todo
  /\ todo' = todo \ {r}
  /\ UNCHANGED <<pc, cur, tables, discovering, due, rmf, world>>

\* The starts are computed from the pose in the robot's own coordinates, so
\* that neither the transform nor near decides.
AddStaticRobot(r) ==
  /\ pc = "static" /\ r \in todo
  /\ r \in publishing
  /\ AddRobot("static", r)
  /\ main' = [main EXCEPT ![r] = "static"]
  /\ todo' = todo \ {r}
  /\ UNCHANGED <<pc, cur, found, kept, discovering, due, handles, served, world>>

StaticRobotsDone ==
  /\ pc = "static" /\ todo = {}
  /\ pc' = "discovery"
  /\ UNCHANGED <<todo, cur, tables, discovering, due, rmf, world>>

\* Disabled, or its constructor raised.
InitializeDiscovery ==
  /\ pc = "discovery"
  /\ discovering' \in BOOLEAN
  /\ pc' = "idle"
  /\ UNCHANGED <<todo, cur, tables, due, rmf, world>>

(***************************************************************************)
(* RMF's answer to add_robot: the RobotState gets its update handle.       *)
(***************************************************************************)
SetUpdateHandle(x) ==
  /\ pc = "idle"
  /\ added[x] > 0 /\ x \notin handles
  /\ handles' = handles \union {x}
  /\ UNCHANGED <<pc, todo, cur, tables, discovering, due, added, served, world>>

(***************************************************************************)
(* The timer callback: the robots first, then the discovery.               *)
(***************************************************************************)
Tick ==
  /\ pc = "idle"
  /\ pc' = "update" /\ todo' = {r \in Robots : main[r] # "none"}
  /\ UNCHANGED <<cur, tables, discovering, due, rmf, world>>

\* Mutant: RMF is given a position without a look at the update handle.
UpdateUnchecked(r) ==
  /\ pc = "update" /\ r \in todo
  /\ served' = IF r \in Mapped THEN served \union {<<main[r], r>>} ELSE served
  /\ todo' = todo \ {r}
  /\ UNCHANGED <<pc, cur, tables, discovering, due, added, handles, world>>

\* RobotState::update.  A RobotState in the table has seen a pose, and TF keeps
\* the latest one.
UpdateRobot(r) ==
  /\ pc = "update" /\ r \in todo
  /\ LET x == <<main[r], r>> IN
       served' = IF x \in handles /\ r \in Mapped THEN served \union {x} ELSE served
  /\ todo' = todo \ {r}
  /\ UNCHANGED <<pc, cur, tables, discovering, due, added, handles, world>>

RobotsUpdated ==
  /\ pc = "update" /\ todo = {}
  /\ pc' = IF discovering THEN "discover" ELSE "idle"
  /\ UNCHANGED <<todo, cur, tables, discovering, due, rmf, world>>

NotDue ==
  /\ pc = "discover" /\ ~due
  /\ pc' = "merge"
  /\ UNCHANGED <<todo, cur, tables, discovering, due, rmf, world>>

\* Mutant: robots that were added before are tried again.
ScanForgets(names) ==
  /\ pc = "discover" /\ due
  /\ due' = FALSE
  /\ todo' = names
  /\ pc' = "add"
  /\ UNCHANGED <<cur, tables, discovering, rmf, world>>

\* The time of the scan is noted before it starts.
Scan(names) ==
  /\ pc = "discover" /\ due
  /\ due' = FALSE
  /\ todo' = names \ found
  /\ pc' = "add"
  /\ UNCHANGED <<cur, tables, discovering, rmf, world>>

ScanAnswers == Scan(announced)

\* No connection, a timeout, an HTTP error, or an answer that cannot be parsed
\* to its end.
ScanFails == \E names \in SUBSET announced : Scan(names)

\* A bad pattern raises what the scan does not catch.
ScanThrows ==
  /\ pc = "discover" /\ due
  /\ due' = FALSE
  /\ pc' = "idle"
  /\ UNCHANGED <<todo, cur, tables, discovering, rmf, world>>

(***************************************************************************)
(* add_dynamic_robot.                                                      *)
(***************************************************************************)
TryRobot(r) ==
  /\ pc = "add" /\ r \in todo
  /\ cur' = r
  /\ pc' = "pose"
  /\ UNCHANGED <<todo, tables, discovering, due, rmf, world>>

NextRobot == todo' = todo \ {cur} /\ cur' = "none" /\ pc' = "add"

\* Mutant: no pose, no end to the attempts.
WaitOn ==
  /\ pc = "pose" /\ cur \notin publishing
  /\ UNCHANGED vars

\* Mutant: a robot that was tried once counts as seen.
NoPoseEver ==
  /\ pc = "pose" /\ cur \notin publishing
  /\ found' = found \union {cur}
  /\ NextRobot
  /\ UNCHANGED <<main, kept, discovering, due, rmf, world>>

\* Ten attempts without a pose.
NoPose ==
  /\ pc = "pose" /\ cur \notin publishing
  /\ NextRobot
  /\ UNCHANGED <<tables, discovering, due, rmf, world>>

\* The new command handle replaces the one of an earlier attempt.
CreateCommandHandle ==
  /\ pc = "pose" /\ cur \in publishing
  /\ kept' = [kept EXCEPT ![cur] = "unknown"]
  /\ pc' = "place"
  /\ UNCHANGED <<todo, cur, main, found, discovering, due, rmf, world>>

CannotPlace ==
  /\ pc = "place" /\ cur \notin near \intersect Mapped
  /\ NextRobot
  /\ UNCHANGED <<tables, discovering, due, rmf, world>>

RegisterRobot ==
  /\ pc = "place" /\ cur \in near \intersect Mapped
  /\ AddRobot("dynamic", cur)
  /\ found' = found \union {cur}
  /\ kept' = [kept EXCEPT ![cur] = "registered"]
  /\ NextRobot
  /\ UNCHANGED <<main, discovering, due, handles, served, world>>

RobotsTried ==
  /\ pc = "add" /\ todo = {}
  /\ pc' = "merge"
  /\ UNCHANGED <<todo, cur, tables, discovering, due, rmf, world>>

\* Mutant: only robots that the configuration does not name are merged.
MergeOthers ==
  /\ pc = "merge"
  /\ main' = [r \in Robots |->
       IF r \in found \ Static /\ main[r] = "none" THEN "dynamic" ELSE main[r]]
  /\ pc' = "idle"
  /\ UNCHANGED <<todo, cur, found, kept, discovering, due, rmf, world>>

\* Mutant: what the discovery found replaces what is in the table.
MergeOverwrites ==
  /\ pc = "merge"
  /\ main' = [r \in Robots |-> IF r \in found THEN "dynamic" ELSE main[r]]
  /\ pc' = "idle"
  /\ UNCHANGED <<todo, cur, found, kept, discovering, due, rmf, world>>

Merge ==
  /\ pc = "merge"
  /\ main' = [r \in Robots |->
       IF r \in found /\ main[r] = "none" THEN "dynamic" ELSE main[r]]
  /\ pc' = "idle"
  /\ UNCHANGED <<todo, cur, found, kept, discovering, due, rmf, world>>

(***************************************************************************)
(* The environment.                                                        *)
(***************************************************************************)
Flip(set, r) == IF r \in set THEN set \ {r} ELSE set \union {r}

WorldChanges(r) ==
  /\ \/ announced' = Flip(announced, r) /\ UNCHANGED <<publishing, near>>
     \/ publishing' = Flip(publishing, r) /\ UNCHANGED <<announced, near>>
     \/ near' = Flip(near, r) /\ UNCHANGED <<announced, publishing>>
  /\ UNCHANGED <<pc, todo, cur, tables, discovering, due, rmf>>

PeriodPasses ==
  /\ ~due
  /\ due' = TRUE
  /\ UNCHANGED <<pc, todo, cur, tables, discovering, rmf, world>>

-----------------------------------------------------------------------------
StartStep ==
  \/ InitializeFleet \/ InitializeFails \/ StaticRobotsDone \/ InitializeDiscovery
  \/ \E r \in Robots : SkipStaticRobot(r) \/ AddStaticRobot(r)

DiscoveryStep ==
  \/ NotDue \/ ScanAnswers \/ ScanFails \/ ScanThrows
  \/ NoPose \/ CreateCommandHandle \/ CannotPlace \/ RegisterRobot
  \/ RobotsTried \/ Merge
  \/ \E r \in Robots : TryRobot(r)

CallbackStep == RobotsUpdated \/ DiscoveryStep \/ \E r \in Robots : UpdateRobot(r)

Next ==
  \/ StartStep \/ Tick \/ CallbackStep \/ PeriodPasses
  \/ \E x \in RobotStates : SetUpdateHandle(x)
  \/ \E r \in Robots : WorldChanges(r)

Spec == Init /\ [][Next]_vars

\* The adapter starts, its timer and RMF's answers get their turns on the
\* executor, time passes, and the REST server does not fail for ever.
Fairness ==
  /\ WF_vars(StartStep) /\ WF_vars(CallbackStep) /\ WF_vars(PeriodPasses)
  /\ SF_vars(Tick) /\ SF_vars(ScanAnswers)
  /\ SF_vars(\E x \in RobotStates : SetUpdateHandle(x))

FairSpec == Spec /\ Fairness
-----------------------------------------------------------------------------
(***************************************************************************)
(* Properties.                                                             *)
(***************************************************************************)
\* RMF knows of a dynamic robot only through one command handle, and that is
\* the one that the discovery keeps alive, whatever attempts failed before
\* (add_dynamic_robot: "MUST keep command_handle alive!").
RegisteredHandleKept ==
  \A r \in Robots :
    added[<<"dynamic", r>>] <= (IF kept[r] = "registered" THEN 1 ELSE 0)

\* Between two callbacks every robot that RMF knows is in the table that the
\* timer updates, with a RobotState that RMF knows (update_loop's merge).
RegisteredIsUpdated ==
  pc = "idle" =>
    \A r \in Robots :
      (\E s \in Sources : added[<<s, r>>] > 0) =>
        main[r] # "none" /\ added[<<main[r], r>>] > 0

\* Of a robot that both the configuration and the discovery registered, RMF is
\* given the position of one RobotState only, whatever the order of scans, failed
\* attempts and RMF's answers: the other one never takes its place
\* (update_loop's merge, initialize_fleet, RobotState::update).
OneSourceServed ==
  \A r \in Robots, s \in Sources, t \in Sources :
    <<s, r>> \in served /\ <<t, r>> \in served => s = t

\* However many scans and attempts fail, a robot on a known map that stays
\* announced, publishes its TF and is near the graph joins the fleet: RMF is
\* given its position (discover_robots, "Will retry on next discovery cycle").
Ready(r) == r \in announced /\ r \in publishing /\ r \in near
JoinsFleet ==
  \A r \in Mapped :
    (<>discovering /\ <>[]Ready(r)) => <>(\E s \in Sources : <<s, r>> \in served)

\* The robots are updated again and again: no robot that cannot be added and no
\* scan that fails holds up the timer callback (update_loop, discover_robots).
LoopGoesOn == (pc # "down") ~> (pc \in {"update", "down"})

-----------------------------------------------------------------------------
\* "Add new robots that we haven't seen before" (robot_discovery.cpp:85): a
\* robot is registered with RMF at most once.
RegisteredOnce ==
  \A r \in Robots : added[<<"static", r>>] + added[<<"dynamic", r>>] <= 1
=============================================================================
