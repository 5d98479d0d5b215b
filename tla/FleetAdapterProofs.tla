------------------------- MODULE FleetAdapterProofs -------------------------
(***************************************************************************)
(* Proofs about FleetAdapter, for any robots, configuration and maps.      *)
(***************************************************************************)
EXTENDS FleetAdapter, FiniteSets, FiniteSetTheorems, TLAPS

\* The robots that the discovery is about to try are none of those it found.
TriedAreNew ==
  /\ pc \in {"add", "pose", "place"} => todo \intersect found = {}
  /\ pc \in {"pose", "place"} => cur \in todo

\* What the discovery keeps of a robot agrees with what it told RMF.
FoundAreRegistered ==
  \A r \in Robots :
    /\ r \in found <=> kept[r] = "registered"
    /\ added[<<"dynamic", r>>] = (IF r \in found THEN 1 ELSE 0)

\* The table of the timer names a source that registered the robot.
MainIsRegistered ==
  \A r \in Robots :
    /\ added[<<"static", r>>] > 0 => main[r] # "none"
    /\ main[r] # "none" => added[<<main[r], r>>] > 0

\* Before the timer runs only the configuration adds robots; outside the
\* discovery every robot that it found has been merged.
FoundAreMerged ==
  /\ pc \in {"boot", "static", "discovery"} => found = {}
  /\ pc \notin {"add", "pose", "place", "merge"} =>
       \A r \in found : main[r] # "none"

IInv ==
  /\ TypeOK
  /\ TriedAreNew
  /\ FoundAreRegistered
  /\ MainIsRegistered
  /\ FoundAreMerged

LEMMA InitIInv == Init => IInv
<1> SUFFICES ASSUME Init PROVE IInv OBVIOUS
<1>1. discovering \in BOOLEAN /\ due \in BOOLEAN
  BY Zenon DEF Init
<1>2. TypeOK
  BY <1>1 DEF Init, TypeOK, RobotStates, Sources
<1>3. TriedAreNew /\ FoundAreMerged
  BY DEF Init, TriedAreNew, FoundAreMerged
<1>4. FoundAreRegistered /\ MainIsRegistered
  BY DEF Init, FoundAreRegistered, MainIsRegistered, RobotStates, Sources
<1> QED BY <1>2, <1>3, <1>4 DEF IInv

\* The steps that only move on, or that change what the invariant is not about.
LEMMA MovingIInv ==
  ASSUME IInv,
         \/ InitializeFleet \/ InitializeFails \/ StaticRobotsDone \/ InitializeDiscovery
         \/ \E r \in Robots : SkipStaticRobot(r)
         \/ Tick \/ RobotsUpdated \/ NotDue \/ ScanThrows
  PROVE  IInv'
<1>1. UNCHANGED <<cur, main, found, kept, added, handles, served,
                  announced, publishing, near>>
  BY DEF InitializeFleet, InitializeFails, StaticRobotsDone, InitializeDiscovery,
         SkipStaticRobot, Tick, RobotsUpdated, NotDue, ScanThrows, tables, rmf, world
<1>2. discovering' \in BOOLEAN /\ due' \in BOOLEAN
  <2>1. CASE InitializeDiscovery
    BY <2>1, Zenon DEF InitializeDiscovery, IInv, TypeOK
  <2>2. CASE ScanThrows
    BY <2>2, Zenon DEF ScanThrows, IInv, TypeOK
  <2>3. CASE \/ InitializeFleet \/ InitializeFails \/ StaticRobotsDone
             \/ \E r \in Robots : SkipStaticRobot(r)
             \/ Tick \/ RobotsUpdated \/ NotDue
    <3>1. discovering' = discovering /\ due' = due
      BY <2>3 DEF InitializeFleet, InitializeFails, StaticRobotsDone, SkipStaticRobot,
                  Tick, RobotsUpdated, NotDue
    <3> QED BY <3>1 DEF IInv, TypeOK
  <2> QED BY <2>1, <2>2, <2>3
<1>3. /\ pc \in {"boot", "static", "discovery", "idle", "update", "discover"}
      /\ pc' \in {"static", "discovery", "idle", "update", "discover", "merge", "down"}
      /\ pc' \in {"static", "discovery"} => pc \in {"boot", "static"}
      /\ todo' \subseteq Robots
  BY RobotsAssumption
  DEF InitializeFleet, InitializeFails, StaticRobotsDone, InitializeDiscovery,
      SkipStaticRobot, Tick, RobotsUpdated, NotDue, ScanThrows, IInv, TypeOK
<1>4. TypeOK'
  BY <1>1, <1>2, <1>3 DEF IInv, TypeOK
<1>5. TriedAreNew' /\ FoundAreMerged'
  BY <1>1, <1>3 DEF IInv, TriedAreNew, FoundAreMerged
<1>6. FoundAreRegistered' /\ MainIsRegistered'
  BY <1>1 DEF IInv, FoundAreRegistered, MainIsRegistered
<1> QED BY <1>4, <1>5, <1>6 DEF IInv

LEMMA AddStaticIInv ==
  ASSUME IInv, NEW r \in Robots, AddStaticRobot(r)
  PROVE  IInv'
<1>1. /\ UNCHANGED <<pc, cur, found, kept, discovering, due, handles, served,
                     announced, publishing, near>>
      /\ pc = "static" /\ todo' \subseteq todo
      /\ added' = [added EXCEPT ![<<"static", r>>] = @ + 1]
      /\ main' = [main EXCEPT ![r] = "static"]
  BY DEF AddStaticRobot, AddRobot, world
<1>2. <<"static", r>> \in RobotStates /\ added[<<"static", r>>] \in Nat
  BY DEF IInv, TypeOK, RobotStates, Sources
<1>3. TypeOK'
  BY <1>1, <1>2 DEF IInv, TypeOK, Sources
<1>4. TriedAreNew' /\ FoundAreMerged'
  BY <1>1 DEF IInv, TypeOK, TriedAreNew, FoundAreMerged
<1>5. FoundAreRegistered'
  <2>1. \A q \in Robots : added'[<<"dynamic", q>>] = added[<<"dynamic", q>>]
    BY <1>1 DEF IInv, TypeOK, RobotStates, Sources
  <2> QED BY <1>1, <2>1 DEF IInv, FoundAreRegistered
<1>6. MainIsRegistered'
  <2> SUFFICES ASSUME NEW q \in Robots
               PROVE  /\ added'[<<"static", q>>] > 0 => main'[q] # "none"
                      /\ main'[q] # "none" => added'[<<main'[q], q>>] > 0
    BY DEF MainIsRegistered
  <2>1. CASE q = r
    BY <1>1, <1>2, <2>1 DEF IInv, TypeOK, RobotStates, Sources
  <2>2. CASE q # r
    <3>1. main'[q] = main[q] /\ \A s \in Sources : added'[<<s, q>>] = added[<<s, q>>]
      BY <1>1, <2>2 DEF IInv, TypeOK, RobotStates
    <3>2. main[q] # "none" => main[q] \in Sources
      BY DEF IInv, TypeOK
    <3> QED BY <3>1, <3>2 DEF IInv, MainIsRegistered, Sources
  <2> QED BY <2>1, <2>2
<1> QED BY <1>3, <1>4, <1>5, <1>6 DEF IInv

LEMMA ServeIInv ==
  ASSUME IInv,
         \/ \E x \in RobotStates : SetUpdateHandle(x)
         \/ \E r \in Robots : UpdateRobot(r)
  PROVE  IInv'
<1>1. UNCHANGED <<pc, cur, main, found, kept, discovering, due, added,
                  announced, publishing, near>>
      /\ todo' \subseteq todo /\ pc \in {"idle", "update"}
  BY DEF SetUpdateHandle, UpdateRobot, tables, world
<1>2. handles' \subseteq RobotStates /\ served' \subseteq handles'
  <2>1. CASE \E x \in RobotStates : SetUpdateHandle(x)
    BY <2>1 DEF SetUpdateHandle, IInv, TypeOK
  <2>2. ASSUME NEW r \in Robots, UpdateRobot(r)
        PROVE  handles' \subseteq RobotStates /\ served' \subseteq handles'
    BY <2>2 DEF UpdateRobot, IInv, TypeOK
  <2> QED BY <2>1, <2>2
<1>3. TypeOK'
  BY <1>1, <1>2 DEF IInv, TypeOK
<1>4. TriedAreNew' /\ FoundAreMerged'
  BY <1>1 DEF IInv, TriedAreNew, FoundAreMerged
<1> QED BY <1>1, <1>3, <1>4 DEF IInv, FoundAreRegistered, MainIsRegistered

LEMMA ScanIInv ==
  ASSUME IInv, ScanAnswers \/ ScanFails
  PROVE  IInv'
<1>1. PICK names \in SUBSET announced : Scan(names)
  BY DEF ScanAnswers, ScanFails
<1>2. /\ UNCHANGED <<cur, main, found, kept, discovering, added, handles, served,
                     announced, publishing, near>>
      /\ pc = "discover" /\ pc' = "add" /\ todo' = names \ found
  BY <1>1 DEF Scan, tables, rmf, world
<1>3. due' \in BOOLEAN
  BY <1>1, Zenon DEF Scan
<1>4. TypeOK'
  BY <1>1, <1>2, <1>3 DEF IInv, TypeOK
<1>5. TriedAreNew' /\ FoundAreMerged'
  BY <1>2 DEF TriedAreNew, FoundAreMerged
<1> QED BY <1>2, <1>4, <1>5 DEF IInv, FoundAreRegistered, MainIsRegistered

LEMMA TryIInv ==
  ASSUME IInv,
         \/ \E r \in Robots : TryRobot(r)
         \/ NoPose \/ CannotPlace \/ RobotsTried
  PROVE  IInv'
<1>1. UNCHANGED <<main, found, kept, discovering, due, added, handles, served,
                  announced, publishing, near>>
  BY DEF TryRobot, NoPose, CannotPlace, RobotsTried, tables, rmf, world
<1>2. /\ pc \in {"add", "pose", "place"} /\ todo' \subseteq todo
      /\ \/ pc' = "pose" /\ cur' \in Robots /\ cur' \in todo'
         \/ pc' \in {"add", "merge"} /\ cur' = "none"
  BY DEF TryRobot, NoPose, CannotPlace, RobotsTried, NextRobot, IInv, TypeOK
<1>3. cur' # "none" <=> pc' \in {"pose", "place"}
  <2>1. CASE \E r \in Robots : TryRobot(r)
    BY <2>1, RobotsAssumption DEF TryRobot
  <2>2. CASE NoPose \/ CannotPlace \/ RobotsTried
    BY <2>2 DEF NoPose, CannotPlace, RobotsTried, NextRobot, IInv, TypeOK
  <2> QED BY <2>1, <2>2
<1>4. TypeOK'
  BY <1>1, <1>2, <1>3 DEF IInv, TypeOK
<1>5. TriedAreNew' /\ FoundAreMerged'
  BY <1>1, <1>2 DEF IInv, TriedAreNew, FoundAreMerged
<1> QED BY <1>1, <1>4, <1>5 DEF IInv, FoundAreRegistered, MainIsRegistered

LEMMA CreateIInv ==
  ASSUME IInv, CreateCommandHandle
  PROVE  IInv'
<1>1. /\ UNCHANGED <<todo, cur, main, found, discovering, due, added, handles, served,
                     announced, publishing, near>>
      /\ pc = "pose" /\ pc' = "place"
      /\ kept' = [kept EXCEPT ![cur] = "unknown"]
  BY DEF CreateCommandHandle, rmf, world
<1>2. cur \in Robots /\ cur \notin found
  BY <1>1 DEF IInv, TypeOK, TriedAreNew
<1>3. TypeOK'
  BY <1>1, <1>2 DEF IInv, TypeOK
<1>4. TriedAreNew' /\ FoundAreMerged' /\ MainIsRegistered'
  BY <1>1 DEF IInv, TriedAreNew, FoundAreMerged, MainIsRegistered
<1>5. FoundAreRegistered'
  BY <1>1, <1>2 DEF IInv, TypeOK, FoundAreRegistered
<1> QED BY <1>3, <1>4, <1>5 DEF IInv

LEMMA RegisterIInv ==
  ASSUME IInv, RegisterRobot
  PROVE  IInv'
<1>1. /\ UNCHANGED <<main, discovering, due, handles, served,
                     announced, publishing, near>>
      /\ pc = "place" /\ pc' = "add"
      /\ added' = [added EXCEPT ![<<"dynamic", cur>>] = @ + 1]
      /\ found' = found \union {cur}
      /\ kept' = [kept EXCEPT ![cur] = "registered"]
      /\ todo' = todo \ {cur} /\ cur' = "none"
  BY DEF RegisterRobot, AddRobot, NextRobot, world
<1>2. cur \in Robots /\ cur \notin found /\ added[<<"dynamic", cur>>] = 0
  BY <1>1 DEF IInv, TypeOK, TriedAreNew, FoundAreRegistered
<1>3. TypeOK'
  BY <1>1, <1>2 DEF IInv, TypeOK, RobotStates, Sources
<1>4. TriedAreNew' /\ FoundAreMerged'
  BY <1>1 DEF IInv, TriedAreNew, FoundAreMerged
<1>5. \A s \in Sources, q \in Robots :
        added'[<<s, q>>] = IF s = "dynamic" /\ q = cur THEN 1 ELSE added[<<s, q>>]
  BY <1>1, <1>2 DEF IInv, TypeOK, RobotStates, Sources
<1>6. FoundAreRegistered'
  BY <1>1, <1>2, <1>5 DEF IInv, TypeOK, FoundAreRegistered, Sources
<1>7. MainIsRegistered'
  <2> SUFFICES ASSUME NEW q \in Robots
               PROVE  /\ added'[<<"static", q>>] > 0 => main[q] # "none"
                      /\ main[q] # "none" => added'[<<main[q], q>>] > 0
    BY <1>1 DEF MainIsRegistered
  <2>1. main[q] # "none" => main[q] \in Sources
    BY DEF IInv, TypeOK
  <2> QED BY <1>5, <2>1 DEF IInv, MainIsRegistered, Sources
<1> QED BY <1>3, <1>4, <1>6, <1>7 DEF IInv

LEMMA MergeIInv ==
  ASSUME IInv, Merge
  PROVE  IInv'
<1>1. /\ UNCHANGED <<todo, cur, found, kept, discovering, due, added, handles, served,
                     announced, publishing, near>>
      /\ pc = "merge" /\ pc' = "idle"
      /\ main' = [r \in Robots |->
           IF r \in found /\ main[r] = "none" THEN "dynamic" ELSE main[r]]
  BY DEF Merge, rmf, world
<1>2. TypeOK'
  BY <1>1 DEF IInv, TypeOK, Sources
<1>3. TriedAreNew' /\ FoundAreMerged' /\ FoundAreRegistered'
  BY <1>1 DEF IInv, TypeOK, TriedAreNew, FoundAreMerged, FoundAreRegistered
<1>4. MainIsRegistered'
  <2> SUFFICES ASSUME NEW q \in Robots
               PROVE  /\ added[<<"static", q>>] > 0 => main'[q] # "none"
                      /\ main'[q] # "none" => added[<<main'[q], q>>] > 0
    BY <1>1 DEF MainIsRegistered
  <2>1. CASE q \in found /\ main[q] = "none"
    BY <1>1, <2>1 DEF IInv, FoundAreRegistered
  <2>2. CASE ~(q \in found /\ main[q] = "none")
    BY <1>1, <2>2 DEF IInv, MainIsRegistered
  <2> QED BY <2>1, <2>2
<1> QED BY <1>2, <1>3, <1>4 DEF IInv

LEMMA WorldIInv ==
  ASSUME IInv, PeriodPasses \/ \E r \in Robots : WorldChanges(r)
  PROVE  IInv'
<1>1. UNCHANGED <<pc, todo, cur, main, found, kept, discovering, added, handles, served>>
  BY DEF PeriodPasses, WorldChanges, tables, rmf
<1>2. due' \in BOOLEAN
  <2>1. CASE PeriodPasses
    BY <2>1, Zenon DEF PeriodPasses
  <2>2. CASE \E r \in Robots : WorldChanges(r)
    <3>1. due' = due
      BY <2>2 DEF WorldChanges
    <3> QED BY <3>1 DEF IInv, TypeOK
  <2> QED BY <2>1, <2>2
<1>3. announced' \subseteq Robots /\ publishing' \subseteq Robots /\ near' \subseteq Robots
  <2>1. CASE PeriodPasses
    BY <2>1 DEF PeriodPasses, world, IInv, TypeOK
  <2>2. ASSUME NEW r \in Robots, WorldChanges(r)
        PROVE  announced' \subseteq Robots /\ publishing' \subseteq Robots
               /\ near' \subseteq Robots
    BY <2>2 DEF WorldChanges, Flip, IInv, TypeOK
  <2> QED BY <2>1, <2>2
<1>4. TypeOK'
  BY <1>1, <1>2, <1>3 DEF IInv, TypeOK
<1> QED
  BY <1>1, <1>4
  DEF IInv, TriedAreNew, FoundAreRegistered, MainIsRegistered, FoundAreMerged

LEMMA Invariance == Spec => []IInv
<1>1. IInv /\ [Next]_vars => IInv'
  <2> SUFFICES ASSUME IInv, [Next]_vars PROVE IInv' OBVIOUS
  <2>1. CASE StartStep \/ Tick
    BY <2>1, MovingIInv, AddStaticIInv DEF StartStep
  <2>2. CASE CallbackStep
    BY <2>2, MovingIInv, ServeIInv, ScanIInv, TryIInv, CreateIInv, RegisterIInv, MergeIInv
    DEF CallbackStep, DiscoveryStep
  <2>3. CASE PeriodPasses \/ \E r \in Robots : WorldChanges(r)
    BY <2>3, WorldIInv
  <2>4. CASE \E x \in RobotStates : SetUpdateHandle(x)
    BY <2>4, ServeIInv
  <2>5. CASE UNCHANGED vars
    BY <2>5 DEF vars, tables, rmf, world, IInv, TypeOK, TriedAreNew,
                FoundAreRegistered, MainIsRegistered, FoundAreMerged
  <2> QED BY <2>1, <2>2, <2>3, <2>4, <2>5 DEF Next
<1> QED BY <1>1, InitIInv, PTL DEF Spec

\* RMF knows of a discovered robot through one command handle only, and the
\* discovery keeps that one alive (add_dynamic_robot).
THEOREM HandleIsKept == Spec => []RegisteredHandleKept
<1>1. IInv => RegisteredHandleKept
  <2> SUFFICES ASSUME IInv, NEW r \in Robots
               PROVE  added[<<"dynamic", r>>] <= (IF kept[r] = "registered" THEN 1 ELSE 0)
    BY DEF RegisteredHandleKept
  <2>1. CASE r \in found
    BY <2>1 DEF IInv, FoundAreRegistered
  <2>2. CASE r \notin found
    BY <2>2 DEF IInv, FoundAreRegistered
  <2> QED BY <2>1, <2>2
<1> QED BY <1>1, Invariance, PTL

\* Between two timer callbacks the timer's table has every robot that RMF knows
\* (update_loop).
THEOREM RegisteredAreUpdated == Spec => []RegisteredIsUpdated
<1>1. IInv => RegisteredIsUpdated
  <2> SUFFICES ASSUME IInv, pc = "idle", NEW r \in Robots, NEW s \in Sources,
                      added[<<s, r>>] > 0
               PROVE  main[r] # "none" /\ added[<<main[r], r>>] > 0
    BY DEF RegisteredIsUpdated
  <2>1. CASE s = "static"
    BY <2>1 DEF IInv, MainIsRegistered
  <2>2. CASE s = "dynamic"
    <3>1. r \in found
      BY <2>2 DEF IInv, FoundAreRegistered
    <3> QED BY <3>1 DEF IInv, FoundAreMerged, MainIsRegistered
  <2> QED BY <2>1, <2>2 DEF Sources
<1> QED BY <1>1, Invariance, PTL

\* The types of the module, for any robots.
THEOREM AdapterTypes == Spec => []TypeOK
  BY Invariance, PTL DEF IInv

-----------------------------------------------------------------------------
(***************************************************************************)
(* A robot of one name may have two RobotStates, but not more, and only    *)
(* one of them is ever updated.                                            *)
(***************************************************************************)
\* The configuration registers a robot when the start visits it, and only then.
StaticOnce ==
  \A r \in Robots :
    added[<<"static", r>>] <= (IF pc = "boot" \/ (pc = "static" /\ r \in todo) THEN 0 ELSE 1)

\* RMF is given the positions of the RobotStates in the timer's table.
ServedByTable == \A x \in served : main[x[2]] = x[1]

RegisteredOncePerSource == \A x \in RobotStates : added[x] <= 1

TableKept == \A r \in Robots : main[r] # "none" => main'[r] = main[r]

\* A robot that the start has yet to visit is not in the timer's table.
LEMMA VisitedFirst ==
  ASSUME IInv, StaticOnce, NEW r \in Robots, AddStaticRobot(r)
  PROVE  main[r] = "none" /\ added[<<"static", r>>] = 0
<1>1. pc = "static" /\ r \in todo
  BY DEF AddStaticRobot
<1>2. <<"static", r>> \in RobotStates /\ added[<<"static", r>>] \in Nat
  BY DEF IInv, TypeOK, RobotStates, Sources
<1>3. added[<<"static", r>>] <= 0
  BY <1>1 DEF StaticOnce
<1>4. added[<<"static", r>>] = 0
  BY <1>2, <1>3
<1>5. added[<<"dynamic", r>>] = 0
  BY <1>1 DEF IInv, FoundAreMerged, FoundAreRegistered
<1>6. main[r] \in Sources \union {"none"}
  BY DEF IInv, TypeOK
<1>7. main[r] # "none" => added[<<main[r], r>>] > 0
  BY DEF IInv, MainIsRegistered
<1> QED BY <1>4, <1>5, <1>6, <1>7 DEF Sources

LEMMA TableKeptStep ==
  ASSUME IInv, StaticOnce, [Next]_vars
  PROVE  TableKept
<1>1. ASSUME NEW r \in Robots, AddStaticRobot(r) PROVE TableKept
  <2>1. main[r] = "none" /\ main' = [main EXCEPT ![r] = "static"]
    BY <1>1, VisitedFirst DEF AddStaticRobot
  <2> QED BY <2>1 DEF TableKept, IInv, TypeOK
<1>2. CASE Merge
  BY <1>2 DEF Merge, TableKept
<1>3. CASE /\ [Next]_vars /\ ~Merge
           /\ \A r \in Robots : ~AddStaticRobot(r)
  <2>1. main' = main
    BY <1>3
    DEF Next, StartStep, CallbackStep, DiscoveryStep, InitializeFleet, InitializeFails,
        StaticRobotsDone, InitializeDiscovery, SkipStaticRobot, Tick, RobotsUpdated,
        UpdateRobot, NotDue, ScanAnswers, ScanFails, Scan, ScanThrows, TryRobot, NoPose,
        CreateCommandHandle, CannotPlace, RegisterRobot, RobotsTried, PeriodPasses,
        SetUpdateHandle, WorldChanges, vars, tables
  <2> QED BY <2>1 DEF TableKept
<1> QED BY <1>1, <1>2, <1>3

LEMMA StaticOnceStep ==
  ASSUME IInv, StaticOnce, [Next]_vars
  PROVE  StaticOnce'
<1> SUFFICES ASSUME NEW q \in Robots
             PROVE  added'[<<"static", q>>] <=
                      (IF pc' = "boot" \/ (pc' = "static" /\ q \in todo') THEN 0 ELSE 1)
  BY DEF StaticOnce
<1>1. /\ \A s \in Sources : <<s, q>> \in RobotStates /\ added[<<s, q>>] \in Nat
      /\ added[<<"static", q>>] <=
           (IF pc = "boot" \/ (pc = "static" /\ q \in todo) THEN 0 ELSE 1)
  BY DEF StaticOnce, IInv, TypeOK, RobotStates, Sources
<1>2. ASSUME NEW r \in Robots, AddStaticRobot(r)
      PROVE  added'[<<"static", q>>] <=
               (IF pc' = "boot" \/ (pc' = "static" /\ q \in todo') THEN 0 ELSE 1)
  <2>1. /\ added' = [added EXCEPT ![<<"static", r>>] = @ + 1]
        /\ pc = "static" /\ pc' = pc /\ todo' = todo \ {r}
        /\ added[<<"static", r>>] = 0
    BY <1>2, VisitedFirst DEF AddStaticRobot, AddRobot
  <2>2. CASE q = r
    BY <1>1, <2>1, <2>2 DEF IInv, TypeOK, Sources
  <2>3. CASE q # r
    BY <1>1, <2>1, <2>3 DEF IInv, TypeOK, Sources
  <2> QED BY <2>2, <2>3
<1>3. CASE RegisterRobot
  <2>1. /\ added' = [added EXCEPT ![<<"dynamic", cur>>] = @ + 1]
        /\ pc = "place" /\ pc' = "add"
    BY <1>3 DEF RegisterRobot, AddRobot, NextRobot
  <2>2. added'[<<"static", q>>] = added[<<"static", q>>]
    BY <1>1, <2>1 DEF IInv, TypeOK, Sources
  <2> QED BY <1>1, <2>1, <2>2
<1>4. CASE /\ [Next]_vars /\ ~RegisterRobot
           /\ \A r \in Robots : ~AddStaticRobot(r)
  <2>1. added' = added
    BY <1>4
    DEF Next, StartStep, CallbackStep, DiscoveryStep, InitializeFleet, InitializeFails,
        StaticRobotsDone, InitializeDiscovery, SkipStaticRobot, Tick, RobotsUpdated,
        UpdateRobot, NotDue, ScanAnswers, ScanFails, Scan, ScanThrows, TryRobot, NoPose,
        CreateCommandHandle, CannotPlace, RobotsTried, PeriodPasses, Merge,
        SetUpdateHandle, WorldChanges, vars, rmf
  <2>2. /\ pc' = "boot" => pc = "boot"
        /\ pc' = "static" => pc = "boot" \/ (pc = "static" /\ todo' \subseteq todo)
    BY <1>4
    DEF Next, StartStep, CallbackStep, DiscoveryStep, InitializeFleet, InitializeFails,
        StaticRobotsDone, InitializeDiscovery, SkipStaticRobot, Tick, RobotsUpdated,
        UpdateRobot, NotDue, ScanAnswers, ScanFails, Scan, ScanThrows, TryRobot, NoPose,
        CreateCommandHandle, CannotPlace, RobotsTried, NextRobot, PeriodPasses, Merge,
        SetUpdateHandle, WorldChanges, vars
  <2>3. (pc' = "boot" \/ (pc' = "static" /\ q \in todo')) =>
          added[<<"static", q>>] <= 0
    BY <1>1, <2>2
  <2>4. added[<<"static", q>>] <= 1
    BY <1>1 DEF Sources
  <2> QED BY <2>1, <2>3, <2>4
<1> QED BY <1>2, <1>3, <1>4

LEMMA ServedStep ==
  ASSUME IInv, StaticOnce, ServedByTable, [Next]_vars
  PROVE  ServedByTable'
<1>1. \A x \in served : x[2] \in Robots /\ main[x[2]] = x[1] /\ main[x[2]] # "none"
  BY DEF ServedByTable, IInv, TypeOK, RobotStates, Sources
<1>2. \A x \in served : main'[x[2]] = x[1]
  BY <1>1, TableKeptStep DEF TableKept
<1>3. ASSUME NEW r \in Robots, UpdateRobot(r) PROVE ServedByTable'
  <2>1. served' \subseteq served \union {<<main[r], r>>} /\ main' = main
    BY <1>3 DEF UpdateRobot, tables
  <2> QED BY <1>2, <2>1 DEF ServedByTable
<1>4. CASE [Next]_vars /\ \A r \in Robots : ~UpdateRobot(r)
  <2>1. served' = served
    BY <1>4
    DEF Next, StartStep, CallbackStep, DiscoveryStep, InitializeFleet, InitializeFails,
        StaticRobotsDone, InitializeDiscovery, SkipStaticRobot, AddStaticRobot, Tick,
        RobotsUpdated, NotDue, ScanAnswers, ScanFails, Scan, ScanThrows, TryRobot, NoPose,
        CreateCommandHandle, CannotPlace, RegisterRobot, RobotsTried, PeriodPasses, Merge,
        SetUpdateHandle, WorldChanges, vars, rmf
  <2> QED BY <1>2, <2>1 DEF ServedByTable
<1> QED BY <1>3, <1>4

LEMMA TableInvariance == Spec => [](IInv /\ StaticOnce /\ ServedByTable)
<1>1. Init => StaticOnce /\ ServedByTable
  BY DEF Init, StaticOnce, ServedByTable, RobotStates, Sources
<1>2. IInv /\ StaticOnce /\ ServedByTable /\ [Next]_vars => (StaticOnce /\ ServedByTable)'
  BY StaticOnceStep, ServedStep
<1> QED BY <1>1, <1>2, Invariance, PTL DEF Spec

\* A robot has at most the two RobotStates that its two sources register: no
\* failed attempt, repeated scan or update registers it again
\* (initialize_fleet, add_dynamic_robot).
THEOREM OncePerSource == Spec => []RegisteredOncePerSource
<1>1. IInv /\ StaticOnce => RegisteredOncePerSource
  <2> SUFFICES ASSUME IInv, StaticOnce, NEW s \in Sources, NEW r \in Robots
               PROVE  added[<<s, r>>] <= 1
    BY DEF RegisteredOncePerSource, RobotStates
  <2>1. CASE s = "static"
    BY <2>1 DEF StaticOnce, IInv, TypeOK, RobotStates, Sources
  <2>2. CASE s = "dynamic"
    BY <2>2 DEF IInv, FoundAreRegistered
  <2> QED BY <2>1, <2>2 DEF Sources
<1> QED BY <1>1, TableInvariance, PTL

\* Of a robot that both sources registered, RMF is given the position of one
\* RobotState only: what the timer's table names once it names for good, and the
\* merge never puts the RobotState of the discovery in its place
\* (update_loop's merge, initialize_fleet).
THEOREM TableIsKept == Spec => [][TableKept]_vars /\ []OneSourceServed
<1>1. IInv /\ StaticOnce /\ [Next]_vars => [TableKept]_vars
  BY TableKeptStep
<1>2. ServedByTable => OneSourceServed
  BY DEF ServedByTable, OneSourceServed
<1> QED BY <1>1, <1>2, TableInvariance, PTL DEF Spec

-----------------------------------------------------------------------------
(***************************************************************************)
(* The start and every timer callback come to an end: what LoopGoesOn      *)
(* needs of the code, next to the executor's fairness.  The steps go from  *)
(* phase to phase and, in a phase that loops, use up the robots to visit.  *)
(* There are finitely many of those: a scan reads one answer.              *)
(***************************************************************************)
Phase ==
  [boot |-> 7, static |-> 6, discovery |-> 5,
   update |-> 4, discover |-> 3, add |-> 2, pose |-> 2, place |-> 2, merge |-> 1,
   idle |-> 0, down |-> 0][pc]

Steps ==
  3 * Cardinality(todo) + (IF pc = "add" THEN 2 ELSE IF pc = "pose" THEN 1 ELSE 0)

NearerToTheEnd == Phase' < Phase \/ (Phase' = Phase /\ Steps' < Steps)

LoopShrinks ==
  /\ StartStep \/ CallbackStep => NearerToTheEnd
  /\ Phase' # Phase \/ Steps' # Steps => StartStep \/ CallbackStep \/ Tick

InTable == {r \in Robots : main[r] # "none"}

FiniteInv ==
  IsFiniteSet(todo) /\ IsFiniteSet(announced) /\ IsFiniteSet(found) /\ IsFiniteSet(InTable)

\* What a scan may read is part of a finite answer.
LEMMA FiniteScan ==
  ASSUME FiniteInv, ScanAnswers \/ ScanFails
  PROVE  IsFiniteSet(todo')
<1>1. PICK names \in SUBSET announced : Scan(names)
  BY DEF ScanAnswers, ScanFails
<1>2. todo' \in SUBSET announced
  BY <1>1 DEF Scan
<1> QED BY <1>2, FS_Subset DEF FiniteInv

LEMMA FiniteTodo ==
  ASSUME IsFiniteSet(Static), FiniteInv, [Next]_vars
  PROVE  IsFiniteSet(todo')
<1>1. \/ todo' = todo \/ todo' = Static \/ todo' = InTable
      \/ \E r : todo' = todo \ {r}
      \/ ScanAnswers \/ ScanFails
  BY DEF Next, StartStep, CallbackStep, DiscoveryStep, InitializeFleet, InitializeFails,
         StaticRobotsDone, InitializeDiscovery, SkipStaticRobot, AddStaticRobot, Tick,
         RobotsUpdated, UpdateRobot, NotDue, ScanThrows, TryRobot, NoPose,
         CreateCommandHandle, CannotPlace, RegisterRobot, RobotsTried, NextRobot,
         PeriodPasses, Merge, SetUpdateHandle, WorldChanges, vars, InTable
<1> QED BY <1>1, FiniteScan, FS_RemoveElement DEF FiniteInv

LEMMA FiniteTables ==
  ASSUME TypeOK, FiniteInv, [Next]_vars
  PROVE  IsFiniteSet(announced') /\ IsFiniteSet(found') /\ IsFiniteSet(InTable')
<1>1. /\ \/ announced' = announced
         \/ \E r : announced' = announced \ {r} \/ announced' = announced \union {r}
      /\ \/ found' = found \/ \E r : found' = found \union {r}
  BY DEF Next, StartStep, CallbackStep, DiscoveryStep, InitializeFleet, InitializeFails,
         StaticRobotsDone, InitializeDiscovery, SkipStaticRobot, AddStaticRobot, Tick,
         RobotsUpdated, UpdateRobot, NotDue, ScanAnswers, ScanFails, Scan, ScanThrows,
         TryRobot, NoPose, CreateCommandHandle, CannotPlace, RegisterRobot, RobotsTried,
         NextRobot, PeriodPasses, Merge, SetUpdateHandle, WorldChanges, Flip, vars,
         tables, world
<1>2. IsFiniteSet(announced') /\ IsFiniteSet(found')
  BY <1>1, FS_AddElement, FS_RemoveElement DEF FiniteInv
<1>3. ASSUME NEW r \in Robots, AddStaticRobot(r) PROVE IsFiniteSet(InTable')
  <2>1. main' = [main EXCEPT ![r] = "static"]
    BY <1>3 DEF AddStaticRobot
  <2>2. InTable' = InTable \union {r}
    BY <2>1 DEF TypeOK, InTable
  <2>3. IsFiniteSet(InTable \union {r})
    BY FS_AddElement DEF FiniteInv
  <2> QED BY <2>2, <2>3
<1>4. CASE Merge
  <2>1. InTable' = InTable \union found
    BY <1>4 DEF Merge, TypeOK, InTable
  <2>2. IsFiniteSet(InTable \union found)
    BY FS_Union DEF FiniteInv
  <2> QED BY <1>2, <2>1, <2>2
<1>5. CASE [Next]_vars /\ ~Merge /\ \A r \in Robots : ~AddStaticRobot(r)
  <2>1. main' = main
    BY <1>5
    DEF Next, StartStep, CallbackStep, DiscoveryStep, InitializeFleet, InitializeFails,
        StaticRobotsDone, InitializeDiscovery, SkipStaticRobot, Tick, RobotsUpdated,
        UpdateRobot, NotDue, ScanAnswers, ScanFails, Scan, ScanThrows, TryRobot, NoPose,
        CreateCommandHandle, CannotPlace, RegisterRobot, RobotsTried, PeriodPasses,
        SetUpdateHandle, WorldChanges, vars, tables
  <2>2. InTable' = InTable
    BY <2>1 DEF InTable
  <2> QED BY <1>2, <2>2 DEF FiniteInv
<1> QED BY <1>2, <1>3, <1>4, <1>5

LEMMA FiniteInvariance ==
  ASSUME IsFiniteSet(Static) PROVE Spec => [](IInv /\ FiniteInv)
<1>1. Init => FiniteInv
  <2> SUFFICES ASSUME Init PROVE FiniteInv OBVIOUS
  <2>1. todo = {} /\ announced = {} /\ found = {} /\ InTable = {}
    BY DEF Init, InTable
  <2> QED BY <2>1, FS_EmptySet DEF FiniteInv
<1>2. IInv /\ FiniteInv /\ [Next]_vars => FiniteInv'
  BY FiniteTodo, FiniteTables DEF IInv, FiniteInv
<1> QED BY <1>1, <1>2, Invariance, PTL DEF Spec

\* In a loop each visit takes a robot off the list.
LEMMA VisitShrinks ==
  ASSUME IsFiniteSet(todo), NEW r \in todo, todo' = todo \ {r}
  PROVE  /\ Cardinality(todo) \in Nat /\ Cardinality(todo') \in Nat
         /\ Cardinality(todo') = Cardinality(todo) - 1
  BY FS_CardinalityType, FS_RemoveElement

LEMMA StartStepShrinks ==
  ASSUME IInv, FiniteInv, StartStep
  PROVE  NearerToTheEnd
<1>1. ASSUME NEW r \in Robots, SkipStaticRobot(r) \/ AddStaticRobot(r)
      PROVE  NearerToTheEnd
  <2>1. pc = "static" /\ pc' = "static" /\ r \in todo /\ todo' = todo \ {r}
    BY <1>1 DEF SkipStaticRobot, AddStaticRobot
  <2>2. Cardinality(todo) \in Nat /\ Cardinality(todo') = Cardinality(todo) - 1
    BY <2>1, VisitShrinks DEF FiniteInv
  <2> QED BY <2>1, <2>2 DEF NearerToTheEnd, Phase, Steps
<1>2. CASE InitializeFleet \/ InitializeFails \/ StaticRobotsDone \/ InitializeDiscovery
  BY <1>2 DEF InitializeFleet, InitializeFails, StaticRobotsDone, InitializeDiscovery,
              NearerToTheEnd, Phase
<1> QED BY <1>1, <1>2 DEF StartStep

LEMMA CallbackStepShrinks ==
  ASSUME IInv, FiniteInv, CallbackStep
  PROVE  NearerToTheEnd
<1>1. ASSUME NEW r \in Robots, UpdateRobot(r) PROVE NearerToTheEnd
  <2>1. pc = "update" /\ pc' = "update" /\ r \in todo /\ todo' = todo \ {r}
    BY <1>1 DEF UpdateRobot
  <2>2. Cardinality(todo) \in Nat /\ Cardinality(todo') = Cardinality(todo) - 1
    BY <2>1, VisitShrinks DEF FiniteInv
  <2> QED BY <2>1, <2>2 DEF NearerToTheEnd, Phase, Steps
<1>2. CASE RobotsUpdated \/ NotDue \/ ScanThrows \/ RobotsTried \/ Merge
  BY <1>2 DEF RobotsUpdated, NotDue, ScanThrows, RobotsTried, Merge, NearerToTheEnd, Phase
<1>3. CASE ScanAnswers \/ ScanFails
  BY <1>3 DEF ScanAnswers, ScanFails, Scan, NearerToTheEnd, Phase
<1>4. CASE CreateCommandHandle \/ \E r \in Robots : TryRobot(r)
  <2>1. /\ todo' = todo
        /\ \/ pc = "pose" /\ pc' = "place"
           \/ pc = "add" /\ pc' = "pose"
    BY <1>4 DEF CreateCommandHandle, TryRobot
  <2>2. Cardinality(todo) \in Nat
    BY FS_CardinalityType DEF FiniteInv
  <2> QED BY <2>1, <2>2 DEF NearerToTheEnd, Phase, Steps
<1>5. CASE NoPose \/ CannotPlace \/ RegisterRobot
  <2>1. pc \in {"pose", "place"} /\ pc' = "add" /\ todo' = todo \ {cur}
    BY <1>5 DEF NoPose, CannotPlace, RegisterRobot, NextRobot
  <2>2. cur \in todo
    BY <2>1 DEF IInv, TriedAreNew
  <2>3. Cardinality(todo) \in Nat /\ Cardinality(todo') = Cardinality(todo) - 1
    BY <2>1, <2>2, VisitShrinks DEF FiniteInv
  <2> QED BY <2>1, <2>3 DEF NearerToTheEnd, Phase, Steps
<1> QED BY <1>1, <1>2, <1>3, <1>4, <1>5 DEF CallbackStep, DiscoveryStep

\* The start and every timer callback come to an end: each of their steps goes
\* to a later phase, or leaves fewer steps in its own, both natural numbers,
\* and neither an answer of RMF nor a change of the world sends them back.  In
\* every phase one of the steps is possible, as their guards name all cases
\* (update_loop, discover_robots, add_dynamic_robot).
THEOREM CallbackEnds ==
  ASSUME IsFiniteSet(Static)
  PROVE  Spec => [](Phase \in Nat /\ Steps \in Nat) /\ [][LoopShrinks]_vars
<1>1. IInv /\ FiniteInv => Phase \in Nat /\ Steps \in Nat
  <2> SUFFICES ASSUME IInv, FiniteInv PROVE Phase \in Nat /\ Steps \in Nat
    OBVIOUS
  <2>1. Cardinality(todo) \in Nat
    BY FS_CardinalityType DEF FiniteInv
  <2>2. Steps \in Nat
    BY <2>1 DEF Steps
  <2>3. Phase \in Nat
    BY DEF Phase, IInv, TypeOK
  <2> QED BY <2>2, <2>3
<1>2. [Next]_vars /\ ~(StartStep \/ CallbackStep \/ Tick) => Phase' = Phase /\ Steps' = Steps
  <2> SUFFICES ASSUME [Next]_vars, ~(StartStep \/ CallbackStep \/ Tick)
               PROVE  Phase' = Phase /\ Steps' = Steps
    OBVIOUS
  <2>1. pc' = pc /\ todo' = todo
    BY DEF Next, PeriodPasses, SetUpdateHandle, WorldChanges, vars
  <2> QED BY <2>1 DEF Phase, Steps
<1>3. IInv /\ FiniteInv /\ [Next]_vars => [LoopShrinks]_vars
  BY <1>2, StartStepShrinks, CallbackStepShrinks DEF LoopShrinks
<1> QED BY <1>1, <1>3, FiniteInvariance, PTL DEF Spec
=============================================================================
