# Formal models of the egb fleet adapter

TLA+ models of the C++ fleet adapter (`src/egb_fleet_adapter`), which connects
robots that speak Zenoh to Open-RMF, and of the Python process that starts and
stops fleet adapters (`src/egb_fleet_spawner`). TLC checks the models on small
instances; TLAPS proves the central invariants for every value of the
constants. Every definition is translated from the source; `PROJECT.json`
(`map`) names the lines each one stands for.

Run a model with `tlc -config X.cfg M`, a proof with `tlapm M.tla`.

## The system

| part | state it keeps | operations | interacts with |
|---|---|---|---|
| `PathHandle` (one per robot) | `session_`, `pending_failure_` | RMF's `follow_new_path`, `stop`, `dock`; per tick `drain_pending_feedback`, `take_pending_failure` | RMF, `NavigationController`, `RobotState` |
| `NavigationController` | a weak pointer to the session | `execute_path`, `cancel_navigation`, two Zenoh callbacks | the robot's FollowWaypoints server |
| `NavigationSession` | callbacks, goal id, buffered feedback, `done` | `invalidate` | shared by the two above, under its mutex |
| `RobotState` (one per robot) | current action and execution, deadlock timers, update handle, battery | `update`, `execute_action`, `update_current_action`, `check_deadlock_recovery` | RMF, plugins, TF |
| undock plugin | per action: state, start time, `nav_completed_` | `update_action`, which runs `find_closest_waypoint` and `generate_undock_path` | `NavigationController` through the action context, the navigation graph |
| `FleetAdapter` | robots, command handles, graph, timer | `initialize_fleet`, `initialize_robots`, the timer callback | RMF, `RestRobotDiscovery` |
| `RestRobotDiscovery` | its own robots and command handles, time of the last scan | `discover_robots`, `add_dynamic_robot` | REST server, TF, RMF |
| fleet spawner | `active_adapters`, one process manager each | start and stop services, status timer, signal handler, `cleanup` | adapter processes |

What is hard about it:

* One navigation session is reached from RMF's executor and from two Zenoh
  threads. Callbacks are copied under a mutex and called outside it, so that
  they run after whatever happened in between, a new path included.
* A reply to `send_goal` may miss its timeout although the robot accepted.
* Three timers pace the deadlock recovery (blocked, held, cooling down).
* An action is polled outside the mutex that guards it, and its navigation
  callback may come late, at once, never, or after the action is gone.
* Robots come from two sources with two tables; adding one may fail and is
  retried for ever, inside the timer callback that updates all the others.
* What a call reads from the graph (the lanes near by, the session's target
  index) was stored by an earlier call, for another position or another plan.
* The spawner's signal handler interrupts any step and never returns; adapters
  die at any moment or ignore SIGTERM.

What makes each part correct is the list of properties below; `PROJECT.json`
(`hazards`) ties each hazard to its line and to its properties.

## Modules

`Navigation`: `PathHandle`, `NavigationController`, `NavigationSession` of one
robot. Each mutex section, atomic access and call out of the code is an action;
`pc[t]` says where the threads `executor`, `feedback` and `status` are,
`held[t]` is a thread's `shared_ptr`, and `Promoted` is `session_wp_.lock()`.
Request, session and goal share a number. Waypoints, lanes, ETAs and poses are
abstracted; a failure reason is there or not. RMF (`RmfStep`) asks for a path,
an empty path, a dock with or without motion, or a stop; the robot accepts,
rejects, finishes, aborts or cancels a goal.

`PathRequest` is what `PathHandle` promises RMF, without sessions, threads or
callbacks: a request is sent at most once, then reported finished, answered
with a call for a replan, or withdrawn. It says exactly where the promise is
weak: a request given up without an answer may be reported twice, and a replan
due for an old request may hit a newer one. A path, empty or not, takes the place
of the request RMF waited for. `NavigationPromise` maps
`Navigation` onto it (`KeepsPromise`): the mapping is the identity but for
`ResultOf`, which forgets how a goal came to its end.

`RobotOnGraph` models what one robot's calls read from the navigation graph: the
tick (`NearbyLanes`, `Told`), `follow_new_path` (`Legs`), `dock` over the
graph, and the undock plugin's planning. It extends `UndockSearch`,
the plugin's breadth-first search with one action per turn of the loop: the two
are one state machine, since the plugin runs between the robot's ticks on the
same executor. A place is the set of waypoints a robot is on or between;
distances and angles only choose among lanes, and any choice they could make is
taken. `approach_yaw_for` is left out: it is a minimum of distances, which the
model has none of, and only gives a heading. The library's side is a separate section: places, `compute_plan_starts`,
and the plans RMF can compute. `NearestJunction` is the search's promise, a
shortest way to a junction less than `MaxDepth` lanes away, told without a
queue; `Promised == INSTANCE NearestJunction` makes it a property.

`DeadlockRecovery`: `check_deadlock_recovery`. `blocked_since_`, `hold_until_`
and `cooldown_until_` are distances from now that stop growing where no
comparison can tell them apart, so the clock needs no bound. Three history
variables record what the code does not.

`FleetAdapter`: start-up, registration of configured and discovered robots, the
timer callback. `main`, `found` and `kept` are the tables; `added` counts
`add_robot` calls by source. A pose that was seen once stays in TF.
Profiles and plan starts are reduced to whether the robot can be placed. An
exception while a robot is added ends it at the same exits as the modelled
failures.

`RobotActions`: `execute_action`, `update_current_action` and the undock
action's life cycle. `shared` chooses whether RMF's calls and the timer share
an executor: `navigation_session.hpp:29-32` says so, `robot_state.hpp:121-123`
speaks of two threads. A callback to a destroyed action writes through a
dangling `this`; the model lets it write nothing or the flag of the action now
stored, and remembers it in `stray`.

`FleetSpawner`: the services over whole batches, `start` and `stop` of a
manager step by step (`UnlinkFails`: the process is gone and `stop` answers False
all the same), the status timer, signals and `cleanup`. The operating
system is the function `process`; the config file is `config`. Log files and
reader threads are left out, except that a reader thread that cannot be
started makes `start` fail after the process runs (`dropped`).

`MC*` modules and their `.cfg` files instantiate these for TLC. `*Proofs`
modules hold the theorems. `RobotActions` and `DeadlockRecovery` are not composed
with `Navigation`: they see it through the one field or callback they use, and
leave that free.

## Runs

| run | bounds | shows |
|---|---|---|
| `nav_safety` | 2 requests, all liberties | `EstimatorFresh`, `CompletionTruthful`, `FinishedAtMostOnce`, `ReplansJustified`, `ActiveSessionCanEnd`, `KeepsPromise`, types |
| `nav_liveness` | 2 requests, RMF waits for each plan, replies in time | `WaitIsServed`, `PathResolves` |
| `spawner` | 2 fleets, 3 adapters, 2 signals, batches of 2 | one adapter per fleet, known, with a config; truthful answers; calls, signals and dead adapters are dealt with |
| `deadlock` | 10, 8 and 15 s, the code's own | `HoldIsInterruption`, `RecoveryPaced`, `HoldEnds`, `BlockedIsRecovered` |
| `fleet` | a configured and a discovered robot | `RegisteredHandleKept`, `RegisteredIsUpdated`, `OneSourceServed`, `JoinsFleet`, `LoopGoesOn` |
| `action` | 3 executions, 2 categories | `AnsweredAtMostOnce`, `AwaitedIsPolled`, `OwnAnswer`, `StoredIsAnswered` |
| `graph` | six graphs of up to six waypoints, depth 3, plans of up to 3 stops | `FindsNearestJunction`, `PathIsDrivable`, `NeverToldAhead`, `LegsWithinLimits`, `DockSeenIsFound`, `UndockStartsAtPlace`, types |

Every property is broken by a mutant of the code (`PROJECT.json`, `mutants`):
a dropped guard, a missing reset, a swapped order. The mutants are the
definitions marked so in the modules.

Five runs show where the code does not do what its own words say:

| run | what happens |
|---|---|
| `nav_clobber` | a completion or failure callback of the old path, already copied by the status thread, resets the session of the new path |
| `nav_undock` | `dock` starts an undock motion with no live session: it is reported finished and nothing is sent to the robot. The undock plugin calls the same `execute_path` the same way |
| `spawner_orphan` | a signal between `Popen` and the entry in `active_adapters` leaves the adapter running |
| `fleet_twice` | a configured robot that the REST server lists is registered with RMF twice, and RMF's second handle is never updated |
| `action_unanswered` | `go_to_place` is accepted by the fleet and executed by no plugin: RMF waits for ever |

One disagreement is an exception inside a property. The comment at
`path_handle.cpp:294-298` says that the session RMF replaces is invalidated before
anything else, as its estimator refers to a plan RMF has freed. An empty path
returns earlier (`path_handle.cpp:232-242`): the old session stays live, buffers
feedback, and the next ticks call the estimator of the replaced plan.
`EstimatorFresh` allows this case (`ReplacedByEmpty`: the last path asked for is the
estimator's and an empty one came after it) and no other; without the exception
TLC finds such a behaviour, of 19 states.

### Why the bounds are enough

The navigation hazards are about an old and a new request; a third only repeats
the pair, since `session_`, `session_wp_` and each thread hold one session. The
proofs have no bound on requests. Three adapters let a fleet be started,
stopped and started again while the other has one; two signals let the handler
interrupt itself. Two robots are one of each source, and one of both when the
configured one is announced. The graphs are a star, tails and rings: a junction
at the start, at every distance up to beyond the bound, two at equal and two at
different distances, on a loop, and against the lanes' direction. Depth 3
stands for the code's 5: it leaves a start, a level that is searched, one that
is searched last, and one that is dropped. Plans of three stops have a turn
before and after a lane, and a lane driven through. The proofs about the graph
have no bound on any of these. Three executions are one that is withdrawn, one
that overwrites it, and one after both. The deadlock run has no bound at all.

### Fairness

* Navigation: the threads run, the timer fires, statuses arrive and the robot
  ends its goals. Nothing is assumed of RMF or of feedback.
* Spawner: what is under way goes on, because every wait in it has a timeout
  (`SpawnerStep`); the timer gets its turn among the services (strong fairness,
  as `rclpy.spin` takes what is ready in turn). The timer runs on simulated time
  (`use_sim_time`, `egb_fleet_spawner.py:351-357`): `DeadAreForgotten` assumes that
  somebody publishes a clock and that it advances.
* Deadlock recovery: time passes and ticks come.
* Fleet adapter: steps of the callback go on (its waits have timeouts), the
  timer and RMF's answers get their turns, time passes, and the REST server
  does not fail for ever. That last one is a premise of `JoinsFleet`, not
  something the code provides.
* Graph: a search that was begun goes on, as it waits for nothing. Nothing is
  assumed of RMF or of the robot.
* Actions: RMF's call runs to its end, the timer fires, time passes. RMF need
  not withdraw anything and the navigation need not call back.

### Assumptions about RMF

It is not part of the repository. A plan's data is kept until a stop, a new
path (an empty one too) or the report that it is finished; a dock does not free
it, and RMF docks only when it waits for no plan. Calls of RMF
and the update tick are sequential. An execution is handed over only when RMF
waits for no other. `add_robot` answers on the executor, later. A plan begins
anywhere on the graph or off it and goes on by turns in place and lanes;
`compute_plan_starts` gives the waypoint a robot is on, or the lane and its
reverse; a lane carries the name of the dock at its exit.

## Proofs

All hold for every value of the constants, under the named `ASSUME`s of the
modules (bounds are naturals, durations positive, `"none"` names no robot). Four
have a hypothesis of their own. `WaitServed` and `WaitMovesOn` assume `~Preempt`
and `~LateReplies`, as the run `nav_liveness` does: RMF waits for its plans and
no reply misses its timeout; with these liberties RMF may stop waiting itself,
or be told the end of a path that goes on (`nav_safety`). `CallbackEnds` assumes
finitely many configured robots, `SearchEnds` finitely many waypoints: a YAML
list and a graph in memory.

* `NavigationProofs`: `TypeCorrect`; `CompletionIsTruthful`; `EstimatorIsFresh`.
  The types are inductive with `HoldsSession`: a thread in the middle of a
  section holds a session. The completion invariant says what the bare
  property does not: a stored completion callback belongs to the request whose
  goal id the session has, a callback in a thread's hands was taken for a goal
  that ended accordingly, and requests not made yet are untouched. The
  estimator invariant adds that feedback in a session, or on its way into one,
  is about that session's goal, and that the executor only holds the
  session of the plan that RMF keeps, or of the one that an empty path replaced.
* `NavigationPromiseProofs`: `FinishedOnce`, `ReplansAreJustified` and
  `PromiseKept`, the refinement of `PathRequest`. Reports are counted from the
  moment a thread takes the callback (`Told`): a callback is in one session at
  most, and only `execute_path`'s refusal takes a copy. Replans still to come
  are counted with those asked for (`Due`): the failure is taken together with
  the goal id, so that no goal accounts for two.
* `NavigationSessionProofs`: `ActiveSessionEnds`. A session is prepared where
  nobody else reaches it (`FreshUntouched`); from then on, while it is the one
  of the plan RMF waits for, it is whole, or a thread is ending it.
  `WaitServed`, with `ServedInv`: the only path with a callback left is the one
  RMF waits for, whoever takes one of its callbacks silences the session, and
  what became of the goal says which thread that is, so that two never run and
  none is missing. `WaitMovesOn` puts the rest of `PathResolves` into four turns
  (`Phase`: the executor brings the goal, the robot drives and the status thread
  learns of it, a callback runs, the tick takes the failure) and counts the
  steps left in each (`Left`).
* `RobotOnGraphProofs`: `SearchFindsNearest`, `UndockPathIsDrivable` and one
  theorem for each other safety property of the run. The search's invariant:
  paths in the queue follow lanes and pass only visited waypoints, each once,
  and what is to be queued is one lane past the path taken. That it finds a
  *nearest* junction needs levels (`BreadthFirst`): for some D the queue holds
  paths of D lanes and then of D + 1, what is nearer than D is done with, and
  what is D away is done with or in the queue. `LeastNatural` replaces
  induction: the largest level of an empty queue is the last one. The tick's
  invariant: the lanes stored near by are those of the position stored, and the
  target is no farther than the leg. `SearchEnds` counts the waypoints not
  visited and the paths still queued: at most two turns for each waypoint, on
  cyclic graphs too.
* `DeadlockRecoveryProofs`: `RecoveryTypes`, `HoldIsTracked`, `RecoveryIsPaced`. Each timer is
  related to its history: what is left of the hold and its age add up to
  `HoldFor`, and likewise for the cooldown. `HoldIsLimited`, `BlockedIsNoted`:
  no tick winds a timer back while it counts. `InterruptionsAreApart` adds that
  the last interruption is a hold before the last resume (`HoldBeforeResume`).
* `FleetAdapterProofs`: `AdapterTypes`, `HandleIsKept`, `RegisteredAreUpdated`. Needed besides
  them: the robots about to be tried are none of those found, what is found is
  exactly what is registered, and outside the discovery all of it is merged.
  `OncePerSource` and `TableIsKept` (`OneSourceServed`): the configuration registers
  a robot before the timer starts (`StaticOnce`), and what is served is in the table
  (`ServedByTable`). `CallbackEnds` orders the phases of a callback and counts
  the robots, tries and scans left in each; the sets it counts are finite
  (`FiniteInv`).
* `RobotActionsProofs`: `ActionTypes`, `AnsweredOnce`, `StoredIsPolled` and
  `AnswerIsOwn`. Needed besides them: what is stored is unanswered, the
  execution in hand is known to nobody, the answer about to be given is the
  state of the action polled, and on one executor that action is the one stored.
  `LateIsAnswered`: an action that is over its time has at most four turns of
  the timer left; it needs that stored actions were created and that those that
  ended were settled (`LInv`).
* `FleetSpawnerProofs`: `SpawnerTypes`, `ConfigIsKept`, `AnswersAreTruthful`,
  `RunningIsKnown`, `OneAdapter`. The adapter being started is the newest and
  not active yet, the one being stopped stays active until its process is gone,
  a config that cannot be removed ends a stop like any other failure,
  a signal ends everything but the cleanup, and at most one adapter runs that
  nobody knows, only after a signal. `WorkComesToAnEnd` counts the rounds of the
  loops and the steps of one round; a stop waits only for a process that was
  started, and `cleanup` stops an adapter it has still to visit (`WorkInv`).

Every invariant of the passing runs is proved. Of the liveness properties, what
a proof by ranking needs is proved but for the scheduling: a measure in the
naturals that the fair steps lower and no other step raises.

| liveness property | theorem with its measure |
|---|---|
| `PathResolves` | `WaitMovesOn` |
| `CallsReturn`, `SignalsEnd` | `WorkComesToAnEnd` |
| `LoopGoesOn` | `CallbackEnds` |
| `HoldEnds`, `BlockedIsRecovered` | `HoldIsLimited`, `BlockedIsNoted` |
| `StoredIsAnswered` | `LateIsAnswered` |
| `FindsNearestJunction` | `SearchFindsNearest`, `SearchEnds` |

Only model-checked is the rest of these properties, that the fair steps are
enabled and are taken, as the prover has neither ENABLED nor fairness; and
`JoinsFleet` and `DeadAreForgotten` altogether, which hang on timers that come
round again and have no such measure. The measures are defined in the proof
modules, and held in TLC on the instances of the runs before they were proved.

## Read in the code, not a property

* `stop` never tells the robot; it drives on until its next goal.
* When a `send_goal` reply is late, the path is reported finished although the
  robot may be driving it; if it later succeeds it is reported again
  (`FinishedAtMostOnce` allows exactly this).
* A failure of the old path that is stored at `path_handle.cpp:331` after the
  new path cleared it makes the next tick ask RMF to replan the newer path,
  although line 312 says that a new path supersedes it. `PathRequest` allows
  exactly this, and no more than one replan for each goal given up.
* The undock motion of `dock` goes from the dock to the dock: the approach lane
  is chosen because its entry is the dock.
* `approach_yaw_for` takes the arriving lane nearest to the robot, which
  `path_handle.hpp:99-101` calls the lane it arrives on. A robot on the waypoint is
  equally near to every lane that ends there and gets the heading of the first
  (`d < nearest`), whichever it came in on. Before the first tick
  `current_position_` has no value; the overload of `update_position` that
  would put the robot at (0, 0) has no caller.
* `find_closest_waypoint` takes waypoint 0 for no waypoint in `if (wp)`, and the
  error then says that none was found near the robot. The class comment
  (`undock_action.cpp:17-19`) says that the search looks for a dead end; the code,
  and the comments at 148-163, look for a junction, and so does
  `NearestJunction`. The search warns that no
  junction is within `MAX_DEPTH` hops, having looked at fewer than `MAX_DEPTH`.
* Transforms are looked up by the robot's map in one direction and taken from
  `begin()` in the other. Without one for its map the tick returns early, so
  that feedback and replans of that robot are never handled.
* `FleetAdapter::shutdown` has no caller, and would race with the timer.
* `blocked_since_` is not tied to a session: two paths blocked one after the
  other count as one block.
* A batch of starts that raises gets a response shorter than the request; the
  config file of an adapter that died stays behind; SIGKILL on the spawner
  orphans every adapter.
* The discovery stalls all position updates: up to 5 s for the REST server and
  about 6 s per robot without TF, on every scan.
* Poses of robots that went offline are served for ever, and robots are never
  removed. Plan starts of configured robots use the untransformed pose
  (`fleet_adapter.cpp:501`). `robot_discovery.cpp:198` shares one YAML node
  between all discovered robots.
* With two threads, the answer for an action can go to a newer execution
  (`Settle` after `StoreAction`); `OwnAnswer` is about one executor.
* The undock action's `this` is captured by a callback that outlives it.
  `CANCELING`, `CANCELED` and `cancel_task_of_action` are never used.

## Not modelled, and why

Coordinate transforms (a least-squares fit in floating-point numbers, and TLA+
has none), TF and battery deserialisation (only whether a pose is there
matters, which `FleetAdapter` has), the interface factory and accessors,
`FleetAdapter::shutdown` (nothing calls it), `cancel_task_of_action` (a stub),
`fleet_service_bridge`, `launch_all.py` and launch files (stateless glue or
process start-up), messages and build files. `PROJECT.json` (`components`)
lists them one by one.

## Plan

Done, in this order: navigation, spawner, deadlock recovery, fleet adapter,
actions, the search and the calls that read the graph; the promises to RMF and
of the search; the proofs.

Left: a composition of `RobotActions` with the sessions of `Navigation`, to tell
the undock action's end in terms of the robot's goal (`nav_undock` already
shows what it finds), and which transform is used for which map.
