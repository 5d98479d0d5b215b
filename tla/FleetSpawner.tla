---------------------------- MODULE FleetSpawner ----------------------------
(***************************************************************************)
(* The fleet spawner: one Python process that starts one fleet adapter     *)
(* process per fleet, stops them on request, forgets the dead ones on a    *)
(* timer, and stops all of them when it is sent SIGINT or SIGTERM.         *)
(*                                                                         *)
(* Services and timer run one after the other (rclpy.spin), but a signal   *)
(* handler runs between any two steps of whatever is under way, and the    *)
(* adapters die whenever they like.  The handler never returns: it cleans  *)
(* up and exits, so what it interrupted is abandoned where it was.         *)
(*                                                                         *)
(* An adapter is a FleetAdapterProcessManager with its process and its     *)
(* temporary config file.                                                  *)
(***************************************************************************)
EXTENDS Naturals, FiniteSets, Sequences

CONSTANTS
  Fleets,        \* the fleet names that requests use
  MaxAdapters,   \* bound: how many adapters are created
  MaxSignals,    \* bound: how many signals the spawner receives
  BatchSize      \* bound: how many fleets one request names

ASSUME BoundsAssumption ==
  MaxAdapters \in Nat /\ MaxSignals \in Nat /\ BatchSize \in Nat

VARIABLES
  active,    \* active_adapters: the adapter of each fleet, or None
  made,      \* adapters created so far
  fleet,     \* manager.fleet_name
  process,   \* the operating system's view of manager.process
  config,    \* the adapter's config file exists
  dropped,   \* adapters whose start raised when their process was running
  pc,        \* where the spawner's main thread is
  call,      \* what it is doing, for whom, and the answers so far
  mgr,       \* the adapter in hand, or None
  todo,      \* fleets that publish_status or cleanup has still to visit
  dead,      \* publish_status: dead_adapters
  signals    \* signals received

adapters == <<fleet, process, config, dropped>>
vars == <<active, made, adapters, pc, call, mgr, todo, dead, signals>>

None == 0
Adapters == 1..MaxAdapters
Batches == UNION {[1..n -> Fleets] : n \in 1..BatchSize}

\* ending and killed: sent SIGTERM, or SIGKILL, and not gone yet.
ProcessState == {"none", "running", "ending", "killed", "zombie", "reaped"}
Alive == {"running", "ending", "killed"}

NoCall == [kind |-> "none", asked |-> <<>>, answers |-> <<>>]

Starting == {"spawn", "check", "register"}
Stopping == {"term", "wait", "waitKilled", "unlink", "stopped", "failed"}
Locations ==
  {"idle", "next", "respond", "sweep", "forget", "cleanup", "down"} \union Starting \union Stopping

TypeOK ==
  /\ active \in [Fleets -> 0..MaxAdapters]
  /\ made \in 0..MaxAdapters
  /\ fleet \in [Adapters -> {"none"} \union Fleets]
  /\ process \in [Adapters -> ProcessState]
  /\ config \in [Adapters -> BOOLEAN]
  /\ dropped \subseteq Adapters
  /\ pc \in Locations
  /\ call.kind \in {"none", "start", "stop", "status", "cleanup"}
  /\ call.asked \in Batches \union {<<>>}
  /\ Len(call.answers) <= Len(call.asked)
  /\ mgr \in 0..MaxAdapters
  /\ todo \subseteq Fleets /\ dead \subseteq Fleets
  /\ signals \in 0..MaxSignals

Init ==
  /\ active = [f \in Fleets |-> None]
  /\ made = 0
  /\ fleet = [m \in Adapters |-> "none"]
  /\ process = [m \in Adapters |-> "none"]
  /\ config = [m \in Adapters |-> FALSE]
  /\ dropped = {}
  /\ pc = "idle" /\ call = NoCall /\ mgr = None
  /\ todo = {} /\ dead = {}
  /\ signals = 0

ActiveFleets == {f \in Fleets : active[f] # None}

\* The fleet that the loop over the request has reached.
Current == call.asked[Len(call.answers) + 1]

Answered == Len(call.answers) = Len(call.asked)

Responding == pc = "respond" \/ (pc = "next" /\ Answered)

AtNext(kind) == pc = "next" /\ call.kind = kind /\ ~Answered

\* Append an answer for the current fleet and go on with the next one.
Answer(b) ==
  /\ call' = [call EXCEPT !.answers = Append(@, b)]
  /\ pc' = "next"
  /\ mgr' = None

(***************************************************************************)
(* Service calls and the status timer.                                     *)
(***************************************************************************)
Receive(kind) ==
  /\ pc = "idle"
  /\ \E b \in Batches :
       call' = [kind |-> kind, asked |-> b, answers |-> <<>>]
  /\ pc' = "next"
  /\ UNCHANGED <<active, made, adapters, mgr, todo, dead, signals>>

\* The response is sent.
Respond ==
  /\ Responding
  /\ pc' = "idle" /\ call' = NoCall
  /\ UNCHANGED <<active, made, adapters, mgr, todo, dead, signals>>

(***************************************************************************)
(* start_fleet_adapters_callback and FleetAdapterProcessManager.start.     *)
(***************************************************************************)
AlreadyRunning ==
  /\ AtNext("start")
  /\ active[Current] # None
  /\ Answer(FALSE)
  /\ UNCHANGED <<active, made, adapters, todo, dead, signals>>

\* The constructor writes the config file.
CreateManager ==
  /\ AtNext("start")
  /\ active[Current] = None
  /\ made < MaxAdapters
  /\ made' = made + 1
  /\ fleet' = [fleet EXCEPT ![made + 1] = Current]
  /\ config' = [config EXCEPT ![made + 1] = TRUE]
  /\ mgr' = made + 1
  /\ pc' = "spawn"
  /\ UNCHANGED <<active, process, dropped, call, todo, dead, signals>>

AllFalse == [i \in DOMAIN call.asked |-> FALSE]

\* Mutant: the fleets not answered yet are not told from those that are.
CreateFailsForAll ==
  /\ AtNext("start")
  /\ active[Current] = None
  /\ call' = [call EXCEPT !.answers = @ \o AllFalse]
  /\ pc' = "respond"
  /\ UNCHANGED <<active, made, adapters, mgr, todo, dead, signals>>

\* The constructor raises.  The answers of the fleets before it are sent and
\* the others get none, unless none was answered: then all answers are False.
CreateFails ==
  /\ AtNext("start")
  /\ active[Current] = None
  /\ call' = [call EXCEPT !.answers = IF @ = <<>> THEN AllFalse ELSE @]
  /\ pc' = "respond"
  /\ UNCHANGED <<active, made, adapters, mgr, todo, dead, signals>>

Spawn ==
  /\ pc = "spawn"
  /\ process' = [process EXCEPT ![mgr] = "running"]
  /\ pc' = "check"
  /\ UNCHANGED <<active, made, fleet, config, dropped, call, mgr, todo, dead, signals>>

\* Popen raises.
SpawnFails ==
  /\ pc = "spawn"
  /\ Answer(FALSE)
  /\ UNCHANGED <<active, made, adapters, todo, dead, signals>>

\* Popen succeeds and a reader thread cannot be started: the same answer, and
\* nothing stops the process.
SpawnHalfFails ==
  /\ pc = "spawn"
  /\ process' = [process EXCEPT ![mgr] = "running"]
  /\ dropped' = dropped \union {mgr}
  /\ Answer(FALSE)
  /\ UNCHANGED <<active, made, fleet, config, todo, dead, signals>>

\* process.poll() reaps an adapter that has died.
Poll(m) ==
  process' = [process EXCEPT ![m] = IF @ = "zombie" THEN "reaped" ELSE @]

CheckAlive ==
  /\ pc = "check"
  /\ Poll(mgr)
  /\ IF process[mgr] = "zombie"
       THEN Answer(FALSE)
       ELSE pc' = "register" /\ UNCHANGED <<call, mgr>>
  /\ UNCHANGED <<active, made, fleet, config, dropped, todo, dead, signals>>

Register ==
  /\ pc = "register"
  /\ active' = [active EXCEPT ![Current] = mgr]
  /\ Answer(TRUE)
  /\ UNCHANGED <<made, adapters, todo, dead, signals>>

(***************************************************************************)
(* stop_fleet_adapters_callback.                                           *)
(***************************************************************************)
NotFound ==
  /\ AtNext("stop")
  /\ active[Current] = None
  /\ Answer(FALSE)
  /\ UNCHANGED <<active, made, adapters, todo, dead, signals>>

StopManager ==
  /\ AtNext("stop")
  /\ active[Current] # None
  /\ mgr' = active[Current]
  /\ pc' = "term"
  /\ UNCHANGED <<active, made, adapters, call, todo, dead, signals>>

(***************************************************************************)
(* FleetAdapterProcessManager.stop, called by the service and by cleanup.  *)
(***************************************************************************)
\* Mutant: the config file is removed before the process is gone.
TerminateAndUnlink ==
  /\ pc = "term"
  /\ pc' = IF process[mgr] = "reaped" THEN "failed" ELSE "wait"
  /\ process' = [process EXCEPT ![mgr] = IF @ = "running" THEN "ending" ELSE @]
  /\ config' = [config EXCEPT ![mgr] = FALSE]
  /\ UNCHANGED <<active, made, fleet, dropped, call, mgr, todo, dead, signals>>

\* getpgid raises for a process that was reaped.
Terminate ==
  /\ pc = "term"
  /\ pc' = IF process[mgr] = "reaped" THEN "failed" ELSE "wait"
  /\ process' = [process EXCEPT ![mgr] = IF @ = "running" THEN "ending" ELSE @]
  /\ UNCHANGED <<active, made, fleet, config, dropped, call, mgr, todo, dead, signals>>

WaitEnds ==
  /\ pc \in {"wait", "waitKilled"}
  /\ process[mgr] = "zombie"
  /\ Poll(mgr)
  /\ pc' = "unlink"
  /\ UNCHANGED <<active, made, fleet, config, dropped, call, mgr, todo, dead, signals>>

\* Mutant: after 10 s the adapter is taken for stopped.
WaitGivesUp ==
  /\ pc = "wait"
  /\ process[mgr] \in Alive
  /\ pc' = "unlink"
  /\ UNCHANGED <<active, made, adapters, call, mgr, todo, dead, signals>>

\* 10 s are over: SIGKILL.
WaitTimesOut ==
  /\ pc = "wait"
  /\ process[mgr] \in Alive
  /\ process' = [process EXCEPT ![mgr] = "killed"]
  /\ pc' = "waitKilled"
  /\ UNCHANGED <<active, made, fleet, config, dropped, call, mgr, todo, dead, signals>>

\* Mutant: SIGKILL is sent again and again.
KillAgain ==
  /\ pc = "waitKilled"
  /\ process[mgr] \in Alive
  /\ UNCHANGED vars

\* 5 more seconds are over: the exception makes stop return False.
KillTimesOut ==
  /\ pc = "waitKilled"
  /\ process[mgr] \in Alive
  /\ pc' = "failed"
  /\ UNCHANGED <<active, made, adapters, call, mgr, todo, dead, signals>>

UnlinkConfig ==
  /\ pc = "unlink"
  /\ config' = [config EXCEPT ![mgr] = FALSE]
  /\ pc' = "stopped"
  /\ UNCHANGED <<active, made, fleet, process, dropped, call, mgr, todo, dead, signals>>

\* exists or unlink raises: stop returns False although the process is gone.
UnlinkFails ==
  /\ pc = "unlink"
  /\ pc' = "failed"
  /\ UNCHANGED <<active, made, adapters, call, mgr, todo, dead, signals>>

Forget(f) == active' = [active EXCEPT ![f] = None]

\* Mutant: the entry of a stopped adapter is kept.
ServiceKeepsEntry ==
  /\ call.kind = "stop"
  /\ \/ pc = "stopped" /\ Answer(TRUE)
     \/ pc = "failed" /\ Answer(FALSE)
  /\ UNCHANGED <<active, made, adapters, todo, dead, signals>>

\* stop returned: the service deletes the entry if it returned True, cleanup
\* in any case.
ServiceStopped ==
  /\ call.kind = "stop"
  /\ \/ pc = "stopped" /\ Answer(TRUE) /\ Forget(Current)
     \/ pc = "failed" /\ Answer(FALSE) /\ UNCHANGED active
  /\ UNCHANGED <<made, adapters, todo, dead, signals>>

\* Mutant: cleanup goes on trying to stop an adapter.
CleanupRetries ==
  /\ call.kind = "cleanup"
  /\ pc \in {"stopped", "failed"}
  /\ IF pc = "failed" THEN UNCHANGED <<active, todo>>
     ELSE Forget(fleet[mgr]) /\ todo' = todo \ {fleet[mgr]}
  /\ pc' = "cleanup" /\ mgr' = None
  /\ UNCHANGED <<made, adapters, call, dead, signals>>

CleanupStopped ==
  /\ call.kind = "cleanup"
  /\ pc \in {"stopped", "failed"}
  /\ Forget(fleet[mgr])
  /\ todo' = todo \ {fleet[mgr]}
  /\ pc' = "cleanup" /\ mgr' = None
  /\ UNCHANGED <<made, adapters, call, dead, signals>>

(***************************************************************************)
(* publish_status, on a timer of 1 s.  The order in which a dictionary is  *)
(* walked is left open here and in cleanup.                                *)
(***************************************************************************)
Tick ==
  /\ pc = "idle"
  /\ call' = [NoCall EXCEPT !.kind = "status"]
  /\ todo' = ActiveFleets /\ dead' = {}
  /\ pc' = "sweep"
  /\ UNCHANGED <<active, made, adapters, mgr, signals>>

SweepOne(f) ==
  /\ pc = "sweep" /\ f \in todo
  /\ Poll(active[f])
  /\ dead' = IF process[active[f]] \in {"zombie", "reaped"} THEN dead \union {f} ELSE dead
  /\ todo' = todo \ {f}
  /\ UNCHANGED <<active, made, fleet, config, dropped, pc, call, mgr, signals>>

SweepDone ==
  /\ pc = "sweep" /\ todo = {}
  /\ pc' = "forget"
  /\ UNCHANGED <<active, made, adapters, call, mgr, todo, dead, signals>>

ForgetDead(f) ==
  /\ pc = "forget" /\ f \in dead
  /\ Forget(f)
  /\ dead' = dead \ {f}
  /\ UNCHANGED <<made, adapters, pc, call, mgr, todo, signals>>

\* Mutant: dead adapters are published as dead and kept.
PublishOnly ==
  /\ pc = "forget"
  /\ pc' = "idle" /\ call' = NoCall
  /\ UNCHANGED <<active, made, adapters, mgr, todo, dead, signals>>

Publish ==
  /\ pc = "forget" /\ dead = {}
  /\ pc' = "idle" /\ call' = NoCall
  /\ UNCHANGED <<active, made, adapters, mgr, todo, dead, signals>>

(***************************************************************************)
(* signal_handler and cleanup.  sys.exit unwinds main, whose own cleanup   *)
(* finds nothing left to stop.  A second signal starts over.               *)
(***************************************************************************)
Signal ==
  /\ pc # "down"
  /\ signals < MaxSignals
  /\ signals' = signals + 1
  /\ call' = [NoCall EXCEPT !.kind = "cleanup"]
  /\ todo' = ActiveFleets /\ dead' = {}
  /\ pc' = "cleanup" /\ mgr' = None
  /\ UNCHANGED <<active, made, adapters>>

\* Mutant: the entry is popped before its adapter is stopped.
CleanupPops(f) ==
  /\ pc = "cleanup" /\ f \in todo
  /\ mgr' = active[f]
  /\ Forget(f)
  /\ pc' = "term"
  /\ UNCHANGED <<made, adapters, call, todo, dead, signals>>

CleanupOne(f) ==
  /\ pc = "cleanup" /\ f \in todo
  /\ mgr' = active[f]
  /\ pc' = "term"
  /\ UNCHANGED <<active, made, adapters, call, todo, dead, signals>>

Exit ==
  /\ pc = "cleanup" /\ todo = {}
  /\ pc' = "down" /\ call' = NoCall
  /\ UNCHANGED <<active, made, adapters, mgr, todo, dead, signals>>

(***************************************************************************)
(* An adapter process ends: by itself, or because of a signal it was sent. *)
(***************************************************************************)
AdapterEnds(m) ==
  /\ process[m] \in Alive
  /\ process' = [process EXCEPT ![m] = "zombie"]
  /\ UNCHANGED <<active, made, fleet, config, dropped, pc, call, mgr, todo, dead, signals>>

-----------------------------------------------------------------------------
StartStep ==
  \/ AlreadyRunning \/ CreateManager \/ CreateFails \/ Spawn \/ SpawnFails
  \/ SpawnHalfFails \/ CheckAlive \/ Register

StopStep ==
  \/ NotFound \/ StopManager \/ Terminate \/ WaitEnds \/ WaitTimesOut
  \/ KillTimesOut \/ UnlinkConfig \/ UnlinkFails \/ ServiceStopped \/ CleanupStopped

StatusStep ==
  \/ SweepDone \/ Publish
  \/ \E f \in Fleets : SweepOne(f) \/ ForgetDead(f)

CleanupStep == Exit \/ \E f \in Fleets : CleanupOne(f)

SpawnerStep == Respond \/ StartStep \/ StopStep \/ StatusStep \/ CleanupStep

Next ==
  \/ SpawnerStep \/ Tick \/ Signal
  \/ Receive("start") \/ Receive("stop")
  \/ \E m \in Adapters : AdapterEnds(m)

Spec == Init /\ [][Next]_vars

\* What is under way goes on, since every wait in it has a timeout; and the
\* executor comes to its timer however many service calls there are.
FairSpec == Spec /\ WF_vars(SpawnerStep) /\ SF_vars(Tick)
-----------------------------------------------------------------------------
(***************************************************************************)
(* Properties.                                                             *)
(***************************************************************************)
\* An adapter that start dropped when its process ran already stays behind: no
\* part of the spawner knows it.  The properties are about all the others.
Running(m) == process[m] \in {"running", "ending"} /\ m \notin dropped

\* A fleet never has two adapters that drive its robots, whatever requests are
\* repeated and whatever dies or does not stop (active_adapters).
OneAdapterPerFleet ==
  \A f \in Fleets :
    Cardinality({m \in Adapters : fleet[m] = f /\ Running(m)}) <= 1

\* The spawner knows every adapter that runs: as active, or as the one it is
\* starting.  After a signal at most one has escaped it, the one that was being
\* started when the signal came (start, signal_handler, cleanup).
Known(m) == active[fleet[m]] = m \/ (pc \in Starting /\ mgr = m)
RunningAreKnown ==
  LET strays == {m \in Adapters : Running(m) /\ ~Known(m)}
  IN  Cardinality(strays) <= (IF signals = 0 THEN 0 ELSE 1)

\* A running adapter has its config file: stop removes it only once the process
\* is gone, also when it is interrupted and repeated (stop, cleanup).
RunningHasConfig == \A m \in Adapters : Running(m) => config[m]

\* An answer True means what it says when the response is sent: a fleet that
\* was stopped has no process and no entry left, and nothing of what a start
\* reported started has been forgotten (the service callbacks).
AnswersTruthful ==
  Responding =>
    \A i \in DOMAIN call.answers : call.answers[i] =>
      LET f == call.asked[i] IN
      CASE call.kind = "start" -> active[f] # None
        [] call.kind = "stop" ->
             active[f] = None /\ \A m \in Adapters : fleet[m] = f => ~Running(m)

\* An adapter that died is forgotten, so that its fleet can be started again;
\* or the spawner exits (publish_status).
DeadAreForgotten ==
  \A f \in Fleets, m \in Adapters :
    (active[f] = m /\ process[m] \in {"zombie", "reaped"})
      ~> (active[f] # m \/ pc = "down")

\* Every call is answered and every signal ends the spawner: no adapter that
\* refuses to stop can hold it up (stop, signal_handler).
CallsReturn == (pc # "idle") ~> (pc \in {"idle", "down"})
SignalsEnd == (signals > 0) ~> (pc = "down")

-----------------------------------------------------------------------------
\* What the code's own words say, and a run refutes: "Cleanup all Fleet
\* Adapters" (egb_fleet_spawner.py:550): when the spawner is down, no adapter
\* goes on running.
CleanupStopsAll == pc = "down" => \A m \in Adapters : ~Running(m)
=============================================================================
