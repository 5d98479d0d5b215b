---------------------------- MODULE RobotActions ----------------------------
(***************************************************************************)
(* The actions of one robot: RMF hands over an ActionExecution,            *)
(* RobotState::execute_action creates an action for it through a plugin    *)
(* and stores both, the timer polls the action in update_current_action    *)
(* and answers the execution.  The only plugin of the repository is the    *)
(* undock plugin: its action asks the navigation for a motion with a       *)
(* callback, and gives up after a timeout.                                 *)
(*                                                                         *)
(* Three threads touch this: RMF's, the timer's and the one on which the   *)
(* navigation calls back.  Whether the first two are one executor          *)
(* (navigation_session.hpp) or two threads (robot_state.hpp) is chosen     *)
(* once, by shared.                                                        *)
(***************************************************************************)
EXTENDS Naturals

CONSTANTS
  MaxExecutions,   \* bound: how many executions RMF hands over
  Categories,      \* the action categories that the fleet accepts
  Claimed          \* those that a plugin of the configuration claims

ASSUME ActionsAssumption ==
  MaxExecutions \in Nat \ {0} /\ Claimed \subseteq Categories

VARIABLES
  shared,      \* execute_action and the timer callback exclude each other
  wanted,      \* the execution that RMF waits for, or 0
  handed,      \* how many executions RMF has handed over
  category,    \* the category of the newest execution
  rmf,         \* where execute_action is
  timer,       \* where update_current_action is
  polled,      \* its local copy of the action, or 0
  result,      \* what the action told it
  loaded,      \* the plugin is in loaded_factories_
  current,     \* current_action_ and current_action_execution_, or 0
  state,       \* UndockAction::state_
  arrived,     \* the actions whose nav_completed_ is set
  expired,     \* the actions older than their timeout
  callback,    \* the action whose callback the navigation holds, or 0
  stray,       \* a callback was called after its action was destroyed
  answers      \* how often each execution was told finished or error

threads == <<rmf, timer, polled, result>>
request == <<wanted, handed, category>>
action == <<state, arrived, expired, callback, stray>>
vars == <<shared, request, threads, loaded, current, action, answers>>

Executions == 1..MaxExecutions
None == [action |-> 0, execution |-> 0]

TypeOK ==
  /\ shared \in BOOLEAN /\ loaded \in BOOLEAN /\ stray \in BOOLEAN
  /\ handed \in 0..MaxExecutions /\ wanted \in {0, handed}
  /\ category \in Categories
  /\ rmf \in {"idle", "execute", "store"}
  /\ timer \in {"idle", "update", "settle"}
  /\ polled \in 0..handed /\ (polled # 0 <=> timer # "idle")
  /\ result \in {"in_progress", "completed", "failed"}
  /\ current \in [action : 0..handed, execution : 0..handed]
  /\ current.action = current.execution
  /\ state \in [Executions -> {"none", "planning", "navigating", "completed", "failed"}]
  /\ arrived \subseteq Executions /\ expired \subseteq Executions
  /\ callback \in 0..handed
  /\ answers \in [Executions -> [finished : Nat, error : Nat]]

Init ==
  /\ shared \in BOOLEAN
  /\ wanted = 0 /\ handed = 0 /\ category \in Categories
  /\ rmf = "idle" /\ timer = "idle" /\ polled = 0 /\ result = "in_progress"
  /\ loaded = FALSE
  /\ current = None
  /\ state = [e \in Executions |-> "none"]
  /\ arrived = {} /\ expired = {}
  /\ callback = 0 /\ stray = FALSE
  /\ answers = [e \in Executions |-> [finished |-> 0, error |-> 0]]

(***************************************************************************)
(* RMF.                                                                    *)
(***************************************************************************)
HandOver(c) ==
  /\ rmf = "idle" /\ (shared => timer = "idle")
  /\ wanted = 0 /\ handed < MaxExecutions
  /\ handed' = handed + 1 /\ wanted' = handed + 1
  /\ category' = c
  /\ rmf' = "execute"
  /\ UNCHANGED <<shared, timer, polled, result, loaded, current, action, answers>>

\* The task is canceled: RMF expects no answer any more.
Withdraw ==
  /\ rmf = "idle" /\ wanted # 0
  /\ wanted' = 0
  /\ UNCHANGED <<shared, handed, category, threads, loaded, current, action, answers>>

(***************************************************************************)
(* execute_action of the execution handed.                                 *)
(***************************************************************************)
\* Mutant: the execution is stored before the plugin is looked up.
NoPluginStored ==
  /\ rmf = "execute" /\ category \notin Claimed
  /\ rmf' = "idle"
  /\ current' = [current EXCEPT !.execution = handed]
  /\ UNCHANGED <<shared, request, timer, polled, result, loaded, action, answers>>

NoPlugin ==
  /\ rmf = "execute" /\ category \notin Claimed
  /\ rmf' = "idle"
  /\ UNCHANGED <<shared, request, timer, polled, result, loaded, current, action, answers>>

\* No plugin library, or it raises.  A plugin that was loaded stays loaded.
LoadFails ==
  /\ rmf = "execute" /\ category \in Claimed /\ ~loaded
  /\ rmf' = "idle"
  /\ UNCHANGED <<shared, request, timer, polled, result, loaded, current, action, answers>>

PerformAction ==
  /\ rmf = "execute" /\ category \in Claimed
  /\ loaded' = TRUE
  /\ state' = [state EXCEPT ![handed] = "planning"]
  /\ rmf' = "store"
  /\ UNCHANGED <<shared, request, timer, polled, result, current,
                 arrived, expired, callback, stray, answers>>

\* Under the mutex.  An action that was still stored is destroyed.
StoreAction ==
  /\ rmf = "store"
  /\ current' = [action |-> handed, execution |-> handed]
  /\ rmf' = "idle"
  /\ UNCHANGED <<shared, request, timer, polled, result, loaded, action, answers>>

(***************************************************************************)
(* update_current_action: the snapshot, the action's own update without    *)
(* the mutex, and the answer.                                              *)
(***************************************************************************)
Snapshot ==
  /\ timer = "idle" /\ (shared => rmf = "idle")
  /\ current.action # 0
  /\ polled' = current.action
  /\ timer' = "update"
  /\ UNCHANGED <<shared, request, rmf, result, loaded, current, action, answers>>

InProgress ==
  /\ timer' = "idle" /\ polled' = 0 /\ result' = "in_progress"

Report(outcome) ==
  /\ timer' = "settle" /\ polled' = polled /\ result' = outcome
  /\ state' = [state EXCEPT ![polled] = outcome]

\* The timeout, no pose, no waypoint near, or no junction to drive to.
PlanningFails ==
  /\ timer = "update" /\ state[polled] = "planning"
  /\ Report("failed")
  /\ UNCHANGED <<shared, request, rmf, loaded, current,
                 arrived, expired, callback, stray, answers>>

\* The navigation refuses the motion or has no session for it, and calls back
\* before it returns; or it keeps the callback, in place of the one it held.
StartNavigation ==
  /\ timer = "update" /\ state[polled] = "planning" /\ polled \notin expired
  /\ state' = [state EXCEPT ![polled] = "navigating"]
  /\ \/ arrived' = arrived \union {polled} /\ callback' \in {0, polled}
     \/ arrived' = arrived /\ callback' = polled
  /\ InProgress
  /\ UNCHANGED <<shared, request, rmf, loaded, current, expired, stray, answers>>

\* Mutant: a timeout counts as the end of the motion.
CompletedOrExpired ==
  /\ timer = "update"
  /\ \/ state[polled] = "completed"
     \/ state[polled] = "navigating" /\ polled \in arrived \union expired
  /\ Report("completed")
  /\ UNCHANGED <<shared, request, rmf, loaded, current,
                 arrived, expired, callback, stray, answers>>

Completed ==
  /\ timer = "update"
  /\ \/ state[polled] = "completed"
     \/ state[polled] = "navigating" /\ polled \in arrived
  /\ Report("completed")
  /\ UNCHANGED <<shared, request, rmf, loaded, current,
                 arrived, expired, callback, stray, answers>>

\* Mutant: only the planning has a timeout.
FailedOnly ==
  /\ timer = "update" /\ state[polled] = "failed"
  /\ Report("failed")
  /\ UNCHANGED <<shared, request, rmf, loaded, current,
                 arrived, expired, callback, stray, answers>>

\* nav_completed_ is looked at before the clock.
Failed ==
  /\ timer = "update"
  /\ \/ state[polled] = "failed"
     \/ state[polled] = "navigating" /\ polled \in expired \ arrived
  /\ Report("failed")
  /\ UNCHANGED <<shared, request, rmf, loaded, current,
                 arrived, expired, callback, stray, answers>>

Navigating ==
  /\ timer = "update" /\ state[polled] = "navigating"
  /\ polled \notin arrived \union expired
  /\ InProgress
  /\ UNCHANGED <<shared, request, rmf, loaded, current, action, answers>>

Answer(e) ==
  /\ answers' = IF result = "completed"
                THEN [answers EXCEPT ![e].finished = @ + 1]
                ELSE [answers EXCEPT ![e].error = @ + 1]
  /\ wanted' = IF wanted = e THEN 0 ELSE wanted

\* Mutant: the action is dropped without a word to RMF when it failed.
SettleSilently ==
  /\ timer = "settle"
  /\ IF current.execution = 0 \/ result = "failed"
     THEN UNCHANGED <<wanted, answers>>
     ELSE Answer(current.execution)
  /\ current' = None
  /\ timer' = "idle" /\ polled' = 0
  /\ UNCHANGED <<shared, handed, category, rmf, result, loaded, action>>

\* Mutant: what was answered stays stored.
SettleAndKeep ==
  /\ timer = "settle"
  /\ IF current.execution = 0
     THEN UNCHANGED <<wanted, answers>>
     ELSE Answer(current.execution)
  /\ timer' = "idle" /\ polled' = 0
  /\ UNCHANGED <<shared, handed, category, rmf, result, loaded, current, action>>

\* Under the mutex: whatever is stored by now is answered and cleared.
Settle ==
  /\ timer = "settle"
  /\ IF current.execution = 0
     THEN UNCHANGED <<wanted, answers>>
     ELSE Answer(current.execution)
  /\ current' = None
  /\ timer' = "idle" /\ polled' = 0
  /\ UNCHANGED <<shared, handed, category, rmf, result, loaded, action>>

(***************************************************************************)
(* The navigation and the clock.                                           *)
(***************************************************************************)
Exists(e) == e \in {current.action, polled} \/ (rmf = "store" /\ e = handed)

\* The callback writes nav_completed_ through the action's address.  When the
\* action is gone, that is no object, or a later action at the same place.
NavigationCallsBack ==
  /\ callback # 0
  /\ callback' = 0
  /\ IF Exists(callback)
     THEN arrived' = arrived \union {callback} /\ stray' = stray
     ELSE /\ stray' = TRUE
          /\ arrived' \in {arrived, arrived \union ({current.action} \ {0})}
  /\ UNCHANGED <<shared, request, threads, loaded, current, state, expired, answers>>

\* The goal is aborted, or another path takes the navigation's session.
NavigationForgets ==
  /\ callback # 0
  /\ callback' = 0
  /\ UNCHANGED <<shared, request, threads, loaded, current, state, arrived,
                 expired, stray, answers>>

Expire(e) ==
  /\ state[e] \in {"planning", "navigating"} /\ e \notin expired
  /\ expired' = expired \union {e}
  /\ UNCHANGED <<shared, request, threads, loaded, current, state, arrived,
                 callback, stray, answers>>

-----------------------------------------------------------------------------
ExecuteStep == NoPlugin \/ LoadFails \/ PerformAction \/ StoreAction

TimerStep ==
  \/ Snapshot \/ Settle
  \/ PlanningFails \/ StartNavigation \/ Completed \/ Failed \/ Navigating

Next ==
  \/ \E c \in Categories : HandOver(c)
  \/ Withdraw \/ ExecuteStep \/ TimerStep
  \/ NavigationCallsBack \/ NavigationForgets
  \/ \E e \in Executions : Expire(e)

Spec == Init /\ [][Next]_vars

\* RMF's call runs to its end, the timer fires (it is not passed over for ever
\* when RMF's calls share its executor) and time passes.  Neither RMF nor the
\* navigation has to do anything.
Fairness ==
  /\ WF_vars(ExecuteStep) /\ SF_vars(TimerStep)
  /\ \A e \in Executions : WF_vars(Expire(e))

FairSpec == Spec /\ Fairness
-----------------------------------------------------------------------------
(***************************************************************************)
(* Properties.                                                             *)
(***************************************************************************)
\* However the two threads interleave, an execution is answered once: it is
\* told finished or error, not both and not twice (update_current_action's
\* finished() or error() followed by reset()).
AnsweredAtMostOnce ==
  \A e \in Executions : answers[e].finished + answers[e].error <= 1

\* An execution for which an action was stored is not lost: while RMF waits for
\* it the timer polls its action, also after the action of an execution that
\* RMF withdrew was overwritten or ended (execute_action against
\* update_current_action).
AwaitedIsPolled ==
  (wanted # 0 /\ state[wanted] # "none" /\ rmf # "store") =>
    current = [action |-> wanted, execution |-> wanted]

\* On one executor, and as long as no callback outlives its action, an execution
\* is told finished only when the navigation called back for its own action, and
\* error only when its own action failed.
OwnAnswer ==
  (shared /\ ~stray) =>
    \A e \in Executions :
      /\ answers[e].finished > 0 => state[e] = "completed" /\ e \in arrived
      /\ answers[e].error > 0 => state[e] = "failed"

\* RMF does not wait for ever for an action that was stored, even if the
\* navigation never calls back (UndockAction's TIMEOUT).
StoredIsAnswered ==
  \A e \in Executions :
    (wanted = e /\ current.execution = e) ~> (wanted # e)

-----------------------------------------------------------------------------
\* "execution.finished() will be called when action completes"
\* (fleet_adapter.cpp:557): RMF gets an answer to every execution of a category
\* that the fleet accepted, when the plugin could be loaded.
AcceptedIsAnswered ==
  \A e \in Executions : (wanted = e /\ loaded) ~> (wanted # e)
=============================================================================
