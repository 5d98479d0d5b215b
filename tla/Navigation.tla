----------------------------- MODULE Navigation -----------------------------
(***************************************************************************)
(* The navigation core of one robot: PathHandle (the RMF command handle),  *)
(* NavigationController (the Zenoh side) and the NavigationSession that    *)
(* both share through a shared_ptr and a weak_ptr.                         *)
(*                                                                         *)
(* Three threads run this code:                                            *)
(*   "executor"  RMF's calls and the update tick, one after the other      *)
(*               (navigation_session.hpp:29-32);                           *)
(*   "feedback"  Zenoh's callback for FollowWaypoints feedback;            *)
(*   "status"    Zenoh's callback for the goal status array.               *)
(* An action is one section under a mutex, one atomic access, or one call  *)
(* out of the code; between two of them the other threads may run.  Steps  *)
(* that touch only what no other thread can reach are joined to the next.  *)
(*                                                                         *)
(* RMF's requests are numbered in the order they are made.  A request's    *)
(* number also names the session it creates and the goal it sends.         *)
(***************************************************************************)
EXTENDS Naturals, FiniteSets

CONSTANTS
  MaxRequests,   \* bound: how many requests RMF makes
  Preempt,       \* RMF may stop or replace a plan it still waits for
  LateReplies,   \* a send_goal reply may miss its timeout although the goal
                 \* reached, or will still reach, the robot
  Undocks        \* RMF may ask for a dock that needs an undock motion

ASSUME RequestsAssumption == MaxRequests \in Nat
ASSUME SwitchesAssumption ==
  Preempt \in BOOLEAN /\ LateReplies \in BOOLEAN /\ Undocks \in BOOLEAN

VARIABLES
  sess,            \* the NavigationSession objects
  cur,             \* PathHandle::session_
  wp,              \* NavigationController::session_wp_
  pendingFailure,  \* PathHandle::pending_failure_
  pc, held, cb,    \* per thread: position, the session it holds, its callback
  old,             \* the executor's local old_session
  msg,             \* the feedback message being handled
  fed,             \* the feedback that the tick took out of the session
  reqs, kind,      \* requests made so far, and what each was
  plan,            \* the plan whose data RMF keeps alive, or None
  waiting,         \* the request RMF waits for, or None
  finished,        \* how often each request was reported finished
  replans,         \* calls of RobotUpdateHandle::replan
  refused,         \* requests whose goal execute_path saw as not accepted
  goal             \* the robot: the state of each request's goal

sessionVars == <<sess, cur, wp, pendingFailure>>
threadVars == <<pc, held, cb, old, msg, fed>>
rmfVars == <<reqs, kind, plan, waiting, finished, replans, refused>>
vars == <<sessionVars, threadVars, rmfVars, goal>>

None == 0
Requests == 1..MaxRequests
OrNone == 0..MaxRequests
Threads == {"executor", "feedback", "status"}
CallbackThreads == {"executor", "status"}

(***************************************************************************)
(* The data.  Sessions keep who completes them (completion: the request    *)
(* whose callback is stored), whether the other callbacks are set, and     *)
(* whose goal the buffered feedback reports on (pending).  Waypoints and   *)
(* ETAs are left out; a failure reason is kept as None or not None.        *)
(***************************************************************************)
Session == [done: BOOLEAN, blocked: BOOLEAN, goalId: OrNone,
            completion: OrNone, failure: BOOLEAN, arrival: BOOLEAN,
            rmfArrival: BOOLEAN, pending: OrNone]

NewSession == [done |-> FALSE, blocked |-> FALSE, goalId |-> None,
               completion |-> None, failure |-> FALSE, arrival |-> FALSE,
               rmfArrival |-> FALSE, pending |-> None]

Invalidated == [NewSession EXCEPT !.done = TRUE]

Callback == [kind: {"none", "completed", "failed"}, of: OrNone]
NoCallback == [kind |-> "none", of |-> None]

Message == [goalId: OrNone, arrival: BOOLEAN]
NoMessage == [goalId |-> None, arrival |-> FALSE]

Terminal == {"succeeded", "aborted", "canceled"}
AtRobot == {"executing"} \union Terminal
GoalState == {"unsent", "sent", "lost", "rejected"} \union AtRobot

Locations ==
  {"idle", "swap", "invalidateOld", "supersede", "wire", "promote", "arm",
   "send", "await", "refuse", "cancelPromote", "cancelInvalidate",
   "stopGrab", "stopInvalidate", "stopReset", "stopClear",
   "tickTake", "tickEstimate", "tickFailure",
   "scan", "match", "reason", "wrapper", "buffer",
   "cbInvalidate", "cbReset", "cbReport", "return"}

TypeOK ==
  /\ sess \in [Requests -> Session]
  /\ cur \in OrNone /\ wp \in OrNone /\ old \in OrNone
  /\ pendingFailure \in BOOLEAN
  /\ pc \in [Threads -> Locations]
  /\ held \in [Threads -> OrNone]
  /\ cb \in [CallbackThreads -> Callback]
  /\ msg \in Message
  /\ fed \in OrNone
  /\ reqs \in OrNone
  /\ kind \in [Requests -> {"none", "path", "empty", "undock", "immediate"}]
  /\ plan \in OrNone /\ waiting \in OrNone
  /\ finished \in [Requests -> Nat]
  /\ replans \in Nat
  /\ refused \in [Requests -> BOOLEAN]
  /\ goal \in [Requests -> GoalState]

Init ==
  /\ sess = [s \in Requests |-> NewSession]
  /\ cur = None /\ wp = None /\ old = None
  /\ pendingFailure = FALSE
  /\ pc = [t \in Threads |-> "idle"]
  /\ held = [t \in Threads |-> None]
  /\ cb = [t \in CallbackThreads |-> NoCallback]
  /\ msg = NoMessage
  /\ fed = None
  /\ reqs = 0
  /\ kind = [r \in Requests |-> "none"]
  /\ plan = None /\ waiting = None
  /\ finished = [r \in Requests |-> 0]
  /\ replans = 0
  /\ refused = [r \in Requests |-> FALSE]
  /\ goal = [r \in Requests |-> "unsent"]

(***************************************************************************)
(* Helpers.                                                                *)
(***************************************************************************)
\* A shared_ptr to session s exists: session_ or a local of some thread.
Alive(s) == cur = s \/ old = s \/ \E t \in Threads : held[t] = s

\* session_wp_.lock()
Promoted == IF wp # None /\ Alive(wp) THEN wp ELSE None

Goto(t, l) == pc' = [pc EXCEPT ![t] = l]

\* Take hold of session s and go on at l.
GotoWith(t, l, s) == Goto(t, l) /\ held' = [held EXCEPT ![t] = s]

\* The handler returns: its locals are gone.
Leave(t) == GotoWith(t, "idle", None)

\* Mutant: ends the session but keeps its goal and its callbacks.
InvalidateDoneOnly(s) == sess' = [sess EXCEPT ![s].done = TRUE]

Invalidate(s) == sess' = [sess EXCEPT ![s] = Invalidated]

\* Where a callback starts: docking_finished is RMF's own function, the
\* callbacks of a path are PathHandle's lambdas.
CallbackEntry(c) ==
  IF c.kind = "none" THEN "return"
  ELSE IF c.kind = "completed" /\ kind[c.of] = "undock" THEN "cbReport"
  ELSE "cbInvalidate"

Fire(t, c) == cb' = [cb EXCEPT ![t] = c] /\ Goto(t, CallbackEntry(c))

(***************************************************************************)
(* RMF, on the executor.  A request is made when the executor is free.     *)
(***************************************************************************)
MayRequest ==
  /\ pc["executor"] = "idle"
  /\ reqs < MaxRequests

\* follow_new_path up to the swap: the new session is a local.
FollowNewPath ==
  /\ MayRequest
  /\ waiting = None \/ Preempt
  /\ reqs' = reqs + 1
  /\ kind' = [kind EXCEPT ![reqs + 1] = "path"]
  /\ plan' = reqs + 1
  /\ waiting' = reqs + 1
  /\ GotoWith("executor", "swap", reqs + 1)
  /\ UNCHANGED <<sessionVars, cb, old, msg, fed, finished, replans, refused, goal>>

\* follow_new_path with no waypoint: reported finished from within the call,
\* which returns before the swap.  RMF replaces its plan all the same, and the
\* session of the plan before, if there is one, lives on.
FollowEmptyPath ==
  /\ MayRequest
  /\ waiting = None \/ Preempt
  /\ reqs' = reqs + 1
  /\ kind' = [kind EXCEPT ![reqs + 1] = "empty"]
  /\ plan' = reqs + 1
  /\ waiting' = None
  /\ finished' = [finished EXCEPT ![reqs + 1] = @ + 1]
  /\ UNCHANGED <<sessionVars, threadVars, replans, refused, goal>>

\* A dock without graph, lane or undock motion: reported finished from within
\* the call.  RMF docks only when it waits for no plan.
DockWithoutMotion ==
  /\ MayRequest
  /\ waiting = None
  /\ reqs' = reqs + 1
  /\ kind' = [kind EXCEPT ![reqs + 1] = "immediate"]
  /\ finished' = [finished EXCEPT ![reqs + 1] = @ + 1]
  /\ UNCHANGED <<sessionVars, threadVars, plan, waiting, replans, refused, goal>>

\* dock with an undock motion: execute_path is called with RMF's callback and
\* without a new session (path_handle.cpp:580).
DockWithUndock ==
  /\ MayRequest
  /\ Undocks
  /\ waiting = None
  /\ reqs' = reqs + 1
  /\ kind' = [kind EXCEPT ![reqs + 1] = "undock"]
  /\ waiting' = reqs + 1
  /\ GotoWith("executor", "promote", None)
  /\ UNCHANGED <<sessionVars, cb, old, msg, fed, plan, finished, replans, refused, goal>>

\* RMF frees the plan that was reported finished, sequentially with the tick.
RmfFreesPlan ==
  /\ pc["executor"] = "idle"
  /\ plan # None /\ finished[plan] > 0
  /\ plan' = None
  /\ UNCHANGED <<sessionVars, threadVars, reqs, kind, waiting, finished,
                 replans, refused, goal>>

Stop ==
  /\ pc["executor"] = "idle"
  /\ Preempt /\ waiting # None
  /\ waiting' = None
  /\ plan' = None
  /\ Goto("executor", "cancelPromote")
  /\ UNCHANGED <<sessionVars, held, cb, old, msg, fed, reqs, kind, finished,
                 replans, refused, goal>>

(***************************************************************************)
(* follow_new_path.                                                        *)
(***************************************************************************)
SwapSession ==
  /\ pc["executor"] = "swap"
  /\ old' = cur
  /\ cur' = held["executor"]
  /\ Goto("executor", IF cur = None THEN "supersede" ELSE "invalidateOld")
  /\ UNCHANGED <<sess, wp, pendingFailure, held, cb, msg, fed, rmfVars, goal>>

InvalidateOld ==
  /\ pc["executor"] = "invalidateOld"
  /\ Invalidate(old)
  /\ old' = None
  /\ Goto("executor", "supersede")
  /\ UNCHANGED <<cur, wp, pendingFailure, held, cb, msg, fed, rmfVars, goal>>

SupersedeFailure ==
  /\ pc["executor"] = "supersede"
  /\ pendingFailure' = FALSE
  /\ Goto("executor", "wire")
  /\ UNCHANGED <<sess, cur, wp, held, cb, old, msg, fed, rmfVars, goal>>

\* The callbacks are stored before set_session makes the session reachable
\* for the Zenoh threads.
WireSession ==
  /\ pc["executor"] = "wire"
  /\ sess' = [sess EXCEPT ![held["executor"]].rmfArrival = TRUE,
                          ![held["executor"]].failure = TRUE]
  /\ wp' = held["executor"]
  /\ Goto("executor", "promote")
  /\ UNCHANGED <<cur, pendingFailure, held, cb, old, msg, fed, rmfVars, goal>>

(***************************************************************************)
(* NavigationController::execute_path.                                     *)
(***************************************************************************)
\* Without a session the completion callback is called at once.
ExecutePath ==
  /\ pc["executor"] = "promote"
  /\ IF Promoted = None
       THEN /\ Fire("executor", [kind |-> "completed", of |-> reqs])
            /\ UNCHANGED held
       ELSE /\ GotoWith("executor", "arm", Promoted)
            /\ UNCHANGED cb
  /\ UNCHANGED <<sessionVars, old, msg, fed, rmfVars, goal>>

\* Under the session's mutex; failure_callback and failure_reason are kept.
ArmSession ==
  /\ pc["executor"] = "arm"
  /\ sess' = [sess EXCEPT
       ![held["executor"]] = [@ EXCEPT !.completion = reqs,
                                       !.arrival = (kind[reqs] = "path"),
                                       !.goalId = reqs,
                                       !.done = FALSE]]
  /\ Goto("executor", "send")
  /\ UNCHANGED <<cur, wp, pendingFailure, held, cb, old, msg, fed, rmfVars, goal>>

SendGoal ==
  /\ pc["executor"] = "send"
  /\ goal' = [goal EXCEPT ![reqs] = "sent"]
  /\ Goto("executor", "await")
  /\ UNCHANGED <<sessionVars, held, cb, old, msg, fed, rmfVars>>

GoalAccepted ==
  /\ pc["executor"] = "await"
  /\ goal[reqs] \in AtRobot
  /\ Goto("executor", "return")
  /\ UNCHANGED <<sessionVars, held, cb, old, msg, fed, rmfVars, goal>>

\* send_follow_path_goal returns false: a rejection, a query that never
\* reached the robot, or a reply later than the timeout.
GoalNotAccepted ==
  /\ pc["executor"] = "await"
  /\ \/ goal[reqs] = "rejected" /\ UNCHANGED goal
     \/ goal[reqs] = "sent" /\ goal' = [goal EXCEPT ![reqs] = "lost"]
     \/ LateReplies /\ goal[reqs] \in {"sent"} \union AtRobot /\ UNCHANGED goal
  /\ refused' = [refused EXCEPT ![reqs] = TRUE]
  /\ Goto("executor", "refuse")
  /\ UNCHANGED <<sessionVars, held, cb, old, msg, fed, reqs, kind, plan,
                 waiting, finished, replans>>

\* Mutant: a goal that was not accepted ends the session without a word to RMF.
RefuseGoalSilently ==
  /\ pc["executor"] = "refuse"
  /\ sess' = [sess EXCEPT ![held["executor"]].done = TRUE]
  /\ Goto("executor", "return")
  /\ UNCHANGED <<cur, wp, pendingFailure, held, cb, old, msg, fed, rmfVars, goal>>

\* Under the session's mutex: done, and the completion callback is copied.
RefuseGoal ==
  /\ pc["executor"] = "refuse"
  /\ LET s == held["executor"]
         c == sess[s].completion
     IN  /\ sess' = [sess EXCEPT ![s].done = TRUE]
         /\ Fire("executor", IF c = None THEN NoCallback
                             ELSE [kind |-> "completed", of |-> c])
  /\ UNCHANGED <<cur, wp, pendingFailure, held, old, msg, fed, rmfVars, goal>>

(***************************************************************************)
(* PathHandle's completion and failure lambdas, on whichever thread calls  *)
(* them.  The lambda's weak_ptr is to the session of its own request; to   *)
(* invalidate a session that is gone changes nothing anyone can see.       *)
(***************************************************************************)
CallbackInvalidate(t) ==
  /\ pc[t] = "cbInvalidate"
  /\ Invalidate(cb[t].of)
  /\ Goto(t, "cbReset")
  /\ UNCHANGED <<cur, wp, pendingFailure, held, cb, old, msg, fed, rmfVars, goal>>

\* session_.reset(), whichever session session_ holds by now.
CallbackReset(t) ==
  /\ pc[t] = "cbReset"
  /\ cur' = None
  /\ Goto(t, "cbReport")
  /\ UNCHANGED <<sess, wp, pendingFailure, held, cb, old, msg, fed, rmfVars, goal>>

\* path_finished_callback / docking_finished_callback
ReportFinished(t) ==
  /\ pc[t] = "cbReport"
  /\ cb[t].kind = "completed"
  /\ finished' = [finished EXCEPT ![cb[t].of] = @ + 1]
  /\ waiting' = IF waiting = cb[t].of THEN None ELSE waiting
  /\ Goto(t, "return")
  /\ UNCHANGED <<sessionVars, held, cb, old, msg, fed, reqs, kind, plan,
                 replans, refused, goal>>

\* Mutant: the failure callback only invalidates.
ReportFailureToNobody(t) ==
  /\ pc[t] = "cbReport"
  /\ cb[t].kind = "failed"
  /\ Goto(t, "return")
  /\ UNCHANGED <<sessionVars, held, cb, old, msg, fed, rmfVars, goal>>

ReportFailure(t) ==
  /\ pc[t] = "cbReport"
  /\ cb[t].kind = "failed"
  /\ pendingFailure' = TRUE
  /\ Goto(t, "return")
  /\ UNCHANGED <<sess, cur, wp, held, cb, old, msg, fed, rmfVars, goal>>

\* The handler ends and releases the session it promoted.
Return(t) ==
  /\ pc[t] = "return"
  /\ Leave(t)
  /\ cb' = [cb EXCEPT ![t] = NoCallback]
  /\ UNCHANGED <<sessionVars, old, msg, fed, rmfVars, goal>>

CallbackStep(t) ==
  \/ CallbackInvalidate(t) \/ CallbackReset(t)
  \/ ReportFinished(t) \/ ReportFailure(t) \/ Return(t)

(***************************************************************************)
(* PathHandle::stop: cancel_navigation, then the handle's own session.     *)
(* The robot is sent nothing.                                              *)
(***************************************************************************)
CancelPromote ==
  /\ pc["executor"] = "cancelPromote"
  /\ GotoWith("executor",
              IF Promoted = None THEN "stopGrab" ELSE "cancelInvalidate",
              Promoted)
  /\ UNCHANGED <<sessionVars, cb, old, msg, fed, rmfVars, goal>>

CancelInvalidate ==
  /\ pc["executor"] = "cancelInvalidate"
  /\ IF sess[held["executor"]].goalId = None
       THEN UNCHANGED sess
       ELSE Invalidate(held["executor"])
  /\ GotoWith("executor", "stopGrab", None)
  /\ UNCHANGED <<cur, wp, pendingFailure, cb, old, msg, fed, rmfVars, goal>>

StopGrab ==
  /\ pc["executor"] = "stopGrab"
  /\ GotoWith("executor",
              IF cur = None THEN "stopReset" ELSE "stopInvalidate", cur)
  /\ UNCHANGED <<sessionVars, cb, old, msg, fed, rmfVars, goal>>

StopInvalidate ==
  /\ pc["executor"] = "stopInvalidate"
  /\ Invalidate(held["executor"])
  /\ Goto("executor", "stopReset")
  /\ UNCHANGED <<cur, wp, pendingFailure, held, cb, old, msg, fed, rmfVars, goal>>

StopReset ==
  /\ pc["executor"] = "stopReset"
  /\ cur' = None
  /\ Goto("executor", "stopClear")
  /\ UNCHANGED <<sess, wp, pendingFailure, held, cb, old, msg, fed, rmfVars, goal>>

StopClearFailure ==
  /\ pc["executor"] = "stopClear"
  /\ pendingFailure' = FALSE
  /\ Leave("executor")
  /\ UNCHANGED <<sess, cur, wp, cb, old, msg, fed, rmfVars, goal>>

(***************************************************************************)
(* The update tick: drain_pending_feedback, then take_pending_failure.     *)
(***************************************************************************)
\* current_session(); done is read with the buffer below, since a session
\* invalidated in between has no buffer and no estimator.
Tick ==
  /\ pc["executor"] = "idle"
  /\ GotoWith("executor",
              IF cur = None THEN "tickFailure" ELSE "tickTake", cur)
  /\ UNCHANGED <<sessionVars, cb, old, msg, fed, rmfVars, goal>>

TakeFeedback ==
  /\ pc["executor"] = "tickTake"
  /\ LET s == held["executor"] IN
       IF sess[s].done \/ sess[s].pending = None \/ ~sess[s].rmfArrival
         THEN /\ Goto("executor", "tickFailure")
              /\ UNCHANGED <<sess, fed>>
         ELSE /\ fed' = sess[s].pending
              /\ sess' = [sess EXCEPT ![s].pending = None]
              /\ Goto("executor", "tickEstimate")
  /\ UNCHANGED <<cur, wp, pendingFailure, held, cb, old, msg, rmfVars, goal>>

\* RMF's estimator of session held["executor"] is called with fed.
CallEstimator ==
  /\ pc["executor"] = "tickEstimate"
  /\ fed' = None
  /\ Goto("executor", "tickFailure")
  /\ UNCHANGED <<sessionVars, held, cb, old, msg, rmfVars, goal>>

\* Mutant: the flag is loaded, not exchanged.
LoadFailure ==
  /\ pc["executor"] = "tickFailure"
  /\ IF pendingFailure
       THEN replans' = replans + 1 /\ waiting' = None
       ELSE UNCHANGED <<replans, waiting>>
  /\ Leave("executor")
  /\ UNCHANGED <<sessionVars, cb, old, msg, fed, reqs, kind, plan, finished,
                 refused, goal>>

TakeFailure ==
  /\ pc["executor"] = "tickFailure"
  /\ pendingFailure' = FALSE
  /\ IF pendingFailure
       THEN replans' = replans + 1 /\ waiting' = None
       ELSE UNCHANGED <<replans, waiting>>
  /\ Leave("executor")
  /\ UNCHANGED <<sess, cur, wp, cb, old, msg, fed, reqs, kind, plan, finished,
                 refused, goal>>

(***************************************************************************)
(* feedback_callback.  A message reports on any goal the robot has had:    *)
(* messages may be late.  done is read with the promotion: a session that  *)
(* ends in between has no goal id, and MatchGoal drops the message.        *)
(***************************************************************************)
FeedbackArrives ==
  /\ pc["feedback"] = "idle"
  /\ Promoted # None
  /\ ~sess[Promoted].done
  /\ \E g \in Requests :
       /\ goal[g] \in AtRobot
       /\ msg' = [goalId |-> g, arrival |-> FALSE]
  /\ GotoWith("feedback", "match", Promoted)
  /\ UNCHANGED <<sessionVars, cb, old, fed, rmfVars, goal>>

\* Mutant: feedback is passed on whatever goal it is about.
MatchAnyGoal ==
  /\ pc["feedback"] = "match"
  /\ msg' = [msg EXCEPT !.arrival = sess[held["feedback"]].arrival]
  /\ Goto("feedback", "reason")
  /\ UNCHANGED <<sessionVars, held, cb, old, fed, rmfVars, goal>>

\* Under the mutex: the goal id and the wrapped estimator are copied.
MatchGoal ==
  /\ pc["feedback"] = "match"
  /\ LET s == held["feedback"] IN
       IF sess[s].goalId # msg.goalId
         THEN Leave("feedback") /\ msg' = NoMessage
         ELSE /\ msg' = [msg EXCEPT !.arrival = sess[s].arrival]
              /\ Goto("feedback", "reason")
              /\ UNCHANGED held
  /\ UNCHANGED <<sessionVars, cb, old, fed, rmfVars, goal>>

\* failure_reason.store, after the mutex is released; only here does it matter
\* which reason the message gives.
StoreReason ==
  /\ pc["feedback"] = "reason"
  /\ \E b \in BOOLEAN : sess' = [sess EXCEPT ![held["feedback"]].blocked = b]
  /\ IF msg.arrival
       THEN Goto("feedback", "wrapper") /\ UNCHANGED <<held, msg>>
       ELSE Leave("feedback") /\ msg' = NoMessage
  /\ UNCHANGED <<cur, wp, pendingFailure, cb, old, fed, rmfVars, goal>>

\* wrapped_estimator: done is read before the mutex is taken.
CheckDone ==
  /\ pc["feedback"] = "wrapper"
  /\ IF sess[held["feedback"]].done
       THEN Leave("feedback") /\ msg' = NoMessage
       ELSE Goto("feedback", "buffer") /\ UNCHANGED <<held, msg>>
  /\ UNCHANGED <<sessionVars, cb, old, fed, rmfVars, goal>>

BufferFeedback ==
  /\ pc["feedback"] = "buffer"
  /\ sess' = [sess EXCEPT ![held["feedback"]].pending = msg.goalId]
  /\ Leave("feedback") /\ msg' = NoMessage
  /\ UNCHANGED <<cur, wp, pendingFailure, cb, old, fed, rmfVars, goal>>

(***************************************************************************)
(* status_callback.  A message that does not show a terminal state yet     *)
(* changes nothing, so a late message is one that arrives later.           *)
(***************************************************************************)
StatusArrives ==
  /\ pc["status"] = "idle"
  /\ Promoted # None
  /\ GotoWith("status", "scan", Promoted)
  /\ UNCHANGED <<sessionVars, cb, old, msg, fed, rmfVars, goal>>

\* Mutant: a goal canceled by the robot counts as reached.
EndCallbackCanceled(s) ==
  IF goal[sess[s].goalId] \in {"succeeded", "canceled"}
    THEN IF sess[s].completion = None THEN NoCallback
         ELSE [kind |-> "completed", of |-> sess[s].completion]
    ELSE IF sess[s].failure THEN [kind |-> "failed", of |-> s]
         ELSE NoCallback

\* Mutant: a canceled goal gets a result of its own, which no callback knows.
EndCallbackByState(s) ==
  IF goal[sess[s].goalId] = "succeeded"
    THEN IF sess[s].completion = None THEN NoCallback
         ELSE [kind |-> "completed", of |-> sess[s].completion]
    ELSE IF sess[s].failure THEN [kind |-> goal[sess[s].goalId], of |-> s]
         ELSE NoCallback

\* What the session holds for the end of its goal.
EndCallback(s) ==
  LET g == sess[s].goalId IN
  IF goal[g] = "succeeded"
    THEN IF sess[s].completion = None THEN NoCallback
         ELSE [kind |-> "completed", of |-> sess[s].completion]
    ELSE IF sess[s].failure THEN [kind |-> "failed", of |-> s]
         ELSE NoCallback

\* Mutant: the session whose goal has ended is not invalidated.
ScanStatusAgain ==
  /\ pc["status"] = "scan"
  /\ LET s == held["status"] IN
       IF sess[s].goalId # None /\ goal[sess[s].goalId] \in Terminal
         THEN Fire("status", EndCallback(s))
         ELSE /\ Goto("status", "return")
              /\ UNCHANGED cb
  /\ UNCHANGED <<sessionVars, held, old, msg, fed, rmfVars, goal>>

\* Under the mutex: find the session's own goal in the array; if it has
\* ended, take the callback and invalidate.
ScanStatus ==
  /\ pc["status"] = "scan"
  /\ LET s == held["status"] IN
       IF sess[s].goalId # None /\ goal[sess[s].goalId] \in Terminal
         THEN /\ Fire("status", EndCallback(s))
              /\ Invalidate(s)
         ELSE /\ Goto("status", "return")
              /\ UNCHANGED <<sess, cb>>
  /\ UNCHANGED <<cur, wp, pendingFailure, held, old, msg, fed, rmfVars, goal>>

(***************************************************************************)
(* The robot's FollowWaypoints action server.                              *)
(***************************************************************************)
RobotDecides(g) ==
  /\ goal[g] = "sent"
  /\ \E d \in {"executing", "rejected"} : goal' = [goal EXCEPT ![g] = d]
  /\ UNCHANGED <<sessionVars, threadVars, rmfVars>>

\* A goal ends by itself or because the robot drops it for a newer one.
RobotEnds(g) ==
  /\ goal[g] = "executing"
  /\ \E d \in Terminal : goal' = [goal EXCEPT ![g] = d]
  /\ UNCHANGED <<sessionVars, threadVars, rmfVars>>

-----------------------------------------------------------------------------
ExecutorStep ==
  \/ SwapSession \/ InvalidateOld \/ SupersedeFailure \/ WireSession
  \/ ExecutePath \/ ArmSession \/ SendGoal \/ GoalAccepted \/ GoalNotAccepted
  \/ RefuseGoal \/ CancelPromote \/ CancelInvalidate \/ StopGrab
  \/ StopInvalidate \/ StopReset \/ StopClearFailure
  \/ TakeFeedback \/ CallEstimator \/ TakeFailure
  \/ CallbackStep("executor")

StatusStep == StatusArrives \/ ScanStatus \/ CallbackStep("status")

FeedbackStep ==
  FeedbackArrives \/ MatchGoal \/ StoreReason \/ CheckDone \/ BufferFeedback

RmfStep ==
  \/ FollowNewPath \/ FollowEmptyPath \/ DockWithoutMotion \/ DockWithUndock
  \/ RmfFreesPlan \/ Stop

RobotStep == \E g \in Requests : RobotDecides(g) \/ RobotEnds(g)

Next ==
  ExecutorStep \/ Tick \/ StatusStep \/ FeedbackStep \/ RmfStep \/ RobotStep

Spec == Init /\ [][Next]_vars

\* The threads run, the timer fires, Zenoh delivers statuses and the robot
\* ends its goals.  Nothing is assumed of RMF or of feedback.
Fairness ==
  /\ WF_vars(ExecutorStep) /\ WF_vars(Tick) /\ WF_vars(StatusStep)
  /\ WF_vars(RobotStep)

FairSpec == Spec /\ Fairness
-----------------------------------------------------------------------------
(***************************************************************************)
(* Properties.                                                             *)
(***************************************************************************)
\* Requests made after s.
Later(s) == {r \in Requests : r > s}

\* The last path that RMF asked for is s, and an empty path came after it.
ReplacedByEmpty(s) ==
  /\ \E r \in Later(s) : kind[r] = "empty"
  /\ \A r \in Later(s) : kind[r] # "path"

\* RMF's arrival estimator is only called with progress that the robot reported
\* on the goal of the estimator's own plan, and only while RMF still keeps that
\* plan (navigation_session.hpp:29-32, path_handle.cpp:609-632); with the one
\* exception that the code makes: an empty path replaces the plan and leaves
\* its session live (path_handle.cpp:232-242), although lines 294-298 say that
\* the session is invalidated before anything else.
EstimatorFresh ==
  pc["executor"] = "tickEstimate" =>
    /\ fed = held["executor"]
    /\ plan = held["executor"] \/ ReplacedByEmpty(held["executor"])

\* RMF is told that a request is finished only if the robot reached the end of
\* that request's own goal, or execute_path saw the goal not accepted, or no
\* goal was ever sent for it (status_callback, execute_path).
CompletionTruthful ==
  \A r \in Requests :
    finished[r] > 0 => goal[r] \in {"unsent", "succeeded"} \/ refused[r]

\* No request is reported finished twice, though both the executor and the
\* status thread call completion callbacks (execute_path, status_callback): save
\* when execute_path gives up on a goal that the robot has, or will have, and
\* then at most twice.
GivenUpWithRobot(r) == refused[r] /\ goal[r] \notin {"rejected", "lost"}
FinishedAtMostOnce ==
  \A r \in Requests : finished[r] <= (IF GivenUpWithRobot(r) THEN 2 ELSE 1)

Failed == {r \in Requests : goal[r] \in {"aborted", "canceled"}}

\* RMF is asked to replan at most once per goal that the robot gave up: a
\* buffered failure is consumed once, and success or rejection never buffers
\* one (failure_callback, take_pending_failure).
ReplansJustified ==
  replans + (IF pendingFailure THEN 1 ELSE 0) <= Cardinality(Failed)

\* Whenever no call of RMF or tick is under way and the active session is that
\* of the plan RMF waits for, a status message can still end it: the controller
\* points to it, its goal went out and its callbacks are its own; or the status
\* thread is just ending it (follow_new_path, execute_path, status_callback).
ActiveSessionCanEnd ==
  pc["executor"] = "idle" /\ cur # None /\ cur = waiting =>
    \/ /\ wp = cur
       /\ ~sess[cur].done
       /\ sess[cur].goalId = cur /\ goal[cur] \in AtRobot
       /\ sess[cur].completion = cur
       /\ sess[cur].failure /\ sess[cur].rmfArrival
    \/ held["status"] = cur /\ pc["status"] \in {"cbInvalidate", "cbReset"}

\* If RMF neither stops nor replaces plans and no reply misses its timeout, the
\* end of a path RMF waits for is never lost between the threads: the executor is
\* still bringing its goal to the robot, or its session is the active one, whole,
\* and its goal is at the robot, or a thread is inside its callback, or a buffered
\* failure waits for the tick (follow_new_path, execute_path, status_callback,
\* failure_callback).
WaitIsServed ==
  waiting # None /\ kind[waiting] = "path" =>
    \/ /\ reqs = waiting
       /\ \/ pc["executor"] \in {"swap", "invalidateOld", "supersede", "wire",
                                "promote", "arm", "send", "refuse"}
          \/ pc["executor"] = "await" /\ goal[waiting] # "lost"
    \/ /\ cur = waiting /\ wp = waiting /\ ~sess[waiting].done
       /\ sess[waiting].goalId = waiting /\ goal[waiting] \in AtRobot
       /\ sess[waiting].completion = waiting /\ sess[waiting].failure
    \/ \E t \in CallbackThreads :
         cb[t].of = waiting /\ pc[t] \in {"cbInvalidate", "cbReset", "cbReport"}
    \/ pendingFailure

\* A path RMF waits for comes to an end: it is reported finished or a replan is
\* requested, however the threads interleave, if RMF neither stops nor replaces
\* plans it waits for (callbacks of follow_new_path, take_pending_failure).
PathResolves ==
  \A r \in Requests : (waiting = r /\ kind[r] = "path") ~> waiting # r

-----------------------------------------------------------------------------
(***************************************************************************)
(* What comments and messages of the code say, and the runs refute.        *)
(***************************************************************************)
\* "The active navigation session. Atomically swapped on each follow_new_path"
\* (path_handle.hpp:88): while the robot drives the plan RMF waits for, that
\* plan's session is the active one.
ActivePlanHasSession ==
  pc["executor"] = "idle" /\ waiting # None /\ goal[waiting] = "executing"
    => cur = waiting

\* "Undock navigation started with %zu waypoints" (path_handle.cpp:584): when
\* an undock motion is reported finished, its goal has been sent to the robot.
UndockReachesRobot ==
  \A r \in Requests :
    kind[r] = "undock" /\ finished[r] > 0 => goal[r] # "unsent"
=============================================================================
