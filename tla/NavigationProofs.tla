-------------------------- MODULE NavigationProofs --------------------------
(***************************************************************************)
(* Theorems about Navigation, for every number of requests and every       *)
(* setting of the environment's switches.                                  *)
(***************************************************************************)
EXTENDS Navigation, TLAPS

-----------------------------------------------------------------------------
(* Type correctness: a handler that reads a session's fields holds one.    *)

HoldsSession ==
  /\ pc["executor"] \in {"arm", "send", "await", "refuse", "tickTake"}
       => held["executor"] # None
  /\ pc["status"] = "scan" => held["status"] # None
  /\ pc["feedback"] = "match" => held["feedback"] # None

TypeInv == TypeOK /\ HoldsSession

-----------------------------------------------------------------------------
(* Why completions are truthful.  A completion callback is stored together *)
(* with its goal id, and leaves the session only once that goal has        *)
(* succeeded or was not accepted; a goal still to be sent has no callback. *)

Truthful(r) == goal[r] \in {"unsent", "succeeded"} \/ refused[r]

Sending == {"swap", "invalidateOld", "supersede", "wire", "promote", "arm", "send"}

InCallback == {"cbInvalidate", "cbReset", "cbReport", "return"}

\* Nothing refers to requests that RMF has not made yet.
FutureUntouched ==
  /\ \A r \in Requests : r > reqs => goal[r] = "unsent" /\ finished[r] = 0
  /\ \A s \in Requests : sess[s].completion <= reqs
  /\ \A t \in CallbackThreads : cb[t].kind = "completed" => cb[t].of <= reqs

\* The request being sent has no callback and no result yet.
SendingIsNew ==
  pc["executor"] \in Sending =>
    /\ reqs # None
    /\ goal[reqs] = "unsent"
    /\ finished[reqs] = 0
    /\ \A t \in CallbackThreads : cb[t].kind = "completed" => cb[t].of # reqs

CompletionMatchesGoal ==
  \A s \in Requests :
    sess[s].completion # None => sess[s].completion = sess[s].goalId

ArmedForRequest ==
  /\ pc["executor"] \in {"send", "await", "refuse"} =>
       reqs # None /\ sess[held["executor"]].completion \in {None, reqs}
  /\ pc["executor"] = "refuse" => refused[reqs]

CallbacksTruthful ==
  /\ \A t \in CallbackThreads : cb[t].kind = "completed" =>
       cb[t].of # None /\ Truthful(cb[t].of)
  /\ pc["executor"] \notin InCallback => cb["executor"].kind = "none"

CompletionInv ==
  /\ FutureUntouched
  /\ SendingIsNew
  /\ CompletionMatchesGoal
  /\ ArmedForRequest
  /\ CallbacksTruthful
  /\ CompletionTruthful

-----------------------------------------------------------------------------
(* Why the estimator is fresh.  Outside follow_new_path and stop, session_ *)
(* is empty, the session of RMF's plan, or that of the last path, which an *)
(* empty one replaced; a session that forwards feedback has its own goal;  *)
(* and session_ is left before a path with waypoints is reported finished, *)
(* hence before RMF frees the plan.                                        *)

Stopping == {"cancelPromote", "cancelInvalidate", "stopGrab", "stopInvalidate", "stopReset"}

PathHoldsItsSession ==
  /\ pc["executor"] \in Sending \ {"send"} /\ kind[reqs] = "path"
       => held["executor"] = reqs
  /\ pc["executor"] = "promote" /\ kind[reqs] = "path" => wp = reqs
  /\ pc["executor"] = "swap" => plan = reqs /\ kind[reqs] = "path"

ArrivalOwnGoal ==
  \A s \in Requests :
    /\ sess[s].arrival => sess[s].goalId = s
    /\ sess[s].pending \in {None, s}

MessageOwnGoal ==
  /\ pc["feedback"] \in {"wrapper", "buffer"} => msg.arrival
  /\ pc["feedback"] \in {"reason", "wrapper", "buffer"} /\ msg.arrival
       => msg.goalId = held["feedback"]

FutureKind == \A r \in Requests : r > reqs => kind[r] = "none"

\* finished, or about to be reported finished
LeftBeforeReport ==
  \A r \in Requests :
    kind[r] = "path" /\ (\/ finished[r] > 0
                         \/ \E t \in CallbackThreads :
                              /\ pc[t] = "cbReport"
                              /\ cb[t] = [kind |-> "completed", of |-> r])
    => cur # r

PlanOrReplaced(s) == plan = s \/ ReplacedByEmpty(s)

ActiveIsPlan ==
  /\ plan # None => /\ kind[plan] \in {"path", "empty"}
                    /\ \A r \in Later(plan) : kind[r] # "path"
  /\ cur # None => kind[cur] = "path"
  /\ pc["executor"] \notin {"swap"} \union Stopping =>
       cur = None \/ PlanOrReplaced(cur)
  /\ pc["executor"] \in {"tickTake", "tickEstimate"} =>
       held["executor"] # None /\ PlanOrReplaced(held["executor"])
  /\ pc["executor"] = "tickEstimate" => fed = held["executor"]

EstimatorInv ==
  /\ PathHoldsItsSession
  /\ ArrivalOwnGoal
  /\ MessageOwnGoal
  /\ FutureKind
  /\ LeftBeforeReport
  /\ ActiveIsPlan

LEMMA NoneTyped == None \in OrNone
  BY RequestsAssumption DEF None, OrNone

LEMMA RequestOrNone ==
  /\ \A r \in Requests : r \in OrNone /\ r # None
  /\ \A r \in OrNone : r # None => r \in Requests
  BY RequestsAssumption DEF None, OrNone, Requests

LEMMA SessionFields ==
  ASSUME NEW x \in Session
  PROVE  /\ x.done \in BOOLEAN /\ x.blocked \in BOOLEAN
         /\ x.failure \in BOOLEAN /\ x.arrival \in BOOLEAN
         /\ x.rmfArrival \in BOOLEAN
         /\ x.goalId \in OrNone /\ x.completion \in OrNone
         /\ x.pending \in OrNone
  BY DEF Session

LEMMA SessionUpdates ==
  ASSUME NEW x \in Session, NEW c \in OrNone, NEW b \in BOOLEAN
  PROVE  /\ [x EXCEPT !.pending = c] \in Session
         /\ [x EXCEPT !.done = b] \in Session
         /\ [x EXCEPT !.blocked = b] \in Session
         /\ [x EXCEPT !.rmfArrival = b] \in Session
         /\ [x EXCEPT !.failure = b] \in Session
  BY DEF Session

LEMMA ArmedTyped ==
  ASSUME NEW x \in Session, NEW r \in OrNone, NEW b \in BOOLEAN
  PROVE  [x EXCEPT !.completion = r, !.arrival = b, !.goalId = r, !.done = FALSE]
           \in Session
  BY DEF Session

LEMMA RecordsTyped ==
  /\ NewSession \in Session /\ Invalidated \in Session
  /\ NoCallback \in Callback /\ NoMessage \in Message
<1>1. NewSession \in Session
  BY NoneTyped DEF NewSession, Session
<1>2. Invalidated \in Session
  BY <1>1, NoneTyped, SessionUpdates DEF Invalidated
<1>3. NoCallback \in Callback /\ NoMessage \in Message
  BY NoneTyped DEF NoCallback, Callback, NoMessage, Message
<1>4. QED
  BY <1>1, <1>2, <1>3

LEMMA CallbackTyped ==
  ASSUME NEW r \in OrNone
  PROVE  /\ [kind |-> "completed", of |-> r] \in Callback
         /\ [kind |-> "failed", of |-> r] \in Callback
  BY DEF Callback

LEMMA MessageUpdates ==
  ASSUME NEW m \in Message, NEW b \in BOOLEAN
  PROVE  [m EXCEPT !.arrival = b] \in Message
  BY DEF Message

LEMMA MessageTyped ==
  ASSUME NEW g \in OrNone, NEW a \in BOOLEAN
  PROVE  [goalId |-> g, arrival |-> a] \in Message
  BY DEF Message

LEMMA Increment ==
  ASSUME NEW f \in [Requests -> Nat], NEW i
  PROVE  [f EXCEPT ![i] = f[i] + 1] \in [Requests -> Nat]
<1>1. CASE i \in Requests
  <2>1. f[i] + 1 \in Nat
    BY <1>1
  <2>2. QED
    BY <2>1
<1>2. CASE i \notin Requests
  BY <1>2
<1>3. QED
  BY <1>1, <1>2

LEMMA TypeStep == TypeInv /\ [Next]_vars => TypeInv'
<1> SUFFICES ASSUME TypeInv, [Next]_vars
             PROVE  TypeInv'
  OBVIOUS
<1>1. CASE Next
  <2>1. CASE SwapSession
    BY <2>1, NoneTyped DEF SwapSession, Goto, TypeInv, TypeOK, HoldsSession,
    Locations, Threads, sessionVars, threadVars, rmfVars
  <2>2. CASE InvalidateOld
    BY <2>2, NoneTyped, RecordsTyped DEF InvalidateOld, Invalidate, Goto,
    TypeInv, TypeOK, HoldsSession, Locations, Threads, sessionVars,
    threadVars, rmfVars
  <2>3. CASE SupersedeFailure
    BY <2>3, NoneTyped DEF SupersedeFailure, Goto, TypeInv, TypeOK,
    HoldsSession, Locations, Threads, sessionVars, threadVars, rmfVars
  <2>4. CASE WireSession
    BY <2>4, NoneTyped, SessionUpdates DEF WireSession, Goto, TypeInv,
    TypeOK, HoldsSession, Locations, Threads, sessionVars, threadVars,
    rmfVars
  <2>5. CASE ExecutePath
    <3>1. Promoted \in OrNone
      BY NoneTyped DEF Promoted, TypeInv, TypeOK
    <3>2. cb' \in [CallbackThreads -> Callback]
      BY <2>5, CallbackTyped DEF ExecutePath, Fire, TypeInv, TypeOK
    <3>3. QED
      BY <2>5, <3>1, <3>2, NoneTyped
         DEF ExecutePath, GotoWith, Goto, Fire, CallbackEntry, Locations,
         Threads, TypeInv, TypeOK, HoldsSession, rmfVars, sessionVars, threadVars
  <2>6. CASE ArmSession
    <3>1. (kind[reqs] = "path") \in BOOLEAN
      OBVIOUS
    <3>2. sess' \in [Requests -> Session]
      BY <2>6, <3>1, ArmedTyped DEF ArmSession, TypeInv, TypeOK
    <3>3. QED
      BY <2>6, <3>2
         DEF ArmSession, Goto, Locations, Threads, TypeInv, TypeOK, HoldsSession,
         rmfVars, sessionVars, threadVars
  <2>7. CASE SendGoal
    <3>1. goal' \in [Requests -> GoalState]
      BY <2>7 DEF SendGoal, TypeInv, TypeOK, GoalState, AtRobot, Terminal
    <3>2. QED
      BY <2>7, <3>1
         DEF SendGoal, Goto, Locations, Threads, TypeInv, TypeOK, HoldsSession,
         rmfVars, sessionVars, threadVars
  <2>8. CASE GoalAccepted
    BY <2>8, NoneTyped DEF GoalAccepted, AtRobot, Terminal, Goto, TypeInv,
    TypeOK, HoldsSession, Locations, Threads, sessionVars, threadVars,
    rmfVars
  <2>9. CASE GoalNotAccepted
    <3>1. goal' \in [Requests -> GoalState]
      BY <2>9 DEF GoalNotAccepted, TypeInv, TypeOK, GoalState, AtRobot, Terminal
    <3>2. QED
      BY <2>9, <3>1
         DEF GoalNotAccepted, Goto, Locations, Threads, TypeInv, TypeOK,
         HoldsSession, rmfVars, sessionVars, threadVars
  <2>10. CASE RefuseGoal
    <3>1. held["executor"] \in Requests
      BY <2>10, RequestOrNone DEF RefuseGoal, TypeInv, TypeOK, HoldsSession, Threads
    <3>2. sess' \in [Requests -> Session]
      BY <2>10, NoneTyped, SessionUpdates DEF RefuseGoal, TypeInv, TypeOK
    <3>3. sess[held["executor"]].completion \in OrNone
      BY <3>1, SessionFields DEF TypeInv, TypeOK
    <3>4. cb' \in [CallbackThreads -> Callback]
      BY <2>10, <3>3, CallbackTyped, RecordsTyped DEF RefuseGoal, Fire, TypeInv, TypeOK
    <3>5. QED
      BY <2>10, <3>2, <3>4
         DEF RefuseGoal, Fire, Goto, CallbackEntry, Locations, Threads, TypeInv,
         TypeOK, HoldsSession, rmfVars, sessionVars, threadVars
  <2>11. CASE CancelPromote
    BY <2>11, NoneTyped DEF CancelPromote, GotoWith, Goto, Promoted, Alive,
    TypeInv, TypeOK, HoldsSession, Locations, Threads, sessionVars,
    threadVars, rmfVars
  <2>12. CASE CancelInvalidate
    BY <2>12, NoneTyped, RecordsTyped DEF CancelInvalidate, Invalidate,
    GotoWith, Goto, TypeInv, TypeOK, HoldsSession, Locations, Threads,
    sessionVars, threadVars, rmfVars
  <2>13. CASE StopGrab
    BY <2>13, NoneTyped DEF StopGrab, GotoWith, Goto, TypeInv, TypeOK,
    HoldsSession, Locations, Threads, sessionVars, threadVars, rmfVars
  <2>14. CASE StopInvalidate
    BY <2>14, NoneTyped, RecordsTyped DEF StopInvalidate, Invalidate, Goto,
    TypeInv, TypeOK, HoldsSession, Locations, Threads, sessionVars,
    threadVars, rmfVars
  <2>15. CASE StopReset
    BY <2>15, NoneTyped DEF StopReset, Goto, TypeInv, TypeOK, HoldsSession,
    Locations, Threads, sessionVars, threadVars, rmfVars
  <2>16. CASE StopClearFailure
    BY <2>16, NoneTyped DEF StopClearFailure, Leave, GotoWith, Goto, TypeInv,
    TypeOK, HoldsSession, Locations, Threads, sessionVars, threadVars,
    rmfVars
  <2>17. CASE TakeFeedback
    <3>1. held["executor"] \in Requests
      BY <2>17, RequestOrNone DEF TakeFeedback, TypeInv, TypeOK, HoldsSession, Threads
    <3>2. sess' \in [Requests -> Session]
      <4>1. sess[held["executor"]] \in Session
        BY <3>1 DEF TypeInv, TypeOK
      <4>2. [sess[held["executor"]] EXCEPT !.pending = None] \in Session
        BY <4>1, NoneTyped, SessionUpdates
      <4>3. QED
        BY <2>17, <4>2 DEF TakeFeedback, TypeInv, TypeOK
    <3>3. sess[held["executor"]].pending \in OrNone
      BY <3>1, SessionFields DEF TypeInv, TypeOK
    <3>4. fed' \in OrNone
      BY <2>17, <3>3 DEF TakeFeedback, TypeInv, TypeOK
    <3>5. QED
      BY <2>17, <3>2, <3>4
         DEF TakeFeedback, Goto, Locations, Threads, TypeInv, TypeOK,
         HoldsSession, rmfVars, sessionVars, threadVars
  <2>18. CASE CallEstimator
    BY <2>18, NoneTyped DEF CallEstimator, Goto, TypeInv, TypeOK,
    HoldsSession, Locations, Threads, sessionVars, threadVars, rmfVars
  <2>19. CASE TakeFailure
    <3>1. replans' \in Nat /\ waiting' \in OrNone
      BY <2>19, NoneTyped DEF TakeFailure, TypeInv, TypeOK
    <3>2. QED
      BY <2>19, <3>1, NoneTyped
         DEF TakeFailure, Leave, GotoWith, Goto, Locations, Threads, TypeInv,
         TypeOK, HoldsSession, rmfVars, sessionVars, threadVars
  <2>20. ASSUME NEW t \in CallbackThreads, CallbackInvalidate(t) PROVE TypeInv'
    BY <2>20, NoneTyped, RecordsTyped DEF CallbackInvalidate, Invalidate,
    Goto, TypeInv, TypeOK, HoldsSession, Locations, Threads, CallbackThreads,
    sessionVars, threadVars, rmfVars
  <2>21. ASSUME NEW t \in CallbackThreads, CallbackReset(t) PROVE TypeInv'
    BY <2>21, NoneTyped DEF CallbackReset, Goto, TypeInv, TypeOK,
    HoldsSession, Locations, Threads, CallbackThreads, sessionVars,
    threadVars, rmfVars
  <2>22. ASSUME NEW t \in CallbackThreads, ReportFinished(t) PROVE TypeInv'
    <3>1. finished' \in [Requests -> Nat]
      BY <2>22, Increment DEF ReportFinished, TypeInv, TypeOK
    <3>2. waiting' \in OrNone
      BY <2>22, NoneTyped DEF ReportFinished, TypeInv, TypeOK
    <3>3. QED
      BY <2>22, <3>1, <3>2
         DEF ReportFinished, Goto, Locations, Threads, CallbackThreads, TypeInv,
         TypeOK, HoldsSession, rmfVars, sessionVars, threadVars
  <2>23. ASSUME NEW t \in CallbackThreads, ReportFailure(t) PROVE TypeInv'
    BY <2>23, NoneTyped DEF ReportFailure, Goto, TypeInv, TypeOK,
    HoldsSession, Locations, Threads, CallbackThreads, sessionVars,
    threadVars, rmfVars
  <2>24. ASSUME NEW t \in CallbackThreads, Return(t) PROVE TypeInv'
    BY <2>24, NoneTyped, RecordsTyped DEF Return, Leave, GotoWith, Goto,
    TypeInv, TypeOK, HoldsSession, Locations, Threads, CallbackThreads,
    sessionVars, threadVars, rmfVars
  <2>25. CASE Tick
    BY <2>25, NoneTyped DEF Tick, GotoWith, Goto, TypeInv, TypeOK,
    HoldsSession, Locations, Threads, sessionVars, threadVars, rmfVars
  <2>26. CASE StatusArrives
    BY <2>26, NoneTyped DEF StatusArrives, Promoted, Alive, GotoWith, Goto,
    TypeInv, TypeOK, HoldsSession, Locations, Threads, sessionVars,
    threadVars, rmfVars
  <2>27. CASE ScanStatus
    <3>1. held["status"] \in Requests
      BY <2>27, RequestOrNone DEF ScanStatus, TypeInv, TypeOK, HoldsSession, Threads
    <3>2. sess' \in [Requests -> Session]
      BY <2>27, RecordsTyped DEF ScanStatus, Invalidate, TypeInv, TypeOK
    <3>3. sess[held["status"]].completion \in OrNone
      BY <3>1, SessionFields DEF TypeInv, TypeOK
    <3>4. EndCallback(held["status"]) \in Callback
      BY <3>1, <3>3, RequestOrNone, CallbackTyped, RecordsTyped DEF EndCallback
    <3>5. cb' \in [CallbackThreads -> Callback]
      BY <2>27, <3>4 DEF ScanStatus, Fire, TypeInv, TypeOK
    <3>6. QED
      BY <2>27, <3>2, <3>5
         DEF ScanStatus, Fire, Goto, CallbackEntry, Locations, Threads, TypeInv,
         TypeOK, HoldsSession, rmfVars, sessionVars, threadVars
  <2>28. CASE FeedbackArrives
    <3>1. Promoted \in OrNone
      BY NoneTyped DEF Promoted, TypeInv, TypeOK
    <3>2. msg' \in Message
      BY <2>28, RequestOrNone, MessageTyped DEF FeedbackArrives
    <3>3. QED
      BY <2>28, <3>1, <3>2
         DEF FeedbackArrives, GotoWith, Goto, Locations, Threads, TypeInv,
         TypeOK, HoldsSession, rmfVars, sessionVars, threadVars
  <2>29. CASE MatchGoal
    <3>1. held["feedback"] \in Requests
      BY <2>29, RequestOrNone DEF MatchGoal, TypeInv, TypeOK, HoldsSession, Threads
    <3>2. sess[held["feedback"]].arrival \in BOOLEAN
      BY <3>1, SessionFields DEF TypeInv, TypeOK
    <3>3. msg' \in Message
      BY <2>29, <3>2, MessageUpdates, RecordsTyped DEF MatchGoal, TypeInv, TypeOK
    <3>4. QED
      BY <2>29, <3>3, NoneTyped
         DEF MatchGoal, Leave, GotoWith, Goto, Locations, Threads, TypeInv,
         TypeOK, HoldsSession, rmfVars, sessionVars, threadVars
  <2>30. CASE StoreReason
    <3>1. PICK b \in BOOLEAN : sess' = [sess EXCEPT ![held["feedback"]].blocked = b]
      BY <2>30 DEF StoreReason
    <3>2. sess' \in [Requests -> Session]
      BY <2>30, <3>1, NoneTyped, SessionUpdates DEF StoreReason, TypeInv, TypeOK
    <3>3. msg' \in Message
      BY <2>30, RecordsTyped DEF StoreReason, TypeInv, TypeOK
    <3>4. QED
      BY <2>30, <3>2, <3>3, NoneTyped
         DEF StoreReason, Leave, GotoWith, Goto, Locations, Threads, TypeInv,
         TypeOK, HoldsSession, rmfVars, sessionVars, threadVars
  <2>31. CASE CheckDone
    BY <2>31, NoneTyped, RecordsTyped DEF CheckDone, Leave, GotoWith, Goto,
    TypeInv, TypeOK, HoldsSession, Locations, Threads, sessionVars,
    threadVars, rmfVars
  <2>32. CASE BufferFeedback
    <3>1. msg.goalId \in OrNone
      BY DEF TypeInv, TypeOK, Message
    <3>2. sess' \in [Requests -> Session]
      BY <2>32, <3>1, SessionUpdates DEF BufferFeedback, TypeInv, TypeOK
    <3>3. msg' \in Message
      BY <2>32, RecordsTyped DEF BufferFeedback
    <3>4. QED
      BY <2>32, <3>2, <3>3, NoneTyped
         DEF BufferFeedback, Leave, GotoWith, Goto, Locations, Threads, TypeInv,
         TypeOK, HoldsSession, rmfVars, sessionVars, threadVars
  <2>33. CASE FollowNewPath
    <3>1. reqs + 1 \in OrNone
      BY <2>33, RequestsAssumption DEF FollowNewPath, MayRequest, TypeInv, TypeOK, OrNone
    <3>2. kind' \in [Requests -> {"none", "path", "empty", "undock", "immediate"}]
      BY <2>33 DEF FollowNewPath, TypeInv, TypeOK
    <3>3. finished' \in [Requests -> Nat]
      BY <2>33 DEF FollowNewPath, TypeInv, TypeOK
    <3>4. QED
      BY <2>33, <3>1, <3>2, <3>3, NoneTyped
         DEF FollowNewPath, GotoWith, Goto, Locations, Threads, TypeInv, TypeOK,
         HoldsSession, rmfVars, sessionVars, threadVars
  <2>34. CASE DockWithoutMotion
    <3>1. reqs + 1 \in OrNone
      BY <2>34, RequestsAssumption DEF DockWithoutMotion, MayRequest, TypeInv, TypeOK, OrNone
    <3>2. kind' \in [Requests -> {"none", "path", "empty", "undock", "immediate"}]
      BY <2>34 DEF DockWithoutMotion, TypeInv, TypeOK
    <3>3. finished' \in [Requests -> Nat]
      BY <2>34, Increment DEF DockWithoutMotion, TypeInv, TypeOK
    <3>4. QED
      BY <2>34, <3>1, <3>2, <3>3, NoneTyped
         DEF DockWithoutMotion, GotoWith, Goto, Locations, Threads, TypeInv,
         TypeOK, HoldsSession, rmfVars, sessionVars, threadVars
  <2>34a. CASE FollowEmptyPath
    <3>1. reqs + 1 \in OrNone
      BY <2>34a, RequestsAssumption DEF FollowEmptyPath, MayRequest, TypeInv, TypeOK, OrNone
    <3>2. kind' \in [Requests -> {"none", "path", "empty", "undock", "immediate"}]
      BY <2>34a DEF FollowEmptyPath, TypeInv, TypeOK
    <3>3. finished' \in [Requests -> Nat]
      BY <2>34a, Increment DEF FollowEmptyPath, TypeInv, TypeOK
    <3>4. QED
      BY <2>34a, <3>1, <3>2, <3>3, NoneTyped
         DEF FollowEmptyPath, GotoWith, Goto, Locations, Threads, TypeInv,
         TypeOK, HoldsSession, rmfVars, sessionVars, threadVars
  <2>35. CASE DockWithUndock
    <3>1. reqs + 1 \in OrNone
      BY <2>35, RequestsAssumption DEF DockWithUndock, MayRequest, TypeInv, TypeOK, OrNone
    <3>2. kind' \in [Requests -> {"none", "path", "empty", "undock", "immediate"}]
      BY <2>35 DEF DockWithUndock, TypeInv, TypeOK
    <3>3. finished' \in [Requests -> Nat]
      BY <2>35 DEF DockWithUndock, TypeInv, TypeOK
    <3>4. QED
      BY <2>35, <3>1, <3>2, <3>3, NoneTyped
         DEF DockWithUndock, GotoWith, Goto, Locations, Threads, TypeInv, TypeOK,
         HoldsSession, rmfVars, sessionVars, threadVars
  <2>36. CASE RmfFreesPlan
    BY <2>36, NoneTyped DEF RmfFreesPlan, TypeInv, TypeOK, HoldsSession,
    Threads, sessionVars, threadVars, rmfVars
  <2>37. CASE Stop
    BY <2>37, NoneTyped DEF Stop, Goto, TypeInv, TypeOK, HoldsSession,
    Locations, Threads, sessionVars, threadVars, rmfVars
  <2>38. ASSUME NEW g \in Requests, RobotDecides(g) PROVE TypeInv'
    <3>1. goal' \in [Requests -> GoalState]
      BY <2>38 DEF RobotDecides, TypeInv, TypeOK, GoalState, AtRobot, Terminal
    <3>2. QED
      BY <2>38, <3>1
         DEF RobotDecides, Goto, Locations, Threads, TypeInv, TypeOK,
         HoldsSession, rmfVars, sessionVars, threadVars
  <2>39. ASSUME NEW g \in Requests, RobotEnds(g) PROVE TypeInv'
    <3>1. goal' \in [Requests -> GoalState]
      BY <2>39 DEF RobotEnds, TypeInv, TypeOK, GoalState, AtRobot, Terminal
    <3>2. QED
      BY <2>39, <3>1
         DEF RobotEnds, Goto, Locations, Threads, TypeInv, TypeOK, HoldsSession,
         rmfVars, sessionVars, threadVars
  <2>40. QED
    BY <1>1, <2>1, <2>2, <2>3, <2>4, <2>5, <2>6, <2>7, <2>8, <2>9, <2>10,
    <2>11, <2>12, <2>13, <2>14, <2>15, <2>16, <2>17, <2>18, <2>19, <2>20,
    <2>21, <2>22, <2>23, <2>24, <2>25, <2>26, <2>27, <2>28, <2>29, <2>30,
    <2>31, <2>32, <2>33, <2>34, <2>34a, <2>35, <2>36, <2>37, <2>38, <2>39 DEF Next,
    ExecutorStep, CallbackStep, StatusStep, FeedbackStep, RmfStep, RobotStep,
    CallbackThreads
<1>2. CASE UNCHANGED vars
  BY <1>2 DEF vars, sessionVars, threadVars, rmfVars, TypeInv, TypeOK, HoldsSession
<1>3. QED
  BY <1>1, <1>2

LEMMA TypeInit == Init => TypeInv
<1> SUFFICES ASSUME Init
             PROVE  TypeInv
  OBVIOUS
<1>1. goal \in [Requests -> GoalState] /\ reqs \in OrNone
  BY RequestsAssumption DEF Init, GoalState, OrNone
<1>2. pc \in [Threads -> Locations]
  BY DEF Init, Locations
<1>3. TypeOK
  BY <1>1, <1>2, NoneTyped, RecordsTyped DEF Init, TypeOK
<1>4. HoldsSession
  BY DEF Init, HoldsSession, Threads
<1>5. QED
  BY <1>3, <1>4 DEF TypeInv

\* Every field of every session, thread and history stays of its type, and a
\* handler that goes on to read a session holds one.
THEOREM TypeCorrect == Spec => []TypeOK
<1>1. TypeInv => TypeOK
  BY DEF TypeInv
<1>2. QED
  BY <1>1, TypeInit, TypeStep, PTL DEF Spec
LEMMA OrNoneNat == \A r \in OrNone : r \in Nat
  BY DEF OrNone

LEMMA InvalidatedFields ==
  /\ Invalidated.completion = None /\ Invalidated.goalId = None
  /\ Invalidated.arrival = FALSE /\ Invalidated.pending = None
  /\ Invalidated.failure = FALSE
  BY DEF Invalidated, NewSession

LEMMA InvalidateFrame ==
  ASSUME TypeInv, NEW s, Invalidate(s)
  PROVE  \A x \in Requests : sess'[x] = sess[x] \/ sess'[x] = Invalidated
  BY DEF Invalidate, TypeInv, TypeOK

SessionPart ==
  /\ \A s \in Requests : sess[s].completion <= reqs
  /\ CompletionMatchesGoal
  /\ ArmedForRequest

LEMMA SessionPartKept ==
  ASSUME TypeInv, CompletionInv, UNCHANGED <<reqs, refused>>,
         pc'["executor"] \in {"send", "await", "refuse"}
           => pc["executor"] \in {"send", "await", "refuse"} /\ held'["executor"] = held["executor"],
         pc'["executor"] = "refuse" => refused[reqs],
         \A s \in Requests :
           \/ /\ sess'[s].completion = sess[s].completion
              /\ sess'[s].goalId = sess[s].goalId
           \/ sess'[s].completion = None
  PROVE  SessionPart'
<1>1. reqs \in Nat
  BY OrNoneNat DEF TypeInv, TypeOK
<1>2. \A s \in Requests : sess'[s].completion <= reqs
  BY <1>1 DEF CompletionInv, FutureUntouched, None
<1>3. CompletionMatchesGoal'
  BY DEF CompletionInv, CompletionMatchesGoal
<1>4. ArmedForRequest'
  BY RequestOrNone
     DEF CompletionInv, ArmedForRequest, TypeInv, TypeOK, HoldsSession,
     Threads
<1>5. QED
  BY <1>2, <1>3, <1>4 DEF SessionPart

LEMMA InvalidateOldCompletion ==
  ASSUME TypeInv, CompletionInv, InvalidateOld
  PROVE  CompletionInv'
<1>1. \A s \in Requests : sess'[s] = sess[s] \/ sess'[s].completion = None
  BY InvalidateFrame, InvalidatedFields DEF InvalidateOld
<1>2. SessionPart'
  BY <1>1, SessionPartKept
     DEF InvalidateOld, ArmedForRequest, CompletionInv, Goto, GotoWith, Fire,
     CallbackEntry, Threads, CallbackThreads, rmfVars, TypeInv, TypeOK
<1>3. QED
  BY <1>2
     DEF InvalidateOld, Goto, SessionPart, CompletionInv, FutureUntouched,
     SendingIsNew, CallbacksTruthful, CompletionTruthful, Truthful, Sending,
     InCallback, Threads, CallbackThreads, TypeInv, TypeOK, sessionVars,
     threadVars, rmfVars

LEMMA CancelInvalidateCompletion ==
  ASSUME TypeInv, CompletionInv, CancelInvalidate
  PROVE  CompletionInv'
<1>1. \A s \in Requests : sess'[s] = sess[s] \/ sess'[s].completion = None
  BY InvalidateFrame, InvalidatedFields DEF CancelInvalidate
<1>2. SessionPart'
  BY <1>1, SessionPartKept
     DEF CancelInvalidate, ArmedForRequest, CompletionInv, Goto, GotoWith,
     Fire, CallbackEntry, Threads, CallbackThreads, rmfVars, TypeInv, TypeOK
<1>3. QED
  BY <1>2
     DEF CancelInvalidate, GotoWith, Goto, SessionPart, CompletionInv,
     FutureUntouched, SendingIsNew, CallbacksTruthful, CompletionTruthful,
     Truthful, Sending, InCallback, Threads, CallbackThreads, TypeInv,
     TypeOK, sessionVars, threadVars, rmfVars

LEMMA StopInvalidateCompletion ==
  ASSUME TypeInv, CompletionInv, StopInvalidate
  PROVE  CompletionInv'
<1>1. \A s \in Requests : sess'[s] = sess[s] \/ sess'[s].completion = None
  BY InvalidateFrame, InvalidatedFields DEF StopInvalidate
<1>2. SessionPart'
  BY <1>1, SessionPartKept
     DEF StopInvalidate, ArmedForRequest, CompletionInv, Goto, GotoWith,
     Fire, CallbackEntry, Threads, CallbackThreads, rmfVars, TypeInv, TypeOK
<1>3. QED
  BY <1>2
     DEF StopInvalidate, Goto, SessionPart, CompletionInv, FutureUntouched,
     SendingIsNew, CallbacksTruthful, CompletionTruthful, Truthful, Sending,
     InCallback, Threads, CallbackThreads, TypeInv, TypeOK, sessionVars,
     threadVars, rmfVars

LEMMA CallbackInvalidateCompletion ==
  ASSUME TypeInv, CompletionInv, NEW t \in CallbackThreads, CallbackInvalidate(t)
  PROVE  CompletionInv'
<1>1. \A s \in Requests : sess'[s] = sess[s] \/ sess'[s].completion = None
  BY InvalidateFrame, InvalidatedFields DEF CallbackInvalidate
<1>2. SessionPart'
  BY <1>1, SessionPartKept
     DEF CallbackInvalidate, ArmedForRequest, CompletionInv, Goto, GotoWith,
     Fire, CallbackEntry, Threads, CallbackThreads, rmfVars, TypeInv, TypeOK
<1>3. QED
  BY <1>2
     DEF CallbackInvalidate, Goto, SessionPart, CompletionInv,
     FutureUntouched, SendingIsNew, CallbacksTruthful, CompletionTruthful,
     Truthful, Sending, InCallback, Threads, CallbackThreads, TypeInv,
     TypeOK, sessionVars, threadVars, rmfVars

LEMMA NoCallbackFields == NoCallback.kind = "none" /\ NoCallback.of = None
  BY DEF NoCallback
LEMMA TakeFeedbackCompletion ==
  ASSUME TypeInv, CompletionInv, TakeFeedback
  PROVE  CompletionInv'
<1>1. \A s \in Requests : sess'[s].completion = sess[s].completion /\ sess'[s].goalId = sess[s].goalId
  BY DEF TakeFeedback, TypeInv, TypeOK, Session
<1>2. SessionPart'
  BY <1>1, SessionPartKept
     DEF TakeFeedback, ArmedForRequest, CompletionInv, Goto, Threads,
     rmfVars, TypeInv, TypeOK
<1>3. QED
  BY <1>2
     DEF TakeFeedback, Goto, SessionPart, CompletionInv, FutureUntouched,
     SendingIsNew, CallbacksTruthful, CompletionTruthful, Truthful, Sending,
     InCallback, Threads, CallbackThreads, TypeInv, TypeOK, sessionVars,
     threadVars, rmfVars

LEMMA ReturnCompletion ==
  ASSUME TypeInv, CompletionInv, NEW t \in CallbackThreads, Return(t)
  PROVE  CompletionInv'
<1>1. SessionPart'
  BY SessionPartKept
     DEF Return, ArmedForRequest, CompletionInv, Leave, GotoWith, Goto,
     Threads, CallbackThreads, rmfVars, sessionVars, TypeInv, TypeOK
<1>2. QED
  BY <1>1, NoCallbackFields
     DEF Return, Leave, Goto, GotoWith, SessionPart, CompletionInv,
     FutureUntouched, SendingIsNew, CallbacksTruthful, CompletionTruthful,
     Truthful, Sending, InCallback, Threads, CallbackThreads, TypeInv,
     TypeOK, sessionVars, threadVars, rmfVars

LEMMA ReportFinishedCompletion ==
  ASSUME TypeInv, CompletionInv, NEW t \in CallbackThreads, ReportFinished(t)
  PROVE  CompletionInv'
<1>1. SessionPart'
  BY SessionPartKept
     DEF ReportFinished, ArmedForRequest, CompletionInv, Goto, Threads,
     CallbackThreads, sessionVars, TypeInv, TypeOK
<1>2. \A r \in Requests : finished'[r] = finished[r] \/ r = cb[t].of
  BY DEF ReportFinished, TypeInv, TypeOK
<1>3. Truthful(cb[t].of) /\ cb[t].of <= reqs /\ (pc["executor"] \in Sending => cb[t].of # reqs)
  BY DEF ReportFinished, CompletionInv, FutureUntouched, SendingIsNew,
  CallbacksTruthful
<1>4. CompletionTruthful'
  BY <1>2, <1>3
     DEF ReportFinished, CompletionInv, CompletionTruthful, Truthful
<1>5. FutureUntouched'
  <2>1. \A r \in Requests : r > reqs => r # cb[t].of
    BY <1>3, OrNoneNat, RequestOrNone DEF TypeInv, TypeOK
  <2>2. QED
    BY <2>1, <1>1, <1>2
       DEF ReportFinished, CompletionInv, FutureUntouched, SessionPart
<1>6. SendingIsNew'
  BY <1>2, <1>3, OrNoneNat, RequestOrNone
     DEF ReportFinished, CompletionInv, SendingIsNew, Sending, Goto, Threads,
     CallbackThreads, TypeInv, TypeOK
<1>7. CallbacksTruthful'
  BY DEF ReportFinished, CompletionInv, CallbacksTruthful, Truthful,
  InCallback, Goto, Threads, CallbackThreads, TypeInv, TypeOK
<1>8. QED
  BY <1>1, <1>4, <1>5, <1>6, <1>7 DEF CompletionInv, SessionPart

LEMMA ScanStatusCompletion ==
  ASSUME TypeInv, CompletionInv, ScanStatus
  PROVE  CompletionInv'
<1>1. \A s \in Requests : sess'[s] = sess[s] \/ sess'[s].completion = None
  BY InvalidateFrame, InvalidatedFields DEF ScanStatus
<1>2. SessionPart'
  BY <1>1, SessionPartKept
     DEF ScanStatus, ArmedForRequest, CompletionInv, Goto, Fire, Threads,
     CallbackThreads, rmfVars, TypeInv, TypeOK
<1>3. ASSUME cb'["status"].kind = "completed", cb' # cb
      PROVE  /\ goal[cb'["status"].of] = "succeeded"
             /\ cb'["status"].of <= reqs
             /\ cb'["status"].of # None
  <2>1. held["status"] \in Requests
    BY RequestOrNone DEF ScanStatus, TypeInv, TypeOK, HoldsSession, Threads
  <2>2. cb'["status"] = EndCallback(held["status"])
    BY <1>3 DEF ScanStatus, Fire, TypeInv, TypeOK, CallbackThreads
  <2>3. QED
    BY <1>3, <2>1, <2>2, NoCallbackFields
       DEF EndCallback, CompletionInv, CompletionMatchesGoal, FutureUntouched
<1>4. cb'["executor"] = cb["executor"] /\ pc'["executor"] = pc["executor"]
  BY DEF ScanStatus, Fire, Goto, TypeInv, TypeOK, CallbackThreads, Threads
<1>5. CallbacksTruthful'
  BY <1>3, <1>4
     DEF ScanStatus, rmfVars, CompletionInv, CallbacksTruthful, Truthful,
     CallbackThreads
<1>6. FutureUntouched'
  BY <1>2, <1>3, <1>4
     DEF ScanStatus, rmfVars, CompletionInv, FutureUntouched,
     CallbackThreads, SessionPart
<1>7. SendingIsNew'
  BY <1>3, <1>4
     DEF ScanStatus, rmfVars, CompletionInv, SendingIsNew, CallbackThreads
<1>8. CompletionTruthful'
  BY DEF ScanStatus, rmfVars, CompletionInv, CompletionTruthful
<1>9. QED
  BY <1>2, <1>5, <1>6, <1>7, <1>8 DEF CompletionInv, SessionPart

LEMMA ExecutePathCompletion ==
  ASSUME TypeInv, CompletionInv, ExecutePath
  PROVE  CompletionInv'
<1>1. SessionPart'
  BY SessionPartKept
     DEF ExecutePath, ArmedForRequest, CompletionInv, Fire, CallbackEntry,
     GotoWith, Goto, Threads, rmfVars, sessionVars, TypeInv, TypeOK
<1>2. reqs # None /\ Truthful(reqs)
  BY DEF ExecutePath, CompletionInv, SendingIsNew, Sending, Truthful
<1>3. reqs <= reqs
  BY OrNoneNat DEF TypeInv, TypeOK
<1>4. UNCHANGED <<reqs, finished, goal, refused>> /\ cb'["status"] = cb["status"]
  BY DEF ExecutePath, rmfVars, Fire, TypeInv, TypeOK, CallbackThreads
<1>5. \/ cb'["executor"] = [kind |-> "completed", of |-> reqs] /\ pc'["executor"] \in InCallback \ Sending
      \/ UNCHANGED cb /\ pc'["executor"] = "arm"
  BY DEF ExecutePath, Fire, CallbackEntry, Goto, GotoWith, TypeInv, TypeOK,
  CallbackThreads, Threads, InCallback, Sending
<1>6. CallbacksTruthful'
  BY <1>2, <1>4, <1>5
     DEF ExecutePath, CompletionInv, CallbacksTruthful, Truthful,
     CallbackThreads, InCallback
<1>7. FutureUntouched'
  BY <1>1, <1>3, <1>4, <1>5
     DEF CompletionInv, FutureUntouched, CallbackThreads, SessionPart
<1>8. SendingIsNew'
  BY <1>4, <1>5
     DEF ExecutePath, CompletionInv, SendingIsNew, CallbackThreads, Sending
<1>9. QED
  BY <1>1, <1>4, <1>6, <1>7, <1>8
     DEF CompletionInv, SessionPart, CompletionTruthful

LEMMA ArmSessionCompletion ==
  ASSUME TypeInv, CompletionInv, ArmSession
  PROVE  CompletionInv'
<1>1. held["executor"] \in Requests
  BY RequestOrNone DEF ArmSession, TypeInv, TypeOK, HoldsSession, Threads
<1>2. /\ sess'[held["executor"]].completion = reqs
      /\ sess'[held["executor"]].goalId = reqs
  BY <1>1 DEF ArmSession, TypeInv, TypeOK, Session
<1>3. \A s \in Requests \ {held["executor"]} : sess'[s] = sess[s]
  BY DEF ArmSession, TypeInv, TypeOK
<1>4. reqs <= reqs
  BY OrNoneNat DEF TypeInv, TypeOK
<1>5. UNCHANGED <<reqs, finished, goal, refused, cb, held>> /\ pc'["executor"] = "send"
  BY DEF ArmSession, rmfVars, Goto, TypeInv, TypeOK, Threads
<1>6. SessionPart'
  BY <1>2, <1>3, <1>4, <1>5
     DEF ArmSession, SendingIsNew, Sending, SessionPart, CompletionInv,
     FutureUntouched, CompletionMatchesGoal, ArmedForRequest
<1>7. FutureUntouched' /\ SendingIsNew' /\ CallbacksTruthful' /\ CompletionTruthful'
  BY <1>5, <1>6
     DEF ArmSession, SessionPart, CompletionInv, FutureUntouched,
     SendingIsNew, CallbacksTruthful, CompletionTruthful, Truthful, Sending,
     InCallback
<1>8. QED
  BY <1>6, <1>7 DEF CompletionInv, SessionPart

LEMMA SendGoalCompletion ==
  ASSUME TypeInv, CompletionInv, SendGoal
  PROVE  CompletionInv'
<1>1. SessionPart'
  BY SessionPartKept
     DEF SendGoal, Goto, Threads, rmfVars, sessionVars, TypeInv, TypeOK
<1>2. UNCHANGED <<reqs, finished, refused, cb>> /\ pc'["executor"] = "await"
  BY DEF SendGoal, rmfVars, Goto, TypeInv, TypeOK, Threads
<1>3. \A r \in Requests : r # reqs => goal'[r] = goal[r]
  BY DEF SendGoal, TypeInv, TypeOK
<1>4. /\ finished[reqs] = 0
      /\ \A t \in CallbackThreads : cb[t].kind = "completed" => cb[t].of # reqs
  BY DEF SendGoal, CompletionInv, SendingIsNew, Sending
<1>5. \A r \in Requests : r > reqs => r # reqs
  BY OrNoneNat DEF TypeInv, TypeOK
<1>6. FutureUntouched'
  BY <1>1, <1>2, <1>3, <1>5 DEF CompletionInv, FutureUntouched, SessionPart
<1>7. CompletionTruthful'
  BY <1>2, <1>3, <1>4 DEF CompletionInv, CompletionTruthful
<1>8. \A r : r # reqs => goal'[r] = goal[r]
  BY DEF SendGoal, TypeInv, TypeOK
<1>9. CallbacksTruthful'
  BY <1>2, <1>4, <1>3, RequestOrNone
     DEF SendGoal, CompletionInv, CallbacksTruthful, Truthful, InCallback,
     TypeInv, TypeOK, Callback
<1>10. SendingIsNew'
  BY <1>2 DEF SendingIsNew, Sending
<1>11. QED
  BY <1>1, <1>6, <1>7, <1>9, <1>10 DEF CompletionInv, SessionPart

LEMMA GoalNotAcceptedCompletion ==
  ASSUME TypeInv, CompletionInv, GoalNotAccepted
  PROVE  CompletionInv'
<1>1. UNCHANGED <<sess, reqs, finished, cb, held>> /\ pc'["executor"] = "refuse"
  BY DEF GoalNotAccepted, sessionVars, Goto, TypeInv, TypeOK, Threads
<1>2. reqs \in Requests => refused'[reqs]
  BY DEF GoalNotAccepted, TypeInv, TypeOK
<1>3. \A r \in Requests : r # reqs => goal'[r] = goal[r] /\ refused'[r] = refused[r]
  BY DEF GoalNotAccepted, TypeInv, TypeOK
<1>4. \A r \in Requests : refused[r] => refused'[r]
  BY <1>2, <1>3
<1>5. \A r \in Requests : r > reqs => r # reqs
  BY OrNoneNat DEF TypeInv, TypeOK
<1>6. FutureUntouched'
  BY <1>1, <1>3, <1>5 DEF CompletionInv, FutureUntouched
<1>7. CompletionTruthful'
  BY <1>1, <1>2, <1>3 DEF CompletionInv, CompletionTruthful
<1>8. \A t \in CallbackThreads : cb[t].of \in OrNone
  BY DEF TypeInv, TypeOK, Callback
<1>9. CallbacksTruthful'
  BY <1>1, <1>2, <1>3, <1>4, <1>8, RequestOrNone
     DEF GoalNotAccepted, CompletionInv, CallbacksTruthful, Truthful,
     InCallback
<1>10. SessionPart'
  BY <1>1, <1>2, RequestOrNone
     DEF GoalNotAccepted, CompletionInv, ArmedForRequest, SessionPart,
     FutureUntouched, CompletionMatchesGoal, TypeInv, TypeOK
<1>11. SendingIsNew'
  BY <1>1 DEF SendingIsNew, Sending
<1>12. QED
  BY <1>6, <1>7, <1>9, <1>10, <1>11 DEF CompletionInv, SessionPart

LEMMA NewRequestCompletion ==
  ASSUME TypeInv, CompletionInv, FollowNewPath \/ DockWithUndock
  PROVE  CompletionInv'
<1>1. /\ reqs \in Nat /\ reqs < MaxRequests /\ reqs' = reqs + 1
      /\ UNCHANGED <<sess, goal, finished, refused, cb>>
      /\ pc'["executor"] \in {"swap", "promote"}
  BY OrNoneNat
     DEF FollowNewPath, DockWithUndock, MayRequest, sessionVars, GotoWith,
     Goto, TypeInv, TypeOK, Threads
<1>2. /\ reqs' \in Requests /\ reqs' > reqs
      /\ \A n \in Nat : (n > reqs' => n > reqs) /\ (n <= reqs => n <= reqs' /\ n # reqs')
  BY <1>1, RequestsAssumption DEF Requests
<1>3. /\ \A s \in Requests : s \in Nat /\ sess[s].completion \in Nat
      /\ \A t \in CallbackThreads : cb[t].of \in Nat
  BY OrNoneNat, RequestOrNone, SessionFields DEF TypeInv, TypeOK, Callback
<1>4. FutureUntouched'
  BY <1>1, <1>2, <1>3 DEF CompletionInv, FutureUntouched
<1>5. SendingIsNew'
  BY <1>1, <1>2, <1>3, RequestOrNone
     DEF CompletionInv, FutureUntouched, SendingIsNew
<1>6. CallbacksTruthful'
  BY <1>1
     DEF FollowNewPath, DockWithUndock, MayRequest, CompletionInv,
     CallbacksTruthful, Truthful, InCallback
<1>7. CompletionMatchesGoal' /\ ArmedForRequest' /\ CompletionTruthful'
  BY <1>1
     DEF CompletionInv, CompletionMatchesGoal, ArmedForRequest,
     CompletionTruthful
<1>8. QED
  BY <1>4, <1>5, <1>6, <1>7 DEF CompletionInv

LEMMA ImmediateCompletion ==
  ASSUME TypeInv, CompletionInv, DockWithoutMotion \/ FollowEmptyPath
  PROVE  CompletionInv'
<1>1. /\ reqs \in Nat /\ reqs < MaxRequests /\ reqs' = reqs + 1
      /\ UNCHANGED <<sess, goal, refused, cb, pc>>
      /\ pc["executor"] = "idle"
  BY OrNoneNat
     DEF DockWithoutMotion, FollowEmptyPath, MayRequest, sessionVars, threadVars, TypeInv,
     TypeOK, Threads
<1>2. /\ reqs' \in Requests /\ reqs' > reqs
      /\ \A n \in Nat : (n > reqs' => n > reqs /\ n # reqs') /\ (n <= reqs => n <= reqs' /\ n # reqs')
  BY <1>1, RequestsAssumption DEF Requests
<1>3. /\ \A s \in Requests : s \in Nat /\ sess[s].completion \in Nat
      /\ \A t \in CallbackThreads : cb[t].of \in Nat
  BY OrNoneNat, RequestOrNone, SessionFields DEF TypeInv, TypeOK, Callback
<1>4. \A r \in Requests : r # reqs' => finished'[r] = finished[r]
  BY <1>1 DEF DockWithoutMotion, FollowEmptyPath, TypeInv, TypeOK
<1>5. FutureUntouched'
  BY <1>1, <1>2, <1>3, <1>4 DEF CompletionInv, FutureUntouched
<1>6. SendingIsNew'
  BY <1>1 DEF SendingIsNew, Sending
<1>7. CallbacksTruthful'
  BY <1>1 DEF CompletionInv, CallbacksTruthful, Truthful, InCallback
<1>8. goal[reqs'] = "unsent"
  BY <1>2 DEF CompletionInv, FutureUntouched
<1>9. CompletionMatchesGoal' /\ ArmedForRequest' /\ CompletionTruthful'
  BY <1>1, <1>4, <1>8
     DEF CompletionInv, CompletionMatchesGoal, ArmedForRequest,
     CompletionTruthful
<1>10. QED
  BY <1>5, <1>6, <1>7, <1>9 DEF CompletionInv

LEMMA CompletionStep == TypeInv /\ CompletionInv /\ [Next]_vars => CompletionInv'
<1> SUFFICES ASSUME TypeInv, CompletionInv, [Next]_vars
             PROVE  CompletionInv'
  OBVIOUS
<1>1. CASE Next
  <2>1. CASE SwapSession
    BY <2>1, RequestOrNone, SessionFields
       DEF CompletionInv, FutureUntouched, SendingIsNew,
       CompletionMatchesGoal, ArmedForRequest, CallbacksTruthful,
       CompletionTruthful, Truthful, Sending, InCallback, Threads,
       CallbackThreads, TypeInv, TypeOK, HoldsSession, None, SwapSession,
       Goto, sessionVars, threadVars, rmfVars
  <2>2. CASE InvalidateOld
    BY <2>2, InvalidateOldCompletion
  <2>3. CASE SupersedeFailure
    BY <2>3, RequestOrNone, SessionFields
       DEF CompletionInv, FutureUntouched, SendingIsNew,
       CompletionMatchesGoal, ArmedForRequest, CallbacksTruthful,
       CompletionTruthful, Truthful, Sending, InCallback, Threads,
       CallbackThreads, TypeInv, TypeOK, HoldsSession, None,
       SupersedeFailure, Goto, sessionVars, threadVars, rmfVars
  <2>4. CASE WireSession
    BY <2>4, RequestOrNone, SessionFields
       DEF CompletionInv, FutureUntouched, SendingIsNew,
       CompletionMatchesGoal, ArmedForRequest, CallbacksTruthful,
       CompletionTruthful, Truthful, Sending, InCallback, Threads,
       CallbackThreads, TypeInv, TypeOK, HoldsSession, None, WireSession,
       Goto, sessionVars, threadVars, rmfVars
  <2>5. CASE ExecutePath
    BY <2>5, ExecutePathCompletion
  <2>6. CASE ArmSession
    BY <2>6, ArmSessionCompletion
  <2>7. CASE SendGoal
    BY <2>7, SendGoalCompletion
  <2>8. CASE GoalAccepted
    BY <2>8, RequestOrNone, SessionFields
       DEF CompletionInv, FutureUntouched, SendingIsNew,
       CompletionMatchesGoal, ArmedForRequest, CallbacksTruthful,
       CompletionTruthful, Truthful, Sending, InCallback, Threads,
       CallbackThreads, TypeInv, TypeOK, HoldsSession, None, GoalAccepted,
       AtRobot, Terminal, Goto, sessionVars, threadVars, rmfVars
  <2>9. CASE GoalNotAccepted
    BY <2>9, GoalNotAcceptedCompletion
  <2>10. CASE RefuseGoal
    BY <2>10, RequestOrNone, SessionFields
       DEF CompletionInv, FutureUntouched, SendingIsNew,
       CompletionMatchesGoal, ArmedForRequest, CallbacksTruthful,
       CompletionTruthful, Truthful, Sending, InCallback, Threads,
       CallbackThreads, TypeInv, TypeOK, HoldsSession, None, RefuseGoal,
       Fire, Goto, CallbackEntry, NoCallback, sessionVars, threadVars,
       rmfVars
  <2>11. CASE CancelPromote
    BY <2>11, RequestOrNone, SessionFields
       DEF CompletionInv, FutureUntouched, SendingIsNew,
       CompletionMatchesGoal, ArmedForRequest, CallbacksTruthful,
       CompletionTruthful, Truthful, Sending, InCallback, Threads,
       CallbackThreads, TypeInv, TypeOK, HoldsSession, None, CancelPromote,
       GotoWith, Goto, Promoted, Alive, sessionVars, threadVars, rmfVars
  <2>12. CASE CancelInvalidate
    BY <2>12, CancelInvalidateCompletion
  <2>13. CASE StopGrab
    BY <2>13, RequestOrNone, SessionFields
       DEF CompletionInv, FutureUntouched, SendingIsNew,
       CompletionMatchesGoal, ArmedForRequest, CallbacksTruthful,
       CompletionTruthful, Truthful, Sending, InCallback, Threads,
       CallbackThreads, TypeInv, TypeOK, HoldsSession, None, StopGrab,
       GotoWith, Goto, sessionVars, threadVars, rmfVars
  <2>14. CASE StopInvalidate
    BY <2>14, StopInvalidateCompletion
  <2>15. CASE StopReset
    BY <2>15, RequestOrNone, SessionFields
       DEF CompletionInv, FutureUntouched, SendingIsNew,
       CompletionMatchesGoal, ArmedForRequest, CallbacksTruthful,
       CompletionTruthful, Truthful, Sending, InCallback, Threads,
       CallbackThreads, TypeInv, TypeOK, HoldsSession, None, StopReset, Goto,
       sessionVars, threadVars, rmfVars
  <2>16. CASE StopClearFailure
    BY <2>16, RequestOrNone, SessionFields
       DEF CompletionInv, FutureUntouched, SendingIsNew,
       CompletionMatchesGoal, ArmedForRequest, CallbacksTruthful,
       CompletionTruthful, Truthful, Sending, InCallback, Threads,
       CallbackThreads, TypeInv, TypeOK, HoldsSession, None,
       StopClearFailure, Leave, GotoWith, Goto, sessionVars, threadVars,
       rmfVars
  <2>17. CASE TakeFeedback
    BY <2>17, TakeFeedbackCompletion
  <2>18. CASE CallEstimator
    BY <2>18, RequestOrNone, SessionFields
       DEF CompletionInv, FutureUntouched, SendingIsNew,
       CompletionMatchesGoal, ArmedForRequest, CallbacksTruthful,
       CompletionTruthful, Truthful, Sending, InCallback, Threads,
       CallbackThreads, TypeInv, TypeOK, HoldsSession, None, CallEstimator,
       Goto, sessionVars, threadVars, rmfVars
  <2>19. CASE TakeFailure
    BY <2>19, RequestOrNone, SessionFields
       DEF CompletionInv, FutureUntouched, SendingIsNew,
       CompletionMatchesGoal, ArmedForRequest, CallbacksTruthful,
       CompletionTruthful, Truthful, Sending, InCallback, Threads,
       CallbackThreads, TypeInv, TypeOK, HoldsSession, None, TakeFailure,
       Leave, GotoWith, Goto, sessionVars, threadVars, rmfVars
  <2>20. ASSUME NEW t \in CallbackThreads, CallbackInvalidate(t) PROVE CompletionInv'
    BY <2>20, CallbackInvalidateCompletion
  <2>21. ASSUME NEW t \in CallbackThreads, CallbackReset(t) PROVE CompletionInv'
    BY <2>21, RequestOrNone, SessionFields
       DEF CompletionInv, FutureUntouched, SendingIsNew,
       CompletionMatchesGoal, ArmedForRequest, CallbacksTruthful,
       CompletionTruthful, Truthful, Sending, InCallback, Threads,
       CallbackThreads, TypeInv, TypeOK, HoldsSession, None, CallbackReset,
       Goto, sessionVars, threadVars, rmfVars
  <2>22. ASSUME NEW t \in CallbackThreads, ReportFinished(t) PROVE CompletionInv'
    BY <2>22, ReportFinishedCompletion
  <2>23. ASSUME NEW t \in CallbackThreads, ReportFailure(t) PROVE CompletionInv'
    BY <2>23, RequestOrNone, SessionFields
       DEF CompletionInv, FutureUntouched, SendingIsNew,
       CompletionMatchesGoal, ArmedForRequest, CallbacksTruthful,
       CompletionTruthful, Truthful, Sending, InCallback, Threads,
       CallbackThreads, TypeInv, TypeOK, HoldsSession, None, ReportFailure,
       Goto, sessionVars, threadVars, rmfVars
  <2>24. ASSUME NEW t \in CallbackThreads, Return(t) PROVE CompletionInv'
    BY <2>24, ReturnCompletion
  <2>25. CASE Tick
    BY <2>25, RequestOrNone, SessionFields
       DEF CompletionInv, FutureUntouched, SendingIsNew,
       CompletionMatchesGoal, ArmedForRequest, CallbacksTruthful,
       CompletionTruthful, Truthful, Sending, InCallback, Threads,
       CallbackThreads, TypeInv, TypeOK, HoldsSession, None, Tick, GotoWith,
       Goto, sessionVars, threadVars, rmfVars
  <2>26. CASE StatusArrives
    BY <2>26, RequestOrNone, SessionFields
       DEF CompletionInv, FutureUntouched, SendingIsNew,
       CompletionMatchesGoal, ArmedForRequest, CallbacksTruthful,
       CompletionTruthful, Truthful, Sending, InCallback, Threads,
       CallbackThreads, TypeInv, TypeOK, HoldsSession, None, StatusArrives,
       Promoted, Alive, GotoWith, Goto, sessionVars, threadVars, rmfVars
  <2>27. CASE ScanStatus
    BY <2>27, ScanStatusCompletion
  <2>28. CASE FeedbackArrives
    BY <2>28, RequestOrNone, SessionFields
       DEF CompletionInv, FutureUntouched, SendingIsNew,
       CompletionMatchesGoal, ArmedForRequest, CallbacksTruthful,
       CompletionTruthful, Truthful, Sending, InCallback, Threads,
       CallbackThreads, TypeInv, TypeOK, HoldsSession, None, FeedbackArrives,
       Promoted, Alive, AtRobot, Terminal, GotoWith, Goto, sessionVars,
       threadVars, rmfVars
  <2>29. CASE MatchGoal
    BY <2>29, RequestOrNone, SessionFields
       DEF CompletionInv, FutureUntouched, SendingIsNew,
       CompletionMatchesGoal, ArmedForRequest, CallbacksTruthful,
       CompletionTruthful, Truthful, Sending, InCallback, Threads,
       CallbackThreads, TypeInv, TypeOK, HoldsSession, None, MatchGoal,
       Leave, GotoWith, Goto, NoMessage, sessionVars, threadVars, rmfVars
  <2>30. CASE StoreReason
    BY <2>30, RequestOrNone, SessionFields
       DEF CompletionInv, FutureUntouched, SendingIsNew,
       CompletionMatchesGoal, ArmedForRequest, CallbacksTruthful,
       CompletionTruthful, Truthful, Sending, InCallback, Threads,
       CallbackThreads, TypeInv, TypeOK, HoldsSession, None, StoreReason,
       Goto, Leave, GotoWith, NoMessage, sessionVars, threadVars, rmfVars
  <2>31. CASE CheckDone
    BY <2>31, RequestOrNone, SessionFields
       DEF CompletionInv, FutureUntouched, SendingIsNew,
       CompletionMatchesGoal, ArmedForRequest, CallbacksTruthful,
       CompletionTruthful, Truthful, Sending, InCallback, Threads,
       CallbackThreads, TypeInv, TypeOK, HoldsSession, None, CheckDone,
       Leave, GotoWith, Goto, NoMessage, sessionVars, threadVars, rmfVars
  <2>32. CASE BufferFeedback
    BY <2>32, RequestOrNone, SessionFields
       DEF CompletionInv, FutureUntouched, SendingIsNew,
       CompletionMatchesGoal, ArmedForRequest, CallbacksTruthful,
       CompletionTruthful, Truthful, Sending, InCallback, Threads,
       CallbackThreads, TypeInv, TypeOK, HoldsSession, None, BufferFeedback,
       Leave, GotoWith, Goto, NoMessage, sessionVars, threadVars, rmfVars
  <2>33. CASE FollowNewPath
    BY <2>33, NewRequestCompletion
  <2>34. CASE DockWithoutMotion
    BY <2>34, ImmediateCompletion
  <2>34a. CASE FollowEmptyPath
    BY <2>34a, ImmediateCompletion
  <2>35. CASE DockWithUndock
    BY <2>35, NewRequestCompletion
  <2>36. CASE RmfFreesPlan
    BY <2>36, RequestOrNone, SessionFields
       DEF CompletionInv, FutureUntouched, SendingIsNew,
       CompletionMatchesGoal, ArmedForRequest, CallbacksTruthful,
       CompletionTruthful, Truthful, Sending, InCallback, Threads,
       CallbackThreads, TypeInv, TypeOK, HoldsSession, None, RmfFreesPlan,
       sessionVars, threadVars, rmfVars
  <2>37. CASE Stop
    BY <2>37, RequestOrNone, SessionFields
       DEF CompletionInv, FutureUntouched, SendingIsNew,
       CompletionMatchesGoal, ArmedForRequest, CallbacksTruthful,
       CompletionTruthful, Truthful, Sending, InCallback, Threads,
       CallbackThreads, TypeInv, TypeOK, HoldsSession, None, Stop, Goto,
       sessionVars, threadVars, rmfVars
  <2>38. ASSUME NEW g \in Requests, RobotDecides(g) PROVE CompletionInv'
    BY <2>38, RequestOrNone, SessionFields
       DEF CompletionInv, FutureUntouched, SendingIsNew,
       CompletionMatchesGoal, ArmedForRequest, CallbacksTruthful,
       CompletionTruthful, Truthful, Sending, InCallback, Threads,
       CallbackThreads, TypeInv, TypeOK, HoldsSession, None, RobotDecides,
       sessionVars, threadVars, rmfVars
  <2>39. ASSUME NEW g \in Requests, RobotEnds(g) PROVE CompletionInv'
    BY <2>39, RequestOrNone, SessionFields
       DEF CompletionInv, FutureUntouched, SendingIsNew,
       CompletionMatchesGoal, ArmedForRequest, CallbacksTruthful,
       CompletionTruthful, Truthful, Sending, InCallback, Threads,
       CallbackThreads, TypeInv, TypeOK, HoldsSession, None, RobotEnds,
       Terminal, sessionVars, threadVars, rmfVars
  <2>40. QED
    BY <1>1, <2>1, <2>2, <2>3, <2>4, <2>5, <2>6, <2>7, <2>8, <2>9, <2>10,
    <2>11, <2>12, <2>13, <2>14, <2>15, <2>16, <2>17, <2>18, <2>19, <2>20,
    <2>21, <2>22, <2>23, <2>24, <2>25, <2>26, <2>27, <2>28, <2>29, <2>30,
    <2>31, <2>32, <2>33, <2>34, <2>34a, <2>35, <2>36, <2>37, <2>38, <2>39
       DEF Next, ExecutorStep, CallbackStep, StatusStep, FeedbackStep,
       RmfStep, RobotStep, CallbackThreads
<1>2. CASE UNCHANGED vars
  BY <1>2
     DEF vars, sessionVars, threadVars, rmfVars, CompletionInv,
     FutureUntouched, SendingIsNew, CompletionMatchesGoal, ArmedForRequest,
     CallbacksTruthful, CompletionTruthful, Truthful, Sending, InCallback,
     Threads, CallbackThreads, TypeInv, TypeOK, HoldsSession, None
<1>3. QED
  BY <1>1, <1>2

LEMMA CompletionInit == Init => CompletionInv
<1> SUFFICES ASSUME Init
             PROVE  CompletionInv
  OBVIOUS
<1>1. TypeInv
  BY TypeInit
<1>2. /\ \A s \in Requests : sess[s].completion = None /\ goal[s] = "unsent" /\ finished[s] = 0
      /\ \A t \in CallbackThreads : cb[t].kind = "none"
      /\ reqs = 0 /\ pc["executor"] = "idle"
  BY NoCallbackFields DEF Init, NewSession, Threads
<1>3. QED
  BY <1>2
     DEF CompletionInv, FutureUntouched, SendingIsNew, CompletionMatchesGoal,
     ArmedForRequest, CallbacksTruthful, CompletionTruthful, Truthful,
     Sending, InCallback, None, CallbackThreads

\* RMF is told that a request is finished only if the robot succeeded with that
\* request's own goal, or execute_path saw the goal not accepted, or no goal
\* was sent: whatever the number of requests, the interleaving of the three
\* threads, the replies lost and the plans stopped or replaced.
THEOREM CompletionIsTruthful == Spec => []CompletionTruthful
<1>1. CompletionInv => CompletionTruthful
  BY DEF CompletionInv
<1>2. QED
  BY <1>1, TypeInit, TypeStep, CompletionInit, CompletionStep, PTL DEF Spec
LEMMA ArmedFields ==
  ASSUME NEW x \in Session, NEW r, NEW b
  PROVE  LET y == [x EXCEPT !.completion = r, !.arrival = b,
                            !.goalId = r, !.done = FALSE]
         IN  y.arrival = b /\ y.goalId = r /\ y.pending = x.pending
  BY DEF Session


LEMMA SwapSessionEstimator ==
  ASSUME TypeInv, CompletionInv, EstimatorInv, SwapSession
  PROVE  EstimatorInv'
<1>1. /\ UNCHANGED <<sess, wp, held, cb, msg, fed, kind, reqs, plan, finished>>
      /\ pc'["executor"] \in {"supersede", "invalidateOld"}
      /\ pc'["status"] = pc["status"] /\ pc'["feedback"] = pc["feedback"]
  BY DEF SwapSession, rmfVars, Goto, TypeInv, TypeOK, Threads
<1>2. cur' = reqs /\ plan = reqs /\ kind[reqs] = "path" /\ held["executor"] = reqs
  BY DEF SwapSession, EstimatorInv, PathHoldsItsSession, Sending
<1>3. /\ finished[reqs] = 0
      /\ \A t \in CallbackThreads : cb[t] # [kind |-> "completed", of |-> reqs]
  BY DEF SwapSession, CompletionInv, SendingIsNew, Sending
<1>4. LeftBeforeReport'
  BY <1>1, <1>2, <1>3 DEF LeftBeforeReport
<1>5. PathHoldsItsSession' /\ ArrivalOwnGoal' /\ MessageOwnGoal' /\ FutureKind'
  BY <1>1, <1>2
     DEF EstimatorInv, PathHoldsItsSession, ArrivalOwnGoal, MessageOwnGoal,
     FutureKind
<1>6. ActiveIsPlan'
  BY <1>1, <1>2 DEF EstimatorInv, ActiveIsPlan, PlanOrReplaced, ReplacedByEmpty, Later
<1>7. QED
  BY <1>4, <1>5, <1>6 DEF EstimatorInv

LEMMA ArmSessionEstimator ==
  ASSUME TypeInv, CompletionInv, EstimatorInv, ArmSession
  PROVE  EstimatorInv'
<1>1. held["executor"] \in Requests
  BY RequestOrNone DEF ArmSession, TypeInv, TypeOK, HoldsSession, Threads
<1>2. /\ sess'[held["executor"]].arrival => kind[reqs] = "path"
      /\ sess'[held["executor"]].goalId = reqs
      /\ sess'[held["executor"]].pending = sess[held["executor"]].pending
  <2> DEFINE x == sess[held["executor"]]
             y == [x EXCEPT !.completion = reqs,
                            !.arrival = (kind[reqs] = "path"),
                            !.goalId = reqs,
                            !.done = FALSE]
  <2>1. x \in Session /\ sess'[held["executor"]] = y
    BY <1>1 DEF ArmSession, TypeInv, TypeOK
  <2>2. y.arrival = (kind[reqs] = "path") /\ y.goalId = reqs /\ y.pending = x.pending
    BY <2>1, ArmedFields
  <2> HIDE DEF x, y
  <2>3. QED
    BY <2>1, <2>2 DEF x
<1>3. \A s \in Requests \ {held["executor"]} : sess'[s] = sess[s]
  BY DEF ArmSession, TypeInv, TypeOK
<1>4. kind[reqs] = "path" => held["executor"] = reqs
  BY DEF ArmSession, EstimatorInv, PathHoldsItsSession, Sending
<1>5. ArrivalOwnGoal'
  BY <1>2, <1>3, <1>4 DEF EstimatorInv, ArrivalOwnGoal
<1>6. /\ UNCHANGED <<cur, wp, held, cb, msg, fed, kind, reqs, plan, finished>>
      /\ pc'["executor"] = "send"
      /\ pc'["status"] = pc["status"] /\ pc'["feedback"] = pc["feedback"]
  BY DEF ArmSession, rmfVars, Goto, TypeInv, TypeOK, Threads
<1>7. PathHoldsItsSession' /\ MessageOwnGoal' /\ FutureKind' /\ ActiveIsPlan'
  BY <1>6
     DEF ArmSession, EstimatorInv, PathHoldsItsSession, Sending,
     MessageOwnGoal, FutureKind, ActiveIsPlan, PlanOrReplaced, ReplacedByEmpty, Later, Stopping
<1>8. LeftBeforeReport'
  BY <1>6 DEF EstimatorInv, LeftBeforeReport, CallbackThreads
<1>9. QED
  BY <1>5, <1>7, <1>8 DEF EstimatorInv

LEMMA TakeFeedbackEstimator ==
  ASSUME TypeInv, CompletionInv, EstimatorInv, TakeFeedback
  PROVE  EstimatorInv'
<1>1. held["executor"] \in Requests
  BY RequestOrNone DEF TakeFeedback, TypeInv, TypeOK, HoldsSession, Threads
<1>2. \A s \in Requests :
        /\ sess'[s].arrival = sess[s].arrival /\ sess'[s].goalId = sess[s].goalId
        /\ sess'[s].pending \in {None, sess[s].pending}
  BY DEF TakeFeedback, TypeInv, TypeOK, Session
<1>3. ArrivalOwnGoal'
  BY <1>2 DEF EstimatorInv, ArrivalOwnGoal
<1>4. /\ UNCHANGED <<cur, wp, held, cb, msg, kind, reqs, plan, finished>>
      /\ pc'["executor"] \in {"tickFailure", "tickEstimate"}
      /\ pc'["status"] = pc["status"] /\ pc'["feedback"] = pc["feedback"]
  BY DEF TakeFeedback, rmfVars, Goto, TypeInv, TypeOK, Threads
<1>5. pc'["executor"] = "tickEstimate" => fed' = held["executor"]
  BY <1>1
     DEF TakeFeedback, Goto, TypeInv, TypeOK, Threads, EstimatorInv,
     ArrivalOwnGoal
<1>6. ActiveIsPlan'
  BY <1>4, <1>5 DEF TakeFeedback, EstimatorInv, ActiveIsPlan, PlanOrReplaced, ReplacedByEmpty, Later, Stopping
<1>7. PathHoldsItsSession' /\ MessageOwnGoal' /\ FutureKind'
  BY <1>4
     DEF TakeFeedback, EstimatorInv, PathHoldsItsSession, Sending,
     MessageOwnGoal, FutureKind
<1>8. LeftBeforeReport'
  BY <1>4 DEF EstimatorInv, LeftBeforeReport, CallbackThreads
<1>9. QED
  BY <1>3, <1>6, <1>7, <1>8 DEF EstimatorInv

LEMMA ReportFinishedEstimator ==
  ASSUME TypeInv, CompletionInv, EstimatorInv,
         NEW t \in CallbackThreads, ReportFinished(t)
  PROVE  EstimatorInv'
<1>1. cb[t] = [kind |-> "completed", of |-> cb[t].of]
  BY DEF ReportFinished, TypeInv, TypeOK, Callback
<1>2. /\ UNCHANGED <<sess, cur, wp, held, cb, msg, fed, kind, reqs, plan>>
      /\ pc'[t] = "return"
      /\ \A u \in Threads \ {t} : pc'[u] = pc[u]
  BY DEF ReportFinished, sessionVars, Goto, TypeInv, TypeOK, Threads,
  CallbackThreads
<1>3. \A r \in Requests : finished'[r] = finished[r] \/ r = cb[t].of
  BY DEF ReportFinished, TypeInv, TypeOK
<1>4. LeftBeforeReport'
  BY <1>1, <1>2, <1>3
     DEF ReportFinished, EstimatorInv, LeftBeforeReport, CallbackThreads,
     Threads
<1>5. ActiveIsPlan'
  BY <1>2
     DEF ReportFinished, EstimatorInv, ActiveIsPlan, PlanOrReplaced, ReplacedByEmpty, Later, Stopping,
     CallbackThreads, Threads
<1>6. PathHoldsItsSession' /\ ArrivalOwnGoal' /\ MessageOwnGoal' /\ FutureKind'
  BY <1>2
     DEF ReportFinished, EstimatorInv, PathHoldsItsSession, Sending,
     ArrivalOwnGoal, MessageOwnGoal, FutureKind, CallbackThreads, Threads
<1>7. QED
  BY <1>4, <1>5, <1>6 DEF EstimatorInv

LEMMA MatchGoalEstimator ==
  ASSUME TypeInv, CompletionInv, EstimatorInv, MatchGoal
  PROVE  EstimatorInv'
<1>1. held["feedback"] \in Requests
  BY RequestOrNone DEF MatchGoal, TypeInv, TypeOK, HoldsSession, Threads
<1>2. UNCHANGED <<sess, cur, wp, cb, fed, kind, reqs, plan, finished>>
  BY DEF MatchGoal, sessionVars, rmfVars
<1>3. /\ pc'["executor"] = pc["executor"] /\ pc'["status"] = pc["status"]
      /\ held'["executor"] = held["executor"] /\ held'["status"] = held["status"]
      /\ pc'["feedback"] \in {"idle", "reason"}
  BY DEF MatchGoal, Leave, GotoWith, Goto, TypeInv, TypeOK, Threads
<1>4. ASSUME pc'["feedback"] = "reason", msg'.arrival
      PROVE  msg'.goalId = held'["feedback"]
  <2>1. /\ sess[held["feedback"]].goalId = msg.goalId /\ UNCHANGED held
        /\ msg' = [msg EXCEPT !.arrival = sess[held["feedback"]].arrival]
    BY <1>4 DEF MatchGoal, Leave, GotoWith, Goto, TypeInv, TypeOK, Threads
  <2>2. msg'.goalId = msg.goalId /\ msg'.arrival = sess[held["feedback"]].arrival
    BY <2>1 DEF TypeInv, TypeOK, Message
  <2>3. QED
    BY <1>1, <1>4, <2>1, <2>2 DEF EstimatorInv, ArrivalOwnGoal
<1>5. MessageOwnGoal'
  BY <1>3, <1>4 DEF MessageOwnGoal
<1>6. LeftBeforeReport'
  BY <1>2, <1>3 DEF EstimatorInv, LeftBeforeReport, CallbackThreads
<1>7. PathHoldsItsSession' /\ ArrivalOwnGoal' /\ FutureKind' /\ ActiveIsPlan'
  BY <1>2, <1>3
     DEF EstimatorInv, PathHoldsItsSession, ArrivalOwnGoal, FutureKind,
     ActiveIsPlan, PlanOrReplaced, ReplacedByEmpty, Later
<1>8. QED
  BY <1>5, <1>6, <1>7 DEF EstimatorInv

LEMMA RequestEstimator ==
  ASSUME TypeInv, CompletionInv, EstimatorInv,
         FollowNewPath \/ FollowEmptyPath \/ DockWithoutMotion \/ DockWithUndock
  PROVE  EstimatorInv'
<1>1. /\ reqs \in Nat /\ reqs < MaxRequests /\ reqs' = reqs + 1
      /\ UNCHANGED <<sess, cur, wp, cb, msg, fed>>
      /\ pc["executor"] = "idle"
      /\ pc'["status"] = pc["status"] /\ pc'["feedback"] = pc["feedback"]
      /\ held'["feedback"] = held["feedback"]
  BY OrNoneNat
     DEF FollowNewPath, FollowEmptyPath, DockWithoutMotion, DockWithUndock, MayRequest,
     sessionVars, threadVars, GotoWith, Goto, TypeInv, TypeOK, Threads
<1>2. /\ reqs' \in Requests /\ reqs' > reqs
      /\ \A n \in Nat : n > reqs' => n > reqs /\ n # reqs'
      /\ \A n \in Nat : n <= reqs => n # reqs'
  BY <1>1, RequestsAssumption DEF Requests
<1>3. \A r \in Requests : r # reqs' => kind'[r] = kind[r] /\ finished'[r] = finished[r]
  BY <1>1
     DEF FollowNewPath, FollowEmptyPath, DockWithoutMotion, DockWithUndock, TypeInv, TypeOK
<1>4. /\ kind[reqs'] = "none" /\ finished[reqs'] = 0
      /\ \A t \in CallbackThreads : cb[t] # [kind |-> "completed", of |-> reqs']
  BY <1>1, <1>2, OrNoneNat
     DEF EstimatorInv, FutureKind, CompletionInv, FutureUntouched, TypeInv,
     TypeOK, Callback
<1>5. FutureKind'
  BY <1>1, <1>2, <1>3, OrNoneNat, RequestOrNone DEF EstimatorInv, FutureKind
<1>6. /\ \/ kind'[reqs'] = "path" /\ plan' = reqs' /\ finished' = finished /\ pc'["executor"] = "swap" /\ held'["executor"] = reqs'
         \/ kind'[reqs'] = "undock" /\ plan' = plan /\ finished' = finished /\ pc'["executor"] = "promote"
         \/ kind'[reqs'] = "empty" /\ plan' = reqs' /\ pc'["executor"] = "idle" /\ held' = held
         \/ kind'[reqs'] = "immediate" /\ plan' = plan /\ pc'["executor"] = "idle" /\ held' = held
  BY <1>1, <1>2
     DEF FollowNewPath, FollowEmptyPath, DockWithoutMotion, DockWithUndock, threadVars,
     GotoWith, Goto, TypeInv, TypeOK, Threads
<1>7. LeftBeforeReport'
  BY <1>1, <1>3, <1>4, <1>6
     DEF EstimatorInv, LeftBeforeReport, CallbackThreads
<1>8. ArrivalOwnGoal' /\ MessageOwnGoal'
  BY <1>1 DEF EstimatorInv, ArrivalOwnGoal, MessageOwnGoal
<1>9. PathHoldsItsSession'
  BY <1>6 DEF PathHoldsItsSession, Sending
<1>10. \A s \in Requests : kind[s] = "path" => s # reqs' /\ s <= reqs'
  BY <1>1, <1>2, <1>4, RequestOrNone, OrNoneNat DEF EstimatorInv, FutureKind
<1>11. plan # None => plan # reqs' /\ plan \in Requests /\ plan <= reqs'
  BY <1>1, <1>2, <1>4, RequestOrNone, OrNoneNat
     DEF EstimatorInv, ActiveIsPlan, FutureKind, TypeInv, TypeOK
<1>12. \A r \in Requests : r > reqs' => kind'[r] = "none"
  BY <1>5 DEF FutureKind
<1>13. cur # None => cur \in Requests /\ kind[cur] = "path" /\ PlanOrReplaced(cur)
  BY <1>1, RequestOrNone
     DEF EstimatorInv, ActiveIsPlan, Stopping, TypeInv, TypeOK
<1>14. ActiveIsPlan'
  <2>1. plan' # None => /\ kind'[plan'] \in {"path", "empty"}
                        /\ \A r \in Later(plan') : kind'[r] # "path"
    BY <1>3, <1>6, <1>11, <1>12 DEF EstimatorInv, ActiveIsPlan, Later
  <2>2. cur' # None => kind'[cur'] = "path"
    BY <1>1, <1>3, <1>10, <1>13
  <2>3. ASSUME pc'["executor"] \notin {"swap"}, cur # None
        PROVE  PlanOrReplaced(cur)'
    <3>1. CASE kind'[reqs'] = "empty" /\ plan' = reqs'
      <4>1. \A r \in Later(cur) : kind[r] # "path"
        BY <1>13, <2>3 DEF PlanOrReplaced, ReplacedByEmpty, EstimatorInv, ActiveIsPlan
      <4>2. reqs' > cur /\ cur \in Requests
        <5>1. cur \in Requests /\ cur # reqs' /\ cur <= reqs'
          BY <1>10, <1>13, <2>3
        <5>2. cur \in Nat /\ reqs' \in Nat
          BY <1>1, <5>1, RequestsAssumption DEF Requests
        <5>3. QED
          BY <5>1, <5>2
      <4>3. QED
        BY <1>1, <1>2, <1>3, <3>1, <4>1, <4>2 DEF PlanOrReplaced, ReplacedByEmpty, Later
    <3>2. CASE kind'[reqs'] \in {"undock", "immediate"} /\ plan' = plan
      BY <1>1, <1>3, <1>4, <1>13, <2>3, <3>2 DEF PlanOrReplaced, ReplacedByEmpty, Later
    <3>3. QED
      BY <1>6, <2>3, <3>1, <3>2
  <2>4. pc'["executor"] \notin {"tickTake", "tickEstimate"}
    BY <1>6
  <2>5. QED
    BY <1>1, <2>1, <2>2, <2>3, <2>4 DEF ActiveIsPlan
<1>15. QED
  BY <1>5, <1>7, <1>8, <1>9, <1>14 DEF EstimatorInv

LEMMA EstimatorStep == TypeInv /\ CompletionInv /\ EstimatorInv /\ [Next]_vars => EstimatorInv'
<1> SUFFICES ASSUME TypeInv, CompletionInv, EstimatorInv, [Next]_vars
             PROVE  EstimatorInv'
  OBVIOUS
<1>1. CASE Next
  <2>1. CASE SwapSession
    BY <2>1, SwapSessionEstimator
  <2>2. CASE InvalidateOld
    BY <2>2, RequestOrNone, SessionFields
       DEF InvalidateOld, Invalidate, Invalidated, NewSession, Goto,
       sessionVars, threadVars, rmfVars, EstimatorInv, FutureKind,
       PathHoldsItsSession, ArrivalOwnGoal, MessageOwnGoal, LeftBeforeReport,
       ActiveIsPlan, PlanOrReplaced, ReplacedByEmpty, Later, Stopping, Sending, Threads, CallbackThreads, TypeInv,
       TypeOK, HoldsSession, None
  <2>3. CASE SupersedeFailure
    BY <2>3, RequestOrNone, SessionFields
       DEF SupersedeFailure, Goto, sessionVars, threadVars, rmfVars,
       EstimatorInv, FutureKind, PathHoldsItsSession, ArrivalOwnGoal,
       MessageOwnGoal, LeftBeforeReport, ActiveIsPlan, PlanOrReplaced, ReplacedByEmpty, Later, Stopping, Sending,
       Threads, CallbackThreads, TypeInv, TypeOK, HoldsSession, None
  <2>4. CASE WireSession
    BY <2>4, RequestOrNone, SessionFields
       DEF WireSession, Goto, sessionVars, threadVars, rmfVars, EstimatorInv,
       FutureKind, PathHoldsItsSession, ArrivalOwnGoal, MessageOwnGoal,
       LeftBeforeReport, ActiveIsPlan, PlanOrReplaced, ReplacedByEmpty, Later, Stopping, Sending, Threads,
       CallbackThreads, TypeInv, TypeOK, HoldsSession, None
  <2>5. CASE ExecutePath
    BY <2>5, RequestOrNone, SessionFields
       DEF ExecutePath, Promoted, Alive, Fire, Goto, CallbackEntry, GotoWith,
       sessionVars, threadVars, rmfVars, EstimatorInv, FutureKind,
       PathHoldsItsSession, ArrivalOwnGoal, MessageOwnGoal, LeftBeforeReport,
       ActiveIsPlan, PlanOrReplaced, ReplacedByEmpty, Later, Stopping, Sending, Threads, CallbackThreads, TypeInv,
       TypeOK, HoldsSession, None
  <2>6. CASE ArmSession
    BY <2>6, ArmSessionEstimator
  <2>7. CASE SendGoal
    BY <2>7, RequestOrNone, SessionFields
       DEF SendGoal, Goto, sessionVars, threadVars, rmfVars, EstimatorInv,
       FutureKind, PathHoldsItsSession, ArrivalOwnGoal, MessageOwnGoal,
       LeftBeforeReport, ActiveIsPlan, PlanOrReplaced, ReplacedByEmpty, Later, Stopping, Sending, Threads,
       CallbackThreads, TypeInv, TypeOK, HoldsSession, None
  <2>8. CASE GoalAccepted
    BY <2>8, RequestOrNone, SessionFields
       DEF GoalAccepted, AtRobot, Terminal, Goto, sessionVars, threadVars,
       rmfVars, EstimatorInv, FutureKind, PathHoldsItsSession,
       ArrivalOwnGoal, MessageOwnGoal, LeftBeforeReport, ActiveIsPlan, PlanOrReplaced, ReplacedByEmpty, Later,
       Stopping, Sending, Threads, CallbackThreads, TypeInv, TypeOK,
       HoldsSession, None
  <2>9. CASE GoalNotAccepted
    BY <2>9, RequestOrNone, SessionFields
       DEF GoalNotAccepted, AtRobot, Terminal, Goto, sessionVars, threadVars,
       rmfVars, EstimatorInv, FutureKind, PathHoldsItsSession,
       ArrivalOwnGoal, MessageOwnGoal, LeftBeforeReport, ActiveIsPlan, PlanOrReplaced, ReplacedByEmpty, Later,
       Stopping, Sending, Threads, CallbackThreads, TypeInv, TypeOK,
       HoldsSession, None
  <2>10. CASE RefuseGoal
    BY <2>10, RequestOrNone, SessionFields
       DEF RefuseGoal, Fire, Goto, CallbackEntry, NoCallback, sessionVars,
       threadVars, rmfVars, EstimatorInv, FutureKind, PathHoldsItsSession,
       ArrivalOwnGoal, MessageOwnGoal, LeftBeforeReport, ActiveIsPlan, PlanOrReplaced, ReplacedByEmpty, Later,
       Stopping, Sending, Threads, CallbackThreads, TypeInv, TypeOK,
       HoldsSession, None
  <2>11. CASE CancelPromote
    BY <2>11, RequestOrNone, SessionFields
       DEF CancelPromote, GotoWith, Goto, Promoted, Alive, sessionVars,
       threadVars, rmfVars, EstimatorInv, FutureKind, PathHoldsItsSession,
       ArrivalOwnGoal, MessageOwnGoal, LeftBeforeReport, ActiveIsPlan, PlanOrReplaced, ReplacedByEmpty, Later,
       Stopping, Sending, Threads, CallbackThreads, TypeInv, TypeOK,
       HoldsSession, None
  <2>12. CASE CancelInvalidate
    BY <2>12, RequestOrNone, SessionFields
       DEF CancelInvalidate, Invalidate, Invalidated, NewSession, GotoWith,
       Goto, sessionVars, threadVars, rmfVars, EstimatorInv, FutureKind,
       PathHoldsItsSession, ArrivalOwnGoal, MessageOwnGoal, LeftBeforeReport,
       ActiveIsPlan, PlanOrReplaced, ReplacedByEmpty, Later, Stopping, Sending, Threads, CallbackThreads, TypeInv,
       TypeOK, HoldsSession, None
  <2>13. CASE StopGrab
    BY <2>13, RequestOrNone, SessionFields
       DEF StopGrab, GotoWith, Goto, sessionVars, threadVars, rmfVars,
       EstimatorInv, FutureKind, PathHoldsItsSession, ArrivalOwnGoal,
       MessageOwnGoal, LeftBeforeReport, ActiveIsPlan, PlanOrReplaced, ReplacedByEmpty, Later, Stopping, Sending,
       Threads, CallbackThreads, TypeInv, TypeOK, HoldsSession, None
  <2>14. CASE StopInvalidate
    BY <2>14, RequestOrNone, SessionFields
       DEF StopInvalidate, Invalidate, Invalidated, NewSession, Goto,
       sessionVars, threadVars, rmfVars, EstimatorInv, FutureKind,
       PathHoldsItsSession, ArrivalOwnGoal, MessageOwnGoal, LeftBeforeReport,
       ActiveIsPlan, PlanOrReplaced, ReplacedByEmpty, Later, Stopping, Sending, Threads, CallbackThreads, TypeInv,
       TypeOK, HoldsSession, None
  <2>15. CASE StopReset
    BY <2>15, RequestOrNone, SessionFields
       DEF StopReset, Goto, sessionVars, threadVars, rmfVars, EstimatorInv,
       FutureKind, PathHoldsItsSession, ArrivalOwnGoal, MessageOwnGoal,
       LeftBeforeReport, ActiveIsPlan, PlanOrReplaced, ReplacedByEmpty, Later, Stopping, Sending, Threads,
       CallbackThreads, TypeInv, TypeOK, HoldsSession, None
  <2>16. CASE StopClearFailure
    BY <2>16, RequestOrNone, SessionFields
       DEF StopClearFailure, Leave, GotoWith, Goto, sessionVars, threadVars,
       rmfVars, EstimatorInv, FutureKind, PathHoldsItsSession,
       ArrivalOwnGoal, MessageOwnGoal, LeftBeforeReport, ActiveIsPlan, PlanOrReplaced, ReplacedByEmpty, Later,
       Stopping, Sending, Threads, CallbackThreads, TypeInv, TypeOK,
       HoldsSession, None
  <2>17. CASE TakeFeedback
    BY <2>17, TakeFeedbackEstimator
  <2>18. CASE CallEstimator
    BY <2>18, RequestOrNone, SessionFields
       DEF CallEstimator, Goto, sessionVars, threadVars, rmfVars,
       EstimatorInv, FutureKind, PathHoldsItsSession, ArrivalOwnGoal,
       MessageOwnGoal, LeftBeforeReport, ActiveIsPlan, PlanOrReplaced, ReplacedByEmpty, Later, Stopping, Sending,
       Threads, CallbackThreads, TypeInv, TypeOK, HoldsSession, None
  <2>19. CASE TakeFailure
    BY <2>19, RequestOrNone, SessionFields
       DEF TakeFailure, Leave, GotoWith, Goto, sessionVars, threadVars,
       rmfVars, EstimatorInv, FutureKind, PathHoldsItsSession,
       ArrivalOwnGoal, MessageOwnGoal, LeftBeforeReport, ActiveIsPlan, PlanOrReplaced, ReplacedByEmpty, Later,
       Stopping, Sending, Threads, CallbackThreads, TypeInv, TypeOK,
       HoldsSession, None
  <2>20. ASSUME NEW t \in CallbackThreads, CallbackInvalidate(t) PROVE EstimatorInv'
    BY <2>20, RequestOrNone, SessionFields
       DEF CallbackInvalidate, Invalidate, Invalidated, NewSession, Goto,
       sessionVars, threadVars, rmfVars, EstimatorInv, FutureKind,
       PathHoldsItsSession, ArrivalOwnGoal, MessageOwnGoal, LeftBeforeReport,
       ActiveIsPlan, PlanOrReplaced, ReplacedByEmpty, Later, Stopping, Sending, Threads, CallbackThreads, TypeInv,
       TypeOK, HoldsSession, None
  <2>21. ASSUME NEW t \in CallbackThreads, CallbackReset(t) PROVE EstimatorInv'
    BY <2>21, RequestOrNone, SessionFields
       DEF CallbackReset, Goto, sessionVars, threadVars, rmfVars,
       EstimatorInv, FutureKind, PathHoldsItsSession, ArrivalOwnGoal,
       MessageOwnGoal, LeftBeforeReport, ActiveIsPlan, PlanOrReplaced, ReplacedByEmpty, Later, Stopping, Sending,
       Threads, CallbackThreads, TypeInv, TypeOK, HoldsSession, None
  <2>22. ASSUME NEW t \in CallbackThreads, ReportFinished(t) PROVE EstimatorInv'
    BY <2>22, ReportFinishedEstimator
  <2>23. ASSUME NEW t \in CallbackThreads, ReportFailure(t) PROVE EstimatorInv'
    BY <2>23, RequestOrNone, SessionFields
       DEF ReportFailure, Goto, sessionVars, threadVars, rmfVars,
       EstimatorInv, FutureKind, PathHoldsItsSession, ArrivalOwnGoal,
       MessageOwnGoal, LeftBeforeReport, ActiveIsPlan, PlanOrReplaced, ReplacedByEmpty, Later, Stopping, Sending,
       Threads, CallbackThreads, TypeInv, TypeOK, HoldsSession, None
  <2>24. ASSUME NEW t \in CallbackThreads, Return(t) PROVE EstimatorInv'
    BY <2>24, RequestOrNone, SessionFields
       DEF Return, Leave, GotoWith, Goto, NoCallback, sessionVars,
       threadVars, rmfVars, EstimatorInv, FutureKind, PathHoldsItsSession,
       ArrivalOwnGoal, MessageOwnGoal, LeftBeforeReport, ActiveIsPlan, PlanOrReplaced, ReplacedByEmpty, Later,
       Stopping, Sending, Threads, CallbackThreads, TypeInv, TypeOK,
       HoldsSession, None
  <2>25. CASE Tick
    BY <2>25, RequestOrNone, SessionFields
       DEF Tick, GotoWith, Goto, sessionVars, threadVars, rmfVars,
       EstimatorInv, FutureKind, PathHoldsItsSession, ArrivalOwnGoal,
       MessageOwnGoal, LeftBeforeReport, ActiveIsPlan, PlanOrReplaced, ReplacedByEmpty, Later, Stopping, Sending,
       Threads, CallbackThreads, TypeInv, TypeOK, HoldsSession, None
  <2>26. CASE StatusArrives
    BY <2>26, RequestOrNone, SessionFields
       DEF StatusArrives, Promoted, Alive, GotoWith, Goto, sessionVars,
       threadVars, rmfVars, EstimatorInv, FutureKind, PathHoldsItsSession,
       ArrivalOwnGoal, MessageOwnGoal, LeftBeforeReport, ActiveIsPlan, PlanOrReplaced, ReplacedByEmpty, Later,
       Stopping, Sending, Threads, CallbackThreads, TypeInv, TypeOK,
       HoldsSession, None
  <2>27. CASE ScanStatus
    BY <2>27, RequestOrNone, SessionFields
       DEF ScanStatus, Terminal, Fire, Goto, CallbackEntry, EndCallback,
       NoCallback, Invalidate, Invalidated, NewSession, sessionVars,
       threadVars, rmfVars, EstimatorInv, FutureKind, PathHoldsItsSession,
       ArrivalOwnGoal, MessageOwnGoal, LeftBeforeReport, ActiveIsPlan, PlanOrReplaced, ReplacedByEmpty, Later,
       Stopping, Sending, Threads, CallbackThreads, TypeInv, TypeOK,
       HoldsSession, None
  <2>28. CASE FeedbackArrives
    BY <2>28, RequestOrNone, SessionFields
       DEF FeedbackArrives, Promoted, Alive, AtRobot, Terminal, GotoWith,
       Goto, sessionVars, threadVars, rmfVars, EstimatorInv, FutureKind,
       PathHoldsItsSession, ArrivalOwnGoal, MessageOwnGoal, LeftBeforeReport,
       ActiveIsPlan, PlanOrReplaced, ReplacedByEmpty, Later, Stopping, Sending, Threads, CallbackThreads, TypeInv,
       TypeOK, HoldsSession, None
  <2>29. CASE MatchGoal
    BY <2>29, MatchGoalEstimator
  <2>30. CASE StoreReason
    BY <2>30, RequestOrNone, SessionFields
       DEF StoreReason, Goto, Leave, GotoWith, NoMessage, sessionVars,
       threadVars, rmfVars, EstimatorInv, FutureKind, PathHoldsItsSession,
       ArrivalOwnGoal, MessageOwnGoal, LeftBeforeReport, ActiveIsPlan, PlanOrReplaced, ReplacedByEmpty, Later,
       Stopping, Sending, Threads, CallbackThreads, TypeInv, TypeOK,
       HoldsSession, None
  <2>31. CASE CheckDone
    BY <2>31, RequestOrNone, SessionFields
       DEF CheckDone, Leave, GotoWith, Goto, NoMessage, sessionVars,
       threadVars, rmfVars, EstimatorInv, FutureKind, PathHoldsItsSession,
       ArrivalOwnGoal, MessageOwnGoal, LeftBeforeReport, ActiveIsPlan, PlanOrReplaced, ReplacedByEmpty, Later,
       Stopping, Sending, Threads, CallbackThreads, TypeInv, TypeOK,
       HoldsSession, None
  <2>32. CASE BufferFeedback
    BY <2>32, RequestOrNone, SessionFields
       DEF BufferFeedback, Leave, GotoWith, Goto, NoMessage, sessionVars,
       threadVars, rmfVars, EstimatorInv, FutureKind, PathHoldsItsSession,
       ArrivalOwnGoal, MessageOwnGoal, LeftBeforeReport, ActiveIsPlan, PlanOrReplaced, ReplacedByEmpty, Later,
       Stopping, Sending, Threads, CallbackThreads, TypeInv, TypeOK,
       HoldsSession, None
  <2>33. CASE FollowNewPath
    BY <2>33, RequestEstimator
  <2>34. CASE DockWithoutMotion
    BY <2>34, RequestEstimator
  <2>34a. CASE FollowEmptyPath
    BY <2>34a, RequestEstimator
  <2>35. CASE DockWithUndock
    BY <2>35, RequestEstimator
  <2>36. CASE RmfFreesPlan
    BY <2>36, RequestOrNone, SessionFields
       DEF RmfFreesPlan, sessionVars, threadVars, rmfVars, EstimatorInv,
       FutureKind, PathHoldsItsSession, ArrivalOwnGoal, MessageOwnGoal,
       LeftBeforeReport, ActiveIsPlan, PlanOrReplaced, ReplacedByEmpty, Later, Stopping, Sending, Threads,
       CallbackThreads, TypeInv, TypeOK, HoldsSession, None
  <2>37. CASE Stop
    BY <2>37, RequestOrNone, SessionFields
       DEF Stop, Goto, sessionVars, threadVars, rmfVars, EstimatorInv,
       FutureKind, PathHoldsItsSession, ArrivalOwnGoal, MessageOwnGoal,
       LeftBeforeReport, ActiveIsPlan, PlanOrReplaced, ReplacedByEmpty, Later, Stopping, Sending, Threads,
       CallbackThreads, TypeInv, TypeOK, HoldsSession, None
  <2>38. ASSUME NEW g \in Requests, RobotDecides(g) PROVE EstimatorInv'
    BY <2>38, RequestOrNone, SessionFields
       DEF RobotDecides, sessionVars, threadVars, rmfVars, EstimatorInv,
       FutureKind, PathHoldsItsSession, ArrivalOwnGoal, MessageOwnGoal,
       LeftBeforeReport, ActiveIsPlan, PlanOrReplaced, ReplacedByEmpty, Later, Stopping, Sending, Threads,
       CallbackThreads, TypeInv, TypeOK, HoldsSession, None
  <2>39. ASSUME NEW g \in Requests, RobotEnds(g) PROVE EstimatorInv'
    BY <2>39, RequestOrNone, SessionFields
       DEF RobotEnds, Terminal, sessionVars, threadVars, rmfVars,
       EstimatorInv, FutureKind, PathHoldsItsSession, ArrivalOwnGoal,
       MessageOwnGoal, LeftBeforeReport, ActiveIsPlan, PlanOrReplaced, ReplacedByEmpty, Later, Stopping, Sending,
       Threads, CallbackThreads, TypeInv, TypeOK, HoldsSession, None
  <2>40. QED
    BY <1>1, <2>1, <2>2, <2>3, <2>4, <2>5, <2>6, <2>7, <2>8, <2>9, <2>10,
    <2>11, <2>12, <2>13, <2>14, <2>15, <2>16, <2>17, <2>18, <2>19, <2>20,
    <2>21, <2>22, <2>23, <2>24, <2>25, <2>26, <2>27, <2>28, <2>29, <2>30,
    <2>31, <2>32, <2>33, <2>34, <2>34a, <2>35, <2>36, <2>37, <2>38, <2>39
       DEF Next, ExecutorStep, CallbackStep, StatusStep, FeedbackStep,
       RmfStep, RobotStep, CallbackThreads
<1>2. CASE UNCHANGED vars
  BY <1>2
     DEF vars, sessionVars, threadVars, rmfVars, EstimatorInv, FutureKind,
     PathHoldsItsSession, ArrivalOwnGoal, MessageOwnGoal, LeftBeforeReport,
     ActiveIsPlan, PlanOrReplaced, ReplacedByEmpty, Later, Stopping, Sending, Threads, CallbackThreads, TypeInv,
     TypeOK, HoldsSession, None
<1>3. QED
  BY <1>1, <1>2

LEMMA EstimatorInit == Init => EstimatorInv
<1> SUFFICES ASSUME Init
             PROVE  EstimatorInv
  OBVIOUS
<1>1. /\ \A s \in Requests : /\ ~sess[s].arrival /\ sess[s].pending = None
                           /\ kind[s] = "none" /\ finished[s] = 0
      /\ pc["executor"] = "idle" /\ pc["feedback"] = "idle" /\ pc["status"] = "idle"
      /\ plan = None /\ cur = None
  BY DEF Init, NewSession, Threads
<1>2. QED
  BY <1>1
     DEF EstimatorInv, FutureKind, PathHoldsItsSession, ArrivalOwnGoal,
     MessageOwnGoal, LeftBeforeReport, ActiveIsPlan, PlanOrReplaced, ReplacedByEmpty, Later, Stopping, Sending, None,
     CallbackThreads

\* RMF's arrival estimator is only ever called with progress on the goal of its
\* own plan, and while RMF keeps that plan unless an empty path has replaced it:
\* late feedback of an older goal, a session that a path with waypoints replaces,
\* a stop or a completion while a message is being handled, and an undock that
\* reuses a session never get through.
THEOREM EstimatorIsFresh == Spec => []EstimatorFresh
<1>1. TypeInv /\ EstimatorInv => EstimatorFresh
  BY DEF EstimatorInv, ActiveIsPlan, PlanOrReplaced, ReplacedByEmpty, Later, EstimatorFresh, None
<1>2. QED
  BY <1>1, TypeInit, TypeStep, CompletionInit, CompletionStep,
     EstimatorInit, EstimatorStep, PTL DEF Spec
=============================================================================
