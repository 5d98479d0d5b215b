---------------------- MODULE NavigationSessionProofs ----------------------
(***************************************************************************)
(* Why the active session can always be ended: a session is prepared where *)
(* nobody else reaches it, and from then on, as long as it is the active   *)
(* one of the plan RMF waits for, it is whole or somebody is ending it.    *)
(* Then why a wait for a path is always served, and comes to its end.      *)
(***************************************************************************)
EXTENDS NavigationProofs, FiniteSetTheorems

-----------------------------------------------------------------------------
(* The invariant.                                                          *)

Preparing == {"swap", "invalidateOld", "supersede", "wire"}
Leaving == {"cbInvalidate", "cbReset"}

\* The session of a request that is still to come or being prepared.
Fresh(r) == r > reqs \/ (r = reqs /\ pc["executor"] \in Preparing)

Empty(r) == ~sess[r].done /\ sess[r].goalId = None /\ sess[r].completion = None

FreshUntouched ==
  \A r \in Requests : Fresh(r) =>
    /\ Empty(r)
    /\ wp # r /\ old # r /\ held["status"] # r
    /\ cb["executor"].of # r /\ cb["status"].of # r
    /\ r > reqs => cur # r /\ held["executor"] # r
    /\ pc["executor"] = "swap" => cur # r

WaitsForNewest ==
  /\ waiting \in {None, reqs}
  /\ pc["executor"] \in Stopping \union {"stopClear"} => waiting = None

\* The completion of a path is only ever in the session of that path.
OwnCallback ==
  /\ \A s \in Requests : sess[s].completion # None =>
       \/ kind[sess[s].completion] = "undock"
       \/ sess[s].completion = s /\ kind[s] = "path"
  /\ pc["executor"] \in Sending \union {"await", "refuse"} =>
       kind[reqs] \in {"path", "undock"}
  /\ pc["executor"] \in {"send", "await", "refuse"} /\ kind[reqs] = "path" =>
       held["executor"] = reqs
  /\ pc["status"] \in Leaving => cb["status"].of = held["status"]

Whole(r) == wp = r /\ ~sess[r].done /\ sess[r].failure /\ sess[r].rmfArrival

Armed(r) == Whole(r) /\ sess[r].goalId = r /\ sess[r].completion = r

ActiveSession(r) ==
  \/ r = reqs /\ pc["executor"] \in Preparing \ {"swap"}
  \/ r = reqs /\ pc["executor"] \in {"promote", "arm"} /\ Whole(r) /\ Empty(r)
  \/ r = reqs /\ pc["executor"] \in {"send", "await", "refuse"} /\ Armed(r)
  \/ Armed(r) /\ goal[r] \in AtRobot
  \/ held["status"] = r /\ pc["status"] \in Leaving
  \/ cb["executor"].of = r /\ pc["executor"] \in Leaving

ActiveInv ==
  \A r \in Requests :
    cur = r /\ waiting = r => kind[r] = "path" /\ ActiveSession(r)

SessionInv == FreshUntouched /\ WaitsForNewest /\ OwnCallback /\ ActiveInv
-----------------------------------------------------------------------------
(* Most steps neither prepare a session nor end the active one.            *)

\* Where the executor has no request in hand.
Elsewhere ==
  {"idle", "tickTake", "tickEstimate", "tickFailure", "cbReport", "return", "stopClear"}
    \union Stopping

Same(t) == pc'[t] = pc[t] /\ held'[t] = held[t]

QuietExecutor ==
  \/ Same("executor") /\ cb'["executor"] = cb["executor"]
  \/ /\ {pc["executor"], pc'["executor"]} \subseteq Preparing \ {"swap"}
     /\ held'["executor"] = held["executor"] /\ cb'["executor"] = cb["executor"]
  \/ /\ {pc["executor"], pc'["executor"]} \subseteq Leaving
     /\ held'["executor"] = held["executor"] /\ cb'["executor"] = cb["executor"]
  \/ /\ pc'["executor"] \in Elsewhere
     /\ pc["executor"] \in Elsewhere \/ (pc["executor"] \in Leaving /\ cur' = None)
     /\ held'["executor"] \in {held["executor"], None, cur, wp}
     /\ cb'["executor"].of \in {cb["executor"].of, None}
     /\ pc'["executor"] \in Stopping \union {"stopClear"} => waiting' = None

QuietStatus ==
  \/ Same("status") /\ cb'["status"] = cb["status"]
  \/ /\ {pc["status"], pc'["status"]} \subseteq Leaving
     /\ held'["status"] = held["status"] /\ cb'["status"] = cb["status"]
  \/ /\ pc'["status"] \notin Leaving
     /\ pc["status"] \in Leaving => cur' = None
     /\ held'["status"] \in {held["status"], None, wp}
     /\ cb'["status"].of \in {cb["status"].of, None}

Kept(s) ==
  /\ sess'[s].done = sess[s].done /\ sess'[s].goalId = sess[s].goalId
  /\ sess'[s].completion = sess[s].completion
  /\ sess'[s].failure = sess[s].failure /\ sess'[s].rmfArrival = sess[s].rmfArrival

\* A session that is ended is not the active one, or has been given up already.
Ended(s) ==
  /\ sess'[s] = Invalidated
  /\ ~Fresh(s)
  /\ s = cur /\ cur' = cur /\ waiting' = s =>
       \/ held["status"] = s /\ pc["status"] \in Leaving
       \/ cb["executor"].of = s /\ pc["executor"] \in Leaving

QuietStep ==
  /\ UNCHANGED <<reqs, kind, wp>>
  /\ waiting' \in {waiting, None} /\ cur' \in {cur, None} /\ old' \in {old, None}
  /\ QuietExecutor /\ QuietStatus
  /\ \A s \in Requests : Kept(s) \/ Ended(s)
  /\ \A g \in Requests : goal[g] \in AtRobot => goal'[g] \in AtRobot

NavInv == TypeInv /\ CompletionInv /\ EstimatorInv

LEMMA QuietSession ==
  ASSUME NavInv, SessionInv, QuietStep
  PROVE  SessionInv'
<1>1. \A r \in Requests : Fresh(r)' => Fresh(r)
  BY DEF QuietStep, QuietExecutor, Same, Fresh, Elsewhere, Stopping, Preparing, Leaving
<1>2. \A s \in Requests : Ended(s) => /\ sess'[s].completion = None
                                      /\ sess'[s].goalId = None
  BY InvalidatedFields DEF Ended
<1>3. FreshUntouched'
  <2> SUFFICES ASSUME NEW r \in Requests, Fresh(r)'
               PROVE  /\ Empty(r)' /\ wp' # r /\ old' # r /\ held'["status"] # r
                      /\ cb'["executor"].of # r /\ cb'["status"].of # r
                      /\ r > reqs' => cur' # r /\ held'["executor"] # r
                      /\ pc'["executor"] = "swap" => cur' # r
    BY DEF FreshUntouched
  <2>1. Fresh(r) /\ r # None
    BY <1>1 DEF Requests, None
  <2>2. /\ Empty(r) /\ wp # r /\ old # r /\ held["status"] # r
        /\ cb["executor"].of # r /\ cb["status"].of # r
        /\ r > reqs => cur # r /\ held["executor"] # r
        /\ pc["executor"] = "swap" => cur # r
    BY <2>1 DEF SessionInv, FreshUntouched
  <2>3. Empty(r)'
    BY <2>1, <2>2 DEF QuietStep, Kept, Ended, Empty
  <2>4. wp' # r /\ old' # r /\ held'["status"] # r /\ cb'["status"].of # r
    BY <2>1, <2>2 DEF QuietStep, QuietStatus, Same
  <2>5. cb'["executor"].of # r /\ (r > reqs' => cur' # r /\ held'["executor"] # r)
    BY <2>1, <2>2 DEF QuietStep, QuietExecutor, Same
  <2>6. pc'["executor"] = "swap" => pc["executor"] = "swap"
    BY DEF QuietStep, QuietExecutor, Same, Elsewhere, Stopping, Preparing, Leaving
  <2> QED BY <2>1, <2>2, <2>3, <2>4, <2>5, <2>6 DEF QuietStep
<1>4. WaitsForNewest'
  <2>1. pc'["executor"] \in Stopping \union {"stopClear"} =>
          waiting' = None \/ pc'["executor"] = pc["executor"]
    BY DEF QuietStep, QuietExecutor, Same, Preparing, Leaving, Stopping
  <2> QED BY <2>1 DEF QuietStep, SessionInv, WaitsForNewest
<1>5. OwnCallback'
  <2>1. \A s \in Requests : sess'[s].completion \in {sess[s].completion, None}
    BY <1>2 DEF QuietStep, Kept
  <2>2. pc'["executor"] \in Sending \union {"await", "refuse"} =>
          /\ pc["executor"] \in Sending \union {"await", "refuse"}
          /\ pc'["executor"] \in {"send", "await", "refuse"} =>
               pc["executor"] = pc'["executor"] /\ held'["executor"] = held["executor"]
    BY DEF QuietStep, QuietExecutor, Same, Sending, Preparing, Leaving, Elsewhere, Stopping
  <2>3. pc'["status"] \in Leaving =>
          pc["status"] \in Leaving /\ cb'["status"] = cb["status"]
                                   /\ held'["status"] = held["status"]
    BY DEF QuietStep, QuietStatus, Same
  <2>4. reqs' = reqs /\ kind' = kind
    BY DEF QuietStep
  <2>5. \A s \in Requests : sess'[s].completion # None =>
          \/ kind'[sess'[s].completion] = "undock"
          \/ sess'[s].completion = s /\ kind'[s] = "path"
    BY <2>1, <2>4 DEF SessionInv, OwnCallback
  <2>6. pc'["executor"] \in {"send", "await", "refuse"} /\ kind'[reqs'] = "path" =>
          held'["executor"] = reqs'
    BY <2>2, <2>4 DEF SessionInv, OwnCallback, Sending
  <2>7. pc'["status"] \in Leaving => cb'["status"].of = held'["status"]
    BY <2>3 DEF SessionInv, OwnCallback
  <2> QED BY <2>2, <2>4, <2>5, <2>6, <2>7 DEF SessionInv, OwnCallback
<1>6. ActiveInv'
  <2> SUFFICES ASSUME NEW r \in Requests, cur' = r, waiting' = r
               PROVE  kind'[r] = "path" /\ ActiveSession(r)'
    BY DEF ActiveInv
  <2>1. cur = r /\ waiting = r /\ r # None
    BY DEF QuietStep, Requests, None
  <2>2. kind[r] = "path" /\ ActiveSession(r) /\ kind' = kind /\ reqs' = reqs
    BY <2>1 DEF SessionInv, ActiveInv, QuietStep
  <2>3. CASE held["status"] = r /\ pc["status"] \in Leaving
    <3>1. held'["status"] = r /\ pc'["status"] \in Leaving
      BY <2>1, <2>3 DEF QuietStep, QuietStatus, Same
    <3> QED BY <2>1, <2>2, <3>1 DEF ActiveSession
  <2>4. CASE cb["executor"].of = r /\ pc["executor"] \in Leaving
    <3>1. cb'["executor"].of = r /\ pc'["executor"] \in Leaving
      BY <2>1, <2>4 DEF QuietStep, QuietExecutor, Same, Preparing, Elsewhere, Stopping, Leaving
    <3> QED BY <2>1, <2>2, <3>1 DEF ActiveSession
  <2>5. CASE /\ ~(held["status"] = r /\ pc["status"] \in Leaving)
             /\ ~(cb["executor"].of = r /\ pc["executor"] \in Leaving)
    <3>1. Kept(r) /\ wp' = wp
      BY <2>1, <2>5 DEF QuietStep, Ended
    <3>2. CASE r = reqs /\ pc["executor"] \in Preparing \ {"swap"}
      <4>1. pc'["executor"] \in Preparing \ {"swap"}
        BY <3>2 DEF QuietStep, QuietExecutor, Same, Preparing, Elsewhere, Stopping, Leaving
      <4> QED BY <2>1, <2>2, <3>2, <4>1 DEF ActiveSession
    <3>3. CASE r = reqs /\ pc["executor"] \in {"promote", "arm"} /\ Whole(r) /\ Empty(r)
      <4>1. pc'["executor"] = pc["executor"]
        BY <3>3 DEF QuietStep, QuietExecutor, Same, Preparing, Elsewhere, Stopping, Leaving
      <4>2. Whole(r)' /\ Empty(r)'
        BY <2>1, <3>1, <3>3 DEF Whole, Empty, Kept
      <4> QED BY <2>1, <2>2, <3>3, <4>1, <4>2 DEF ActiveSession
    <3>4. CASE r = reqs /\ pc["executor"] \in {"send", "await", "refuse"} /\ Armed(r)
      <4>1. pc'["executor"] = pc["executor"]
        BY <3>4 DEF QuietStep, QuietExecutor, Same, Preparing, Elsewhere, Stopping, Leaving
      <4>2. Armed(r)'
        BY <2>1, <3>1, <3>4 DEF Armed, Whole, Kept
      <4> QED BY <2>1, <2>2, <3>4, <4>1, <4>2 DEF ActiveSession
    <3>5. CASE Armed(r) /\ goal[r] \in AtRobot
      <4>1. Armed(r)' /\ goal'[r] \in AtRobot
        BY <2>1, <3>1, <3>5 DEF Armed, Whole, Kept, QuietStep
      <4> QED BY <2>1, <2>2, <4>1 DEF ActiveSession
    <3> QED BY <2>2, <2>5, <3>2, <3>3, <3>4, <3>5 DEF ActiveSession
  <2> QED BY <2>3, <2>4, <2>5
<1> QED BY <1>3, <1>4, <1>5, <1>6 DEF SessionInv

\* Steps that change no session.
LookingAction ==
  \/ SupersedeFailure \/ CancelPromote \/ StopGrab \/ StopReset \/ StopClearFailure
  \/ CallEstimator \/ Tick \/ TakeFailure \/ RmfFreesPlan \/ Stop
  \/ StatusArrives \/ FeedbackArrives \/ MatchGoal \/ CheckDone
  \/ \E g \in Requests : RobotDecides(g) \/ RobotEnds(g)
  \/ \E t \in CallbackThreads :
       CallbackReset(t) \/ ReportFinished(t) \/ ReportFailure(t) \/ Return(t)

LEMMA LookingIsQuiet ==
  ASSUME NavInv, SessionInv, LookingAction
  PROVE  QuietStep
<1> USE DEF NavInv, TypeInv, TypeOK, Threads, CallbackThreads
<1> DEFINE Static ==
      /\ UNCHANGED <<sess, reqs, kind, wp, goal, old>>
      /\ waiting' \in {waiting, None} /\ cur' \in {cur, None}
<1>1. ASSUME Static, QuietExecutor, QuietStatus PROVE QuietStep
  BY <1>1 DEF QuietStep, Kept
<1>2. CASE SupersedeFailure
  <2>1. Static
    BY <1>2 DEF SupersedeFailure, rmfVars
  <2>2. QuietExecutor /\ QuietStatus
    BY <1>2 DEF SupersedeFailure, Goto, QuietExecutor, QuietStatus, Same, Preparing, rmfVars
  <2> QED BY <1>1, <2>1, <2>2
<1>3. CASE CancelPromote
  <2>1. Static /\ (waiting = None => waiting' = None)
    BY <1>3 DEF CancelPromote, rmfVars, sessionVars
  <2>2. waiting = None
    BY <1>3 DEF CancelPromote, SessionInv, WaitsForNewest, Stopping
  <2>3. QuietExecutor /\ QuietStatus
    BY <1>3, <2>1, <2>2
    DEF CancelPromote, Promoted, GotoWith, Goto, QuietExecutor, QuietStatus, Same, Elsewhere,
        Stopping
  <2> QED BY <1>1, <2>1, <2>3
<1>4. CASE StopGrab \/ StopReset \/ StopClearFailure
  <2>1. Static /\ (waiting = None => waiting' = None)
    BY <1>4 DEF StopGrab, StopReset, StopClearFailure, rmfVars, sessionVars
  <2>2. waiting = None
    BY <1>4 DEF StopGrab, StopReset, StopClearFailure, SessionInv, WaitsForNewest, Stopping
  <2>3. QuietExecutor /\ QuietStatus
    BY <1>4, <2>1, <2>2
    DEF StopGrab, StopReset, StopClearFailure, Leave, GotoWith, Goto, QuietExecutor,
        QuietStatus, Same, Elsewhere, Stopping
  <2> QED BY <1>1, <2>1, <2>3
<1>5. CASE CallEstimator \/ Tick \/ TakeFailure \/ RmfFreesPlan \/ Stop
  <2>1. Static
    BY <1>5 DEF CallEstimator, Tick, TakeFailure, RmfFreesPlan, Stop, rmfVars, sessionVars,
                threadVars
  <2>2. QuietStatus
    BY <1>5
    DEF CallEstimator, Tick, TakeFailure, RmfFreesPlan, Stop, Leave, GotoWith, Goto,
        QuietStatus, Same, threadVars
  <2>3. CASE RmfFreesPlan
    BY <1>1, <2>1, <2>2, <2>3 DEF RmfFreesPlan, QuietExecutor, Same, threadVars
  <2>4. CASE CallEstimator \/ Tick \/ TakeFailure
    <3>1. QuietExecutor
      BY <2>4
      DEF CallEstimator, Tick, TakeFailure, Leave, GotoWith, Goto, QuietExecutor, Elsewhere,
          Stopping
    <3> QED BY <1>1, <2>1, <2>2, <3>1
  <2>5. CASE Stop
    <3>1. QuietExecutor
      BY <2>5 DEF Stop, Goto, QuietExecutor, Elsewhere, Stopping
    <3> QED BY <1>1, <2>1, <2>2, <3>1
  <2> QED BY <1>5, <2>3, <2>4, <2>5
<1>6. CASE StatusArrives
  <2>1. Static /\ Promoted \in {wp, None}
    BY <1>6 DEF StatusArrives, rmfVars, sessionVars, Promoted
  <2>2. QuietExecutor
    BY <1>6 DEF StatusArrives, GotoWith, Goto, QuietExecutor, Same
  <2>3. QuietStatus
    BY <1>6, <2>1 DEF StatusArrives, GotoWith, Goto, QuietStatus, Leaving
  <2> QED BY <1>1, <2>1, <2>2, <2>3
<1>7. CASE FeedbackArrives \/ MatchGoal \/ CheckDone
  <2>1. Static
    BY <1>7 DEF FeedbackArrives, MatchGoal, CheckDone, rmfVars, sessionVars
  <2>2. QuietExecutor /\ QuietStatus
    BY <1>7
    DEF FeedbackArrives, MatchGoal, CheckDone, Leave, GotoWith, Goto, QuietExecutor,
        QuietStatus, Same
  <2> QED BY <1>1, <2>1, <2>2
<1>8. CASE \E g \in Requests : RobotDecides(g) \/ RobotEnds(g)
  <2> PICK g \in Requests : RobotDecides(g) \/ RobotEnds(g)
    BY <1>8
  <2>1. UNCHANGED <<sess, reqs, kind, wp, old, waiting, cur, pc, held, cb>>
    BY DEF RobotDecides, RobotEnds, rmfVars, sessionVars, threadVars
  <2>2. \A h \in Requests : goal[h] \in AtRobot => goal'[h] \in AtRobot
    BY DEF RobotDecides, RobotEnds, AtRobot, Terminal
  <2> QED BY <2>1, <2>2 DEF QuietStep, QuietExecutor, QuietStatus, Same, Kept
<1>9. CASE \E t \in CallbackThreads :
             CallbackReset(t) \/ ReportFinished(t) \/ ReportFailure(t) \/ Return(t)
  <2> PICK t \in CallbackThreads :
             CallbackReset(t) \/ ReportFinished(t) \/ ReportFailure(t) \/ Return(t)
    BY <1>9
  <2>1. Static
    BY DEF CallbackReset, ReportFinished, ReportFailure, Return, rmfVars, sessionVars
  <2>2. /\ pc'[t] \in {"cbReport", "return", "idle"}
        /\ pc[t] \in {"cbReport", "return"} \/ (pc[t] = "cbReset" /\ cur' = None)
        /\ held'[t] \in {held[t], None}
        /\ cb'[t] \in {cb[t], NoCallback}
        /\ \A u \in CallbackThreads : u # t => Same(u) /\ cb'[u] = cb[u]
    BY DEF CallbackReset, ReportFinished, ReportFailure, Return, Leave, GotoWith, Goto, Same
  <2>3. QuietExecutor
    BY <2>2, NoCallbackFields DEF QuietExecutor, Elsewhere, Stopping, Leaving
  <2>4. QuietStatus
    BY <2>2, NoCallbackFields DEF QuietStatus, Leaving
  <2> QED BY <1>1, <2>1, <2>3, <2>4
<1> QED BY <1>2, <1>3, <1>4, <1>5, <1>6, <1>7, <1>8, <1>9 DEF LookingAction

\* Steps that end a session, or write what the invariant is not about.
WritingAction ==
  \/ InvalidateOld \/ CancelInvalidate \/ StopInvalidate
  \/ TakeFeedback \/ StoreReason \/ BufferFeedback
  \/ \E t \in CallbackThreads : CallbackInvalidate(t)

LEMMA WritingIsQuiet ==
  ASSUME NavInv, SessionInv, WritingAction
  PROVE  QuietStep
<1> USE DEF NavInv, TypeInv, TypeOK, Threads, CallbackThreads
<1> DEFINE Frame == UNCHANGED <<reqs, kind, wp, goal, waiting, cur>> /\ old' \in {old, None}
<1>1. ASSUME Frame, QuietExecutor, QuietStatus, \A s \in Requests : Kept(s) \/ Ended(s)
      PROVE  QuietStep
  BY <1>1 DEF QuietStep
<1>2. ASSUME NEW x, Invalidate(x), Frame, NEW s \in Requests,
             s = x => /\ ~Fresh(s)
                      /\ s = cur /\ waiting = s =>
                           \/ held["status"] = s /\ pc["status"] \in Leaving
                           \/ cb["executor"].of = s /\ pc["executor"] \in Leaving
      PROVE  Kept(s) \/ Ended(s)
  <2>1. CASE s = x
    <3>1. sess'[s] = Invalidated
      BY <1>2, <2>1 DEF Invalidate
    <3> QED BY <1>2, <2>1, <3>1 DEF Ended
  <2>2. CASE s # x
    <3>1. sess'[s] = sess[s]
      BY <1>2, <2>2 DEF Invalidate
    <3> QED BY <3>1 DEF Kept
  <2> QED BY <2>1, <2>2
<1>3. CASE InvalidateOld
  <2>1. Frame /\ Invalidate(old)
    BY <1>3 DEF InvalidateOld, rmfVars
  <2>2. QuietExecutor /\ QuietStatus
    BY <1>3 DEF InvalidateOld, Goto, QuietExecutor, QuietStatus, Same, Preparing
  <2>3. \A s \in Requests : s = old => ~Fresh(s)
    BY DEF SessionInv, FreshUntouched
  <2>4. \A s \in Requests : s = waiting => Fresh(s)
    BY <1>3 DEF InvalidateOld, SessionInv, WaitsForNewest, Fresh, Preparing, Requests, None
  <2>5. \A s \in Requests : Kept(s) \/ Ended(s)
    BY <1>2, <2>1, <2>3, <2>4
  <2> QED BY <1>1, <2>1, <2>2, <2>5
<1>4. CASE CancelInvalidate \/ StopInvalidate
  <2>1. Frame
    BY <1>4 DEF CancelInvalidate, StopInvalidate, rmfVars
  <2>2. waiting = None /\ \A s \in Requests : s # waiting
    BY <1>4
    DEF CancelInvalidate, StopInvalidate, SessionInv, WaitsForNewest, Stopping, Requests, None
  <2>3. QuietExecutor /\ QuietStatus
    BY <1>4, <2>1, <2>2
    DEF CancelInvalidate, StopInvalidate, GotoWith, Goto, QuietExecutor, QuietStatus, Same,
        Elsewhere, Stopping
  <2>4. CASE UNCHANGED sess
    <3>1. \A s \in Requests : Kept(s)
      BY <2>4 DEF Kept
    <3> QED BY <1>1, <2>1, <2>3, <3>1
  <2>5. CASE Invalidate(held["executor"]) /\ CancelInvalidate /\ sess[held["executor"]].goalId # None
    <3>1. \A s \in Requests : s = held["executor"] => ~Fresh(s)
      BY <2>5 DEF SessionInv, FreshUntouched, Empty
    <3> QED BY <1>1, <1>2, <2>1, <2>2, <2>3, <2>5, <3>1
  <2>6. CASE Invalidate(held["executor"]) /\ StopInvalidate
    <3>1. pc["executor"] \notin Preparing
      BY <2>6 DEF StopInvalidate, Preparing
    <3>2. \A s \in Requests : s = held["executor"] => ~Fresh(s)
      BY <3>1 DEF SessionInv, FreshUntouched, Fresh
    <3> QED BY <1>1, <1>2, <2>1, <2>2, <2>3, <2>6, <3>2
  <2> QED BY <1>4, <2>4, <2>5, <2>6 DEF CancelInvalidate, StopInvalidate
<1>5. CASE TakeFeedback \/ StoreReason \/ BufferFeedback
  <2>1. Frame
    BY <1>5 DEF TakeFeedback, StoreReason, BufferFeedback, rmfVars
  <2>2. QuietExecutor /\ QuietStatus
    BY <1>5
    DEF TakeFeedback, StoreReason, BufferFeedback, Leave, GotoWith, Goto, QuietExecutor,
        QuietStatus, Same, Elsewhere, Stopping
  <2>3. \A s \in Requests : Kept(s)
    <3>1. CASE TakeFeedback
      BY <3>1 DEF TakeFeedback, Kept, Session
    <3>2. CASE StoreReason
      BY <3>2 DEF StoreReason, Kept, Session
    <3>3. CASE BufferFeedback
      BY <3>3 DEF BufferFeedback, Kept, Session
    <3> QED BY <1>5, <3>1, <3>2, <3>3
  <2> QED BY <1>1, <2>1, <2>2, <2>3
<1>6. CASE \E t \in CallbackThreads : CallbackInvalidate(t)
  <2> PICK t \in CallbackThreads : CallbackInvalidate(t)
    BY <1>6
  <2>1. Frame /\ Invalidate(cb[t].of) /\ pc[t] = "cbInvalidate"
    BY DEF CallbackInvalidate, rmfVars
  <2>2. QuietExecutor /\ QuietStatus
    BY DEF CallbackInvalidate, Goto, QuietExecutor, QuietStatus, Same, Leaving
  <2>3. \A s \in Requests : s = cb[t].of => ~Fresh(s)
    BY DEF SessionInv, FreshUntouched
  <2>4. \A s \in Requests : s = cb[t].of =>
          \/ held["status"] = s /\ pc["status"] \in Leaving
          \/ cb["executor"].of = s /\ pc["executor"] \in Leaving
    BY <2>1 DEF SessionInv, OwnCallback, Leaving
  <2>5. \A s \in Requests : Kept(s) \/ Ended(s)
    BY <1>2, <2>1, <2>3, <2>4
  <2> QED BY <1>1, <2>1, <2>2, <2>5
<1> QED BY <1>3, <1>4, <1>5, <1>6 DEF WritingAction

-----------------------------------------------------------------------------
(* The life of a session: asked for, prepared, armed, sent, ended.         *)

LEMMA RequestSession ==
  ASSUME NavInv, SessionInv, FollowNewPath \/ FollowEmptyPath \/ DockWithoutMotion \/ DockWithUndock
  PROVE  SessionInv'
<1> USE DEF NavInv, TypeInv, TypeOK, Threads, CallbackThreads
<1>0. /\ reqs \in Nat /\ reqs' = reqs + 1 /\ reqs' \in Requests
      /\ UNCHANGED <<sess, cur, wp, old, cb>>
      /\ pc["executor"] = "idle" /\ kind' = [kind EXCEPT ![reqs'] = kind'[reqs']]
  <2>1. /\ reqs \in Nat /\ reqs' = reqs + 1 /\ reqs < MaxRequests
        /\ UNCHANGED <<sess, cur, wp, old, cb>> /\ pc["executor"] = "idle"
    BY OrNoneNat
    DEF FollowNewPath, FollowEmptyPath, DockWithoutMotion, DockWithUndock, MayRequest, sessionVars,
        threadVars
  <2>2. reqs' \in Requests
    BY <2>1, RequestsAssumption DEF Requests
  <2>3. \E k : kind' = [kind EXCEPT ![reqs'] = k]
    BY <2>1 DEF FollowNewPath, FollowEmptyPath, DockWithoutMotion, DockWithUndock
  <2>4. kind' = [kind EXCEPT ![reqs'] = kind'[reqs']]
    BY <2>2, <2>3
  <2> QED BY <2>1, <2>2, <2>4
<1>1. /\ pc'["status"] = pc["status"] /\ held'["status"] = held["status"]
      /\ pc'["executor"] \in {"swap", "promote", "idle"}
      /\ waiting' \in {None, reqs'}
      /\ pc'["executor"] \in {"swap", "promote"} => kind'[reqs'] \in {"path", "undock"}
      /\ held'["executor"] \in {held["executor"], reqs', None}
  <2>1. CASE FollowNewPath
    BY <1>0, <2>1 DEF FollowNewPath, GotoWith, Goto
  <2>2. CASE DockWithoutMotion \/ FollowEmptyPath
    BY <1>0, <2>2 DEF DockWithoutMotion, FollowEmptyPath, threadVars
  <2>3. CASE DockWithUndock
    BY <1>0, <2>3 DEF DockWithUndock, GotoWith, Goto
  <2> QED BY <2>1, <2>2, <2>3
<1>2. \A r \in Requests : r # reqs' => kind'[r] = kind[r]
  BY <1>0, <1>1 DEF FollowNewPath, FollowEmptyPath, DockWithoutMotion, DockWithUndock
<1>3. /\ \A r \in Requests : Fresh(r)' => r > reqs /\ (r > reqs' => r # reqs')
      /\ \A r \in Requests : r > reqs => Fresh(r) /\ r # None
      /\ reqs' > reqs
  BY <1>0, <1>1 DEF Fresh, Requests, None
<1>4. FreshUntouched'
  <2> SUFFICES ASSUME NEW r \in Requests, Fresh(r)'
               PROVE  /\ Empty(r)' /\ wp' # r /\ old' # r /\ held'["status"] # r
                      /\ cb'["executor"].of # r /\ cb'["status"].of # r
                      /\ r > reqs' => cur' # r /\ held'["executor"] # r
                      /\ pc'["executor"] = "swap" => cur' # r
    BY DEF FreshUntouched
  <2>1. Fresh(r) /\ r > reqs /\ r # None
    BY <1>3
  <2>2. /\ Empty(r) /\ wp # r /\ old # r /\ held["status"] # r
        /\ cb["executor"].of # r /\ cb["status"].of # r
        /\ cur # r /\ held["executor"] # r
    BY <2>1 DEF SessionInv, FreshUntouched
  <2> QED BY <1>0, <1>1, <1>3, <2>1, <2>2 DEF Empty
<1>5. WaitsForNewest'
  BY <1>0, <1>1 DEF WaitsForNewest, Stopping
<1>6. OwnCallback'
  <2>1. \A s \in Requests : sess[s].completion # reqs' /\ sess[s].completion \in OrNone
    BY <1>0, <1>1, SessionFields, OrNoneNat DEF CompletionInv, FutureUntouched
  <2>2. \A s \in Requests : sess[s].completion # None =>
          /\ sess[s].completion \in Requests
          /\ kind'[sess[s].completion] = kind[sess[s].completion]
    BY <1>2, <2>1, RequestOrNone
  <2>3. \A s \in Requests : sess'[s].completion # None =>
          \/ kind'[sess'[s].completion] = "undock"
          \/ sess'[s].completion = s /\ kind'[s] = "path"
    BY <1>0, <1>1, <2>2 DEF SessionInv, OwnCallback
  <2>4. pc'["status"] \in Leaving => cb'["status"].of = held'["status"]
    BY <1>0, <1>1 DEF SessionInv, OwnCallback
  <2> QED BY <1>0, <1>1, <2>3, <2>4 DEF OwnCallback, Sending
<1>7. ActiveInv'
  <2> SUFFICES ASSUME NEW r \in Requests, cur' = r, waiting' = r PROVE FALSE
    BY DEF ActiveInv
  <2>1. r = reqs'
    BY <1>0, <1>1 DEF Requests, None
  <2>2. cur # r
    BY <1>3, <2>1 DEF SessionInv, FreshUntouched
  <2> QED BY <1>0, <1>1, <2>2
<1> QED BY <1>4, <1>5, <1>6, <1>7 DEF SessionInv

LEMMA SwapSessionSession ==
  ASSUME NavInv, SessionInv, SwapSession
  PROVE  SessionInv'
<1> USE DEF NavInv, TypeInv, TypeOK, Threads, CallbackThreads
<1>1. /\ UNCHANGED <<sess, wp, held, cb, reqs, kind, waiting, goal>>
      /\ pc["executor"] = "swap" /\ pc'["executor"] \in {"supersede", "invalidateOld"}
      /\ pc'["status"] = pc["status"]
      /\ old' = cur /\ cur' = held["executor"] /\ held["executor"] = reqs
      /\ kind[reqs] = "path"
  BY DEF SwapSession, Goto, rmfVars, EstimatorInv, PathHoldsItsSession, Sending
<1>2. \A r \in Requests : Fresh(r)' <=> Fresh(r)
  BY <1>1 DEF Fresh, Preparing
<1>3. FreshUntouched'
  BY <1>1, <1>2, OrNoneNat DEF SessionInv, FreshUntouched, Empty, Requests
<1>4. WaitsForNewest' /\ OwnCallback'
  BY <1>1 DEF SessionInv, WaitsForNewest, OwnCallback, Stopping, Sending
<1>5. ActiveInv'
  BY <1>1 DEF ActiveInv, ActiveSession, Preparing
<1> QED BY <1>3, <1>4, <1>5 DEF SessionInv

LEMMA WireSessionSession ==
  ASSUME NavInv, SessionInv, WireSession
  PROVE  SessionInv'
<1> USE DEF NavInv, TypeInv, TypeOK, Threads, CallbackThreads
<1>1. /\ UNCHANGED <<cur, old, held, cb, reqs, kind, waiting, goal>>
      /\ pc["executor"] = "wire" /\ pc'["executor"] = "promote"
      /\ pc'["status"] = pc["status"]
      /\ wp' = held["executor"]
  BY DEF WireSession, Goto, rmfVars
<1>2. reqs \in Requests /\ kind[reqs] \in {"path", "undock"}
  BY <1>1, RequestOrNone DEF CompletionInv, SendingIsNew, Sending, SessionInv, OwnCallback
<1>3. kind[reqs] = "path" => held["executor"] = reqs
  BY <1>1 DEF EstimatorInv, PathHoldsItsSession, Sending
<1>4. \A s \in Requests :
        /\ sess'[s].done = sess[s].done /\ sess'[s].goalId = sess[s].goalId
        /\ sess'[s].completion = sess[s].completion
        /\ s = held["executor"] => sess'[s].failure /\ sess'[s].rmfArrival
  BY DEF WireSession, Session
<1>5. \A r \in Requests : Fresh(r)' <=> r > reqs
  BY <1>1, <1>2 DEF Fresh, Preparing
<1>6. FreshUntouched'
  BY <1>1, <1>4, <1>5 DEF SessionInv, FreshUntouched, Fresh, Empty
<1>7. WaitsForNewest' /\ OwnCallback'
  BY <1>1, <1>4 DEF SessionInv, WaitsForNewest, OwnCallback, Stopping, Sending
<1>8. ActiveInv'
  <2> SUFFICES ASSUME NEW r \in Requests, cur = r, waiting = r
               PROVE  kind'[r] = "path" /\ ActiveSession(r)'
    BY <1>1 DEF ActiveInv
  <2>1. r = reqs /\ kind[r] = "path"
    BY DEF SessionInv, ActiveInv, WaitsForNewest, Requests, None
  <2>2. Fresh(r)
    BY <1>1, <2>1 DEF Fresh, Preparing
  <2>3. Empty(r)' /\ Whole(r)'
    BY <1>1, <1>3, <1>4, <2>1, <2>2 DEF SessionInv, FreshUntouched, Empty, Whole
  <2> QED BY <1>1, <2>1, <2>3 DEF ActiveSession
<1> QED BY <1>6, <1>7, <1>8 DEF SessionInv

LEMMA ExecutePathSession ==
  ASSUME NavInv, SessionInv, ExecutePath
  PROVE  SessionInv'
<1> USE DEF NavInv, TypeInv, TypeOK, Threads, CallbackThreads
<1>1. /\ UNCHANGED <<sess, wp, cur, old, reqs, kind, waiting, goal>>
      /\ pc["executor"] = "promote"
      /\ pc'["status"] = pc["status"] /\ held'["status"] = held["status"]
      /\ cb'["status"] = cb["status"]
  BY DEF ExecutePath, Fire, GotoWith, Goto, sessionVars, rmfVars
<1>2. reqs \in Requests /\ kind[reqs] \in {"path", "undock"}
  BY <1>1, RequestOrNone DEF CompletionInv, SendingIsNew, Sending, SessionInv, OwnCallback
<1>3. kind[reqs] = "path" => Promoted = reqs
  <2>1. kind[reqs] = "path" => held["executor"] = reqs /\ wp = reqs
    BY <1>1 DEF EstimatorInv, PathHoldsItsSession, Sending
  <2> QED BY <1>2, <2>1 DEF Promoted, Alive, Requests, None
<1>4. \/ /\ Promoted = None /\ kind[reqs] = "undock" /\ held' = held
         /\ pc'["executor"] = "cbReport" /\ cb'["executor"].of = reqs
      \/ /\ Promoted # None /\ cb' = cb
         /\ pc'["executor"] = "arm" /\ held'["executor"] = wp
  <2>1. CASE Promoted = None
    <3>1. kind[reqs] = "undock"
      BY <1>2, <1>3, <2>1 DEF Requests, None
    <3> QED BY <2>1, <3>1 DEF ExecutePath, Fire, Goto, CallbackEntry
  <2>2. CASE Promoted # None
    BY <2>2 DEF ExecutePath, GotoWith, Goto, Promoted
  <2> QED BY <2>1, <2>2
<1>5. \A r \in Requests : (Fresh(r)' <=> r > reqs) /\ (r > reqs => Fresh(r) /\ r # reqs)
  BY <1>1, <1>2, <1>4 DEF Fresh, Preparing, Requests
<1>6. FreshUntouched'
  BY <1>1, <1>4, <1>5 DEF SessionInv, FreshUntouched, Empty
<1>7. WaitsForNewest' /\ OwnCallback'
  BY <1>1, <1>2, <1>4 DEF SessionInv, WaitsForNewest, OwnCallback, Stopping, Sending
<1>8. ActiveInv'
  <2> SUFFICES ASSUME NEW r \in Requests, cur = r, waiting = r
               PROVE  kind'[r] = "path" /\ ActiveSession(r)'
    BY <1>1 DEF ActiveInv
  <2>1. r = reqs /\ kind[r] = "path" /\ ActiveSession(r)
    BY DEF SessionInv, ActiveInv, WaitsForNewest, Requests, None
  <2>2. pc'["executor"] = "arm" /\ goal[r] \notin AtRobot
    BY <1>1, <1>2, <1>3, <1>4, <2>1
    DEF CompletionInv, SendingIsNew, Sending, AtRobot, Terminal, Requests, None
  <2>3. CASE Whole(r) /\ Empty(r)
    <3>1. Whole(r)' /\ Empty(r)'
      BY <1>1, <2>3 DEF Whole, Empty
    <3> QED BY <1>1, <2>1, <2>2, <3>1 DEF ActiveSession
  <2>4. CASE held["status"] = r /\ pc["status"] \in Leaving
    BY <1>1, <2>1, <2>4 DEF ActiveSession
  <2> QED BY <1>1, <2>1, <2>2, <2>3, <2>4 DEF ActiveSession, Preparing, Leaving
<1> QED BY <1>6, <1>7, <1>8 DEF SessionInv

\* The steps between execute_path's two mutex sections touch no session.
LEMMA SendingSession ==
  ASSUME NavInv, SessionInv, SendGoal \/ GoalAccepted \/ GoalNotAccepted
  PROVE  SessionInv'
<1> USE DEF NavInv, TypeInv, TypeOK, Threads, CallbackThreads
<1>1. /\ UNCHANGED <<sess, wp, cur, old, held, cb, reqs, kind, waiting>>
      /\ pc["executor"] \in {"send", "await"}
      /\ pc'["executor"] \in {"await", "refuse", "return"}
      /\ pc'["status"] = pc["status"]
  BY DEF SendGoal, GoalAccepted, GoalNotAccepted, Goto, sessionVars, rmfVars
<1>2. pc'["executor"] = "return" => goal'[reqs] \in AtRobot
  BY DEF SendGoal, GoalAccepted, GoalNotAccepted, Goto
<1>3. \A r \in Requests : Fresh(r)' <=> Fresh(r)
  BY <1>1 DEF Fresh, Preparing
<1>4. FreshUntouched'
  BY <1>1, <1>3 DEF SessionInv, FreshUntouched, Empty
<1>5. WaitsForNewest'
  BY <1>1 DEF SessionInv, WaitsForNewest, Stopping
<1>6. OwnCallback'
  BY <1>1 DEF SessionInv, OwnCallback, Sending
<1>7. ActiveInv'
  <2> SUFFICES ASSUME NEW r \in Requests, cur = r, waiting = r
               PROVE  kind'[r] = "path" /\ ActiveSession(r)'
    BY <1>1 DEF ActiveInv
  <2>1. r = reqs /\ kind[r] = "path" /\ ActiveSession(r)
    BY DEF SessionInv, ActiveInv, WaitsForNewest, Requests, None
  <2>2. CASE Armed(r)
    <3>1. Armed(r)'
      BY <1>1, <2>2 DEF Armed, Whole
    <3> QED BY <1>1, <1>2, <2>1, <3>1 DEF ActiveSession
  <2>3. CASE held["status"] = r /\ pc["status"] \in Leaving
    BY <1>1, <2>1, <2>3 DEF ActiveSession
  <2> QED BY <1>1, <2>1, <2>2, <2>3 DEF ActiveSession, Preparing, Leaving
<1> QED BY <1>4, <1>5, <1>6, <1>7 DEF SessionInv

LEMMA ArmSessionSession ==
  ASSUME NavInv, SessionInv, ArmSession
  PROVE  SessionInv'
<1> USE DEF NavInv, TypeInv, TypeOK, Threads, CallbackThreads
<1> DEFINE h == held["executor"]
<1>1. /\ UNCHANGED <<wp, cur, old, held, cb, reqs, kind, waiting, goal>>
      /\ pc["executor"] = "arm" /\ pc'["executor"] = "send"
      /\ pc'["status"] = pc["status"]
  BY DEF ArmSession, Goto, rmfVars
<1>2. h \in Requests /\ reqs \in Requests /\ kind[reqs] \in {"path", "undock"}
  BY <1>1, RequestOrNone
  DEF HoldsSession, CompletionInv, SendingIsNew, Sending, SessionInv, OwnCallback
<1>3. kind[reqs] = "path" => h = reqs
  BY <1>1 DEF EstimatorInv, PathHoldsItsSession, Sending
<1>4. \A s \in Requests \ {h} : sess'[s] = sess[s]
  BY DEF ArmSession
<1>5. /\ sess'[h].completion = reqs /\ sess'[h].goalId = reqs /\ ~sess'[h].done
      /\ sess'[h].failure = sess[h].failure /\ sess'[h].rmfArrival = sess[h].rmfArrival
  <2> DEFINE x == sess[h]
             y == [x EXCEPT !.completion = reqs, !.arrival = (kind[reqs] = "path"),
                            !.goalId = reqs, !.done = FALSE]
  <2>1. x \in Session /\ sess'[h] = y
    BY <1>2 DEF ArmSession
  <2>2. /\ y.completion = reqs /\ y.goalId = reqs /\ ~y.done
        /\ y.failure = x.failure /\ y.rmfArrival = x.rmfArrival
    BY <2>1 DEF Session
  <2> HIDE DEF x, y
  <2> QED BY <2>1, <2>2 DEF x
<1>6. \A r \in Requests : (Fresh(r)' <=> r > reqs) /\ (r > reqs => Fresh(r))
  BY <1>1 DEF Fresh, Preparing
<1> HIDE DEF h
<1>7. FreshUntouched'
  BY <1>1, <1>4, <1>6 DEF SessionInv, FreshUntouched, Empty, h
<1>8. WaitsForNewest'
  BY <1>1 DEF SessionInv, WaitsForNewest, Stopping
<1>9. OwnCallback'
  <2>1. \A s \in Requests : sess'[s].completion # None =>
          \/ kind[sess'[s].completion] = "undock"
          \/ sess'[s].completion = s /\ kind[s] = "path"
    <3> SUFFICES ASSUME NEW s \in Requests, sess'[s].completion # None
                 PROVE  \/ kind[sess'[s].completion] = "undock"
                        \/ sess'[s].completion = s /\ kind[s] = "path"
      OBVIOUS
    <3>1. CASE s = h
      BY <1>2, <1>3, <1>5, <3>1
    <3>2. CASE s # h
      BY <1>4, <3>2 DEF SessionInv, OwnCallback
    <3> QED BY <3>1, <3>2
  <2> QED BY <1>1, <1>2, <1>3, <2>1 DEF SessionInv, OwnCallback, h
<1>10. ActiveInv'
  <2> SUFFICES ASSUME NEW r \in Requests, cur = r, waiting = r
               PROVE  kind'[r] = "path" /\ ActiveSession(r)'
    BY <1>1 DEF ActiveInv
  <2>1. r = reqs /\ kind[r] = "path" /\ ActiveSession(r) /\ h = r
    BY <1>3 DEF SessionInv, ActiveInv, WaitsForNewest, Requests, None
  <2>2. CASE Whole(r)
    <3>1. Armed(r)'
      BY <1>1, <1>5, <2>1, <2>2 DEF Armed, Whole
    <3> QED BY <1>1, <2>1, <3>1 DEF ActiveSession
  <2>3. CASE held["status"] = r /\ pc["status"] \in Leaving
    BY <1>1, <2>1, <2>3 DEF ActiveSession
  <2> QED BY <1>1, <2>1, <2>2, <2>3 DEF ActiveSession, Preparing, Leaving, Armed
<1> QED BY <1>7, <1>8, <1>9, <1>10 DEF SessionInv

LEMMA RefuseGoalSession ==
  ASSUME NavInv, SessionInv, RefuseGoal
  PROVE  SessionInv'
<1> USE DEF NavInv, TypeInv, TypeOK, Threads, CallbackThreads
<1> DEFINE h == held["executor"]
           c == sess[h].completion
<1>1. /\ UNCHANGED <<wp, cur, old, held, reqs, kind, waiting, goal>>
      /\ pc["executor"] = "refuse"
      /\ pc'["status"] = pc["status"] /\ cb'["status"] = cb["status"]
  BY DEF RefuseGoal, Fire, Goto, rmfVars
<1>2. h \in Requests /\ reqs \in Requests /\ c \in {None, reqs}
  BY <1>1, RequestOrNone DEF HoldsSession, CompletionInv, ArmedForRequest
<1>3. \/ c = None /\ cb'["executor"].of = None /\ pc'["executor"] = "return"
      \/ c = reqs /\ cb'["executor"].of = reqs
         /\ pc'["executor"] = (IF kind[reqs] = "undock" THEN "cbReport" ELSE "cbInvalidate")
  <2>1. CASE c = None
    <3>1. Fire("executor", NoCallback)
      BY <2>1 DEF RefuseGoal
    <3> QED BY <2>1, <3>1, NoCallbackFields DEF Fire, Goto, CallbackEntry
  <2>2. CASE c # None
    <3>1. c = reqs /\ Fire("executor", [kind |-> "completed", of |-> reqs])
      BY <1>2, <2>2 DEF RefuseGoal
    <3> QED BY <3>1 DEF Fire, Goto, CallbackEntry
  <2> QED BY <2>1, <2>2
<1>4. \A s \in Requests : /\ s # h => sess'[s] = sess[s]
                          /\ sess'[s].completion = sess[s].completion
                          /\ sess'[s].goalId = sess[s].goalId
  BY DEF RefuseGoal, Session
<1>5. \A r \in Requests :
        (Fresh(r)' <=> r > reqs) /\ (r > reqs => Fresh(r) /\ r # reqs /\ r # None)
  BY <1>1, <1>2, <1>3 DEF Fresh, Preparing, Requests, None
<1> HIDE DEF c
<1>6. FreshUntouched'
  BY <1>1, <1>3, <1>4, <1>5 DEF SessionInv, FreshUntouched, Empty
<1>7. WaitsForNewest'
  BY <1>1, <1>3 DEF SessionInv, WaitsForNewest, Stopping
<1>8. OwnCallback'
  BY <1>1, <1>3, <1>4 DEF SessionInv, OwnCallback, Sending
<1>9. ActiveInv'
  <2> SUFFICES ASSUME NEW r \in Requests, cur = r, waiting = r
               PROVE  kind'[r] = "path" /\ ActiveSession(r)'
    BY <1>1 DEF ActiveInv
  <2>1. r = reqs /\ kind[r] = "path" /\ ActiveSession(r) /\ h = r
    BY <1>1 DEF SessionInv, ActiveInv, WaitsForNewest, OwnCallback, Requests, None
  <2>2. CASE Armed(r)
    <3>1. c = reqs
      BY <2>1, <2>2 DEF Armed, c
    <3> QED BY <1>1, <1>2, <1>3, <2>1, <3>1 DEF ActiveSession, Leaving, Requests, None
  <2>3. CASE held["status"] = r /\ pc["status"] \in Leaving
    BY <1>1, <2>1, <2>3 DEF ActiveSession
  <2> QED BY <1>1, <2>1, <2>2, <2>3 DEF ActiveSession, Preparing, Leaving
<1> QED BY <1>6, <1>7, <1>8, <1>9 DEF SessionInv

\* The status thread takes the callback of the session it ends; if that is a
\* path's, it is the session's own.
LEMMA ScanStatusSession ==
  ASSUME NavInv, SessionInv, ScanStatus
  PROVE  SessionInv'
<1> USE DEF NavInv, TypeInv, TypeOK, Threads, CallbackThreads
<1> DEFINE h == held["status"]
           g == sess[h].goalId
           c == EndCallback(h)
<1>1. /\ UNCHANGED <<wp, cur, old, held, reqs, kind, waiting, goal>>
      /\ pc["status"] = "scan"
      /\ pc'["executor"] = pc["executor"] /\ cb'["executor"] = cb["executor"]
  BY DEF ScanStatus, Fire, Goto, rmfVars
<1>2. CASE ~(g # None /\ goal[g] \in Terminal)
  <2>1. UNCHANGED <<sess, cb>> /\ pc'["status"] = "return"
    BY <1>2 DEF ScanStatus, Goto
  <2> QED
    BY <1>1, <2>1, QuietSession
    DEF QuietStep, QuietExecutor, QuietStatus, Same, Kept, Leaving
<1>3. CASE g # None /\ goal[g] \in Terminal
  <2>1. h \in Requests /\ g \in Requests /\ Fire("status", c) /\ Invalidate(h)
    BY <1>1, <1>3, RequestOrNone, SessionFields DEF HoldsSession, ScanStatus
  <2>2. \A s \in Requests : sess'[s] = IF s = h THEN Invalidated ELSE sess[s]
    BY <2>1 DEF Invalidate
  <2>3. ~Fresh(h) /\ ~Fresh(g)
    <3>1. ~Fresh(h)
      BY <2>1 DEF SessionInv, FreshUntouched
    <3>2. goal[g] # "unsent"
      BY <1>3 DEF Terminal
    <3> QED BY <2>1, <3>1, <3>2
            DEF Fresh, CompletionInv, FutureUntouched, SendingIsNew, Sending, Preparing
  <2>4. \/ c.kind = "none" /\ c.of = None
        \/ c.kind = "completed" /\ c.of = g /\ sess[h].completion = g
        \/ c.kind = "failed" /\ c.of = h
    BY <2>1, NoCallbackFields DEF EndCallback, CompletionInv, CompletionMatchesGoal
  <2>5. cb'["status"] = c /\ pc'["status"] = CallbackEntry(c)
    BY <2>1 DEF Fire, Goto
  <2>6. \A r \in Requests : (Fresh(r)' <=> Fresh(r)) /\ r # None
    BY <1>1 DEF Fresh, Requests, None
  <2> HIDE DEF c
  <2>7. FreshUntouched'
    <3> SUFFICES ASSUME NEW r \in Requests, Fresh(r)'
                 PROVE  /\ Empty(r)' /\ wp' # r /\ old' # r /\ held'["status"] # r
                        /\ cb'["executor"].of # r /\ cb'["status"].of # r
                        /\ r > reqs' => cur' # r /\ held'["executor"] # r
                        /\ pc'["executor"] = "swap" => cur' # r
      BY DEF FreshUntouched
    <3>1. Fresh(r) /\ r # h /\ r # g /\ r # None
      BY <2>3, <2>6
    <3>2. cb'["status"].of # r
      BY <2>4, <2>5, <3>1
    <3>3. Empty(r)'
      BY <2>2, <3>1 DEF SessionInv, FreshUntouched, Empty
    <3> QED BY <1>1, <3>1, <3>2, <3>3 DEF SessionInv, FreshUntouched
  <2>8. WaitsForNewest'
    BY <1>1 DEF SessionInv, WaitsForNewest
  <2>9. OwnCallback'
    <3>1. \A s \in Requests : sess'[s].completion \in {sess[s].completion, None}
      BY <2>2, InvalidatedFields
    <3>2. pc'["status"] \in Leaving => c.of = h
      <4>1. CASE c.kind = "completed" /\ c.of = g /\ sess[h].completion = g
        BY <1>3, <2>1, <2>5, <4>1 DEF CallbackEntry, Leaving, SessionInv, OwnCallback
      <4> QED BY <2>4, <2>5, <4>1 DEF CallbackEntry, Leaving
    <3> QED BY <1>1, <2>5, <3>1, <3>2 DEF SessionInv, OwnCallback
  <2>10. ActiveInv'
    <3> SUFFICES ASSUME NEW r \in Requests, cur = r, waiting = r
                 PROVE  kind'[r] = "path" /\ ActiveSession(r)'
      BY <1>1 DEF ActiveInv
    <3>1. kind[r] = "path" /\ ActiveSession(r)
      BY DEF SessionInv, ActiveInv
    <3>2. CASE r = h
      <4>1. CASE cb["executor"].of = r /\ pc["executor"] \in Leaving
        BY <1>1, <3>1, <4>1 DEF ActiveSession
      <4>2. CASE Armed(r)
        <5>1. g = r /\ sess[h].completion = r /\ sess[h].failure
          BY <3>2, <4>2 DEF Armed, Whole
        <5>2. c.kind \in {"completed", "failed"} /\ c.of = r
          BY <1>3, <2>6, <5>1, <3>2 DEF c, EndCallback
        <5>3. pc'["status"] = "cbInvalidate"
          BY <2>5, <3>1, <5>2 DEF CallbackEntry
        <5> QED BY <1>1, <3>1, <3>2, <5>3 DEF ActiveSession, Leaving
      <4> QED
        BY <1>1, <1>3, <2>3, <3>1, <3>2, <4>1, <4>2
        DEF ActiveSession, Empty, Fresh, Leaving
    <3>3. CASE r # h
      <4>1. sess'[r] = sess[r]
        BY <2>2, <3>3
      <4>2. /\ Whole(r) => Whole(r)'
            /\ Empty(r) => Empty(r)'
            /\ Armed(r) => Armed(r)'
        BY <1>1, <4>1 DEF Whole, Empty, Armed
      <4> QED BY <1>1, <3>1, <3>3, <4>2 DEF ActiveSession
    <3> QED BY <3>2, <3>3
  <2> QED BY <2>7, <2>8, <2>9, <2>10 DEF SessionInv
<1> QED BY <1>2, <1>3

LEMMA SessionInit == Init => SessionInv
<1> SUFFICES ASSUME Init PROVE SessionInv OBVIOUS
<1>1. /\ \A s \in Requests : Empty(s) /\ s # None
      /\ pc["executor"] = "idle" /\ pc["status"] = "idle"
      /\ held["executor"] = None /\ held["status"] = None
      /\ cb["executor"].of = None /\ cb["status"].of = None
      /\ cur = None /\ wp = None /\ old = None /\ waiting = None
  BY NoCallbackFields
  DEF Init, NewSession, Empty, Threads, CallbackThreads, Requests, None
<1>2. FreshUntouched /\ WaitsForNewest
  BY <1>1 DEF FreshUntouched, WaitsForNewest, Stopping
<1>3. OwnCallback /\ ActiveInv
  BY <1>1 DEF OwnCallback, ActiveInv, Empty, Sending, Leaving
<1> QED BY <1>2, <1>3 DEF SessionInv

LEMMA SessionStep == NavInv /\ SessionInv /\ [Next]_vars => SessionInv'
<1> SUFFICES ASSUME NavInv, SessionInv, [Next]_vars PROVE SessionInv' OBVIOUS
<1>1. CASE LookingAction
  BY <1>1, LookingIsQuiet, QuietSession
<1>2. CASE WritingAction
  BY <1>2, WritingIsQuiet, QuietSession
<1>3. CASE FollowNewPath \/ FollowEmptyPath \/ DockWithoutMotion \/ DockWithUndock
  BY <1>3, RequestSession
<1>4. CASE SwapSession \/ WireSession \/ ExecutePath \/ ArmSession
  BY <1>4, SwapSessionSession, WireSessionSession, ExecutePathSession, ArmSessionSession
<1>5. CASE SendGoal \/ GoalAccepted \/ GoalNotAccepted \/ RefuseGoal
  BY <1>5, SendingSession, RefuseGoalSession
<1>6. CASE ScanStatus
  BY <1>6, ScanStatusSession
<1>7. CASE UNCHANGED vars
  <2>1. QuietStep
    BY <1>7
    DEF vars, sessionVars, threadVars, rmfVars, QuietStep, QuietExecutor, QuietStatus,
        Same, Kept
  <2> QED BY <2>1, QuietSession
<1> QED
  BY <1>1, <1>2, <1>3, <1>4, <1>5, <1>6, <1>7
  DEF Next, ExecutorStep, StatusStep, FeedbackStep, RmfStep, RobotStep, CallbackStep,
      LookingAction, WritingAction, CallbackThreads

\* Whenever no call of RMF or tick is under way, the active session of the plan
\* RMF waits for can be ended by a status message, or is being ended: paths that
\* replace each other, undocks, stops and late callbacks never leave a session
\* active whose callbacks or goal are lost (follow_new_path, execute_path).
THEOREM ActiveSessionEnds == Spec => []ActiveSessionCanEnd
<1>1. TypeInv /\ SessionInv => ActiveSessionCanEnd
  <2> SUFFICES ASSUME TypeInv, SessionInv, pc["executor"] = "idle", cur # None, cur = waiting
               PROVE  \/ Armed(cur) /\ goal[cur] \in AtRobot
                      \/ held["status"] = cur /\ pc["status"] \in Leaving
    BY DEF ActiveSessionCanEnd, Armed, Whole, Leaving
  <2>1. cur \in Requests
    BY RequestOrNone DEF TypeInv, TypeOK
  <2> QED BY <2>1 DEF SessionInv, ActiveInv, ActiveSession, Preparing, Leaving
<1> QED
  BY <1>1, TypeInit, TypeStep, CompletionInit, CompletionStep, EstimatorInit, EstimatorStep,
     SessionInit, SessionStep, PTL DEF Spec, NavInv

-----------------------------------------------------------------------------
(***************************************************************************)
(* Why the end of a path is never lost while RMF waits for it, if RMF      *)
(* neither stops nor replaces plans and no reply misses its timeout.  Then *)
(* only the newest request can be waited for; whoever takes a callback of  *)
(* its session takes the last one, and which thread that is follows from   *)
(* what became of the goal.  What is left of PathResolves is fairness.     *)
(***************************************************************************)

\* Thread t runs a callback of a path.
OfPath(t) ==
  /\ pc[t] \in Leaving \union {"cbReport"}
  /\ cb[t].of # None /\ kind[cb[t].of] = "path"

\* No callback is left in session s.
Silent(s) == sess[s].completion # s /\ ~sess[s].failure

CallbackOfWait(t) ==
  /\ pc[t] \in Leaving \/ (pc[t] = "cbReport" /\ cb[t].kind = "failed") => OfPath(t)
  /\ OfPath(t) =>
       /\ cb[t].of = waiting
       /\ t = "status" \/ pc[t] # "cbInvalidate" => Silent(waiting)

\* The executor ends a path whose goal never ran, the status thread the others.
EndedByGoal ==
  /\ OfPath("executor") => goal[waiting] \in {"rejected", "lost"}
  /\ OfPath("status") => goal[waiting] \in Terminal
  /\ cb["executor"].kind # "failed"

FailureOfWait ==
  pendingFailure =>
    /\ waiting # None /\ kind[waiting] = "path"
    /\ goal[waiting] \in Terminal /\ Silent(waiting)
    /\ ~OfPath("executor") /\ ~OfPath("status")

SessionOfWait ==
  \A s \in Requests :
    /\ sess[s].failure => kind[s] = "path" /\ sess[s].goalId \in {None, s}
    /\ kind[s] = "path" /\ ~Silent(s) => waiting = s

SendingOfWait ==
  /\ pc["executor"] \notin Stopping \union {"stopClear"}
  /\ pc["executor"] \in Preparing => kind[reqs] = "path"
  /\ pc["executor"] \in Sending \union {"refuse"} /\ kind[reqs] = "path" =>
       waiting = reqs
  /\ pc["executor"] = "await" =>
       /\ goal[reqs] \in {"sent", "rejected"} \union AtRobot
       /\ kind[reqs] = "path" => waiting = reqs \/ goal[reqs] \in AtRobot
  /\ pc["executor"] = "refuse" => goal[reqs] \in {"rejected", "lost"}

SomebodyServes ==
  waiting # None /\ kind[waiting] = "path" =>
    \/ cur = waiting
    \/ pc["executor"] = "swap"
    \/ \E t \in CallbackThreads : pc[t] = "cbReport" /\ cb[t].of = waiting
    \/ pendingFailure

ServedInv ==
  /\ CallbackOfWait("executor") /\ CallbackOfWait("status")
  /\ EndedByGoal /\ FailureOfWait /\ SessionOfWait /\ SendingOfWait
  /\ SomebodyServes

LEMMA ServedInit == Init => ServedInv
<1> SUFFICES ASSUME Init PROVE ServedInv OBVIOUS
<1>1. /\ \A s \in Requests : sess[s].completion = None /\ ~sess[s].failure /\ s # None
      /\ pc["executor"] = "idle" /\ pc["status"] = "idle"
      /\ waiting = None /\ ~pendingFailure /\ cb["executor"].kind # "failed"
  BY NoCallbackFields DEF Init, NewSession, Threads, CallbackThreads, Requests, None
<1>2. ~OfPath("executor") /\ ~OfPath("status")
  BY <1>1 DEF OfPath, Leaving
<1> QED
  BY <1>1, <1>2
  DEF ServedInv, CallbackOfWait, EndedByGoal, FailureOfWait, SessionOfWait, SendingOfWait,
      SomebodyServes, Silent, Leaving, Sending, Stopping, Preparing

\* Where the executor neither brings a goal to the robot nor runs a callback.
Away == {"idle", "tickTake", "tickEstimate", "tickFailure", "return"}

\* Most steps leave RMF's wait, the callbacks and the results of goals alone.
PlainStep ==
  /\ UNCHANGED <<reqs, kind, waiting, pendingFailure>>
  /\ cur' = cur
  /\ \A s \in Requests :
       /\ sess'[s].completion \in {sess[s].completion, None}
       /\ sess'[s].failure \in {sess[s].failure, FALSE}
       /\ sess'[s].goalId \in {sess[s].goalId, None}
  /\ \A g \in Requests :
       /\ goal[g] \in {"rejected", "lost"} \union Terminal => goal'[g] = goal[g]
       /\ goal[g] \in AtRobot => goal'[g] \in AtRobot
       /\ goal[g] = "sent" => goal'[g] \in {"sent", "rejected"} \union AtRobot
  /\ \/ pc'["executor"] = pc["executor"] /\ cb'["executor"] = cb["executor"]
     \/ /\ pc'["executor"] \in Away
        /\ pc["executor"] \in Away \union {"await"}
        /\ cb'["executor"] \in {cb["executor"], NoCallback}
  /\ \/ pc'["status"] = pc["status"] /\ cb'["status"] = cb["status"]
     \/ {pc["status"], pc'["status"]} \subseteq {"idle", "scan", "return"}

LEMMA PlainServed ==
  ASSUME NavInv, SessionInv, ServedInv, PlainStep
  PROVE  ServedInv'
<1> USE DEF NavInv, TypeInv, TypeOK, Threads, CallbackThreads
<1>1. \A t \in CallbackThreads : OfPath(t)' =>
        OfPath(t) /\ pc'[t] = pc[t] /\ cb'[t] = cb[t]
  BY DEF PlainStep, OfPath, Leaving, Away
<1>2. \A s \in Requests : Silent(s) => Silent(s)'
  BY RequestOrNone DEF PlainStep, Silent
<1>3. waiting # None => waiting \in Requests
  BY RequestOrNone
<1>4. \A t \in CallbackThreads : OfPath(t) => waiting # None
  BY DEF ServedInv, CallbackOfWait, OfPath
<1>5. CallbackOfWait("executor")' /\ CallbackOfWait("status")'
  <2> SUFFICES ASSUME NEW t \in CallbackThreads, CallbackOfWait(t)
               PROVE  CallbackOfWait(t)'
    BY DEF ServedInv
  <2>1. pc'[t] \in Leaving \union {"cbReport"} => pc'[t] = pc[t] /\ cb'[t] = cb[t]
    BY DEF PlainStep, Leaving, Away
  <2>2. pc'[t] \in Leaving \/ (pc'[t] = "cbReport" /\ cb'[t].kind = "failed") => OfPath(t)'
    BY <2>1 DEF CallbackOfWait, OfPath, PlainStep
  <2> QED BY <1>1, <1>2, <1>3, <1>4, <2>2 DEF CallbackOfWait, PlainStep
<1>6. EndedByGoal'
  BY <1>1, <1>3, <1>4, NoCallbackFields DEF ServedInv, EndedByGoal, PlainStep
<1>7. FailureOfWait'
  BY <1>1, <1>2, <1>3 DEF ServedInv, FailureOfWait, PlainStep
<1>8. SessionOfWait'
  <2>1. \A s \in Requests : sess'[s].failure => sess[s].failure
    BY DEF PlainStep
  <2> QED BY <1>2, <2>1 DEF ServedInv, SessionOfWait, PlainStep
<1>9. SendingOfWait'
  <2>1. pc'["executor"] \in Sending \union {"await", "refuse"} \union Stopping \union {"stopClear"} =>
          pc'["executor"] = pc["executor"]
    BY DEF PlainStep, Away, Sending, Stopping
  <2>. USE DEF Preparing, Sending
  <2>2. pc["executor"] \in {"await", "refuse"} => reqs \in Requests
    BY RequestOrNone DEF CompletionInv, ArmedForRequest, SessionInv, OwnCallback
  <2> QED BY <2>1, <2>2 DEF ServedInv, SendingOfWait, PlainStep
<1>10. SomebodyServes'
  BY DEF ServedInv, SomebodyServes, PlainStep, Away
<1> QED BY <1>5, <1>6, <1>7, <1>8, <1>9, <1>10 DEF ServedInv

PlainAction ==
  \/ Tick \/ TakeFeedback \/ CallEstimator \/ (TakeFailure /\ ~pendingFailure)
  \/ RmfFreesPlan \/ GoalAccepted \/ StatusArrives \/ FeedbackStep \/ RobotStep
  \/ \E t \in CallbackThreads : Return(t)

LEMMA PlainActionServed ==
  ASSUME NavInv, SessionInv, ServedInv, PlainAction
  PROVE  ServedInv'
<1> USE DEF NavInv, TypeInv, TypeOK, Threads, CallbackThreads
<1> DEFINE Wait == UNCHANGED <<reqs, kind, waiting, pendingFailure, cur>>
           Executor == pc'["executor"] = pc["executor"] /\ cb'["executor"] = cb["executor"]
           Status == pc'["status"] = pc["status"] /\ cb'["status"] = cb["status"]
           Parts == sess' = sess \/ \A s \in Requests : Kept(s)
<1>1. ASSUME Wait, goal' = goal, Parts,
             \/ Executor
             \/ /\ pc'["executor"] \in Away
                /\ pc["executor"] \in Away \union {"await"}
                /\ cb'["executor"] \in {cb["executor"], NoCallback},
             Status \/ {pc["status"], pc'["status"]} \subseteq {"idle", "scan", "return"}
      PROVE  ServedInv'
  <2>1. \A s \in Requests :
          /\ sess'[s].completion = sess[s].completion
          /\ sess'[s].failure = sess[s].failure /\ sess'[s].goalId = sess[s].goalId
    BY <1>1 DEF Kept
  <2>2. PlainStep
    BY <1>1, <2>1 DEF PlainStep
  <2> QED BY <2>2, PlainServed
<1>2. CASE Tick \/ CallEstimator \/ GoalAccepted \/ RmfFreesPlan
  <2>1. Wait /\ goal' = goal /\ sess' = sess
    BY <1>2 DEF Tick, CallEstimator, GoalAccepted, RmfFreesPlan, sessionVars, rmfVars
  <2>2. Status /\ cb' = cb
    BY <1>2 DEF Tick, CallEstimator, GoalAccepted, RmfFreesPlan, GotoWith, Goto, threadVars
  <2>3. \/ Executor
        \/ pc'["executor"] \in Away /\ pc["executor"] \in Away \union {"await"}
    BY <1>2
    DEF Tick, CallEstimator, GoalAccepted, RmfFreesPlan, GotoWith, Goto, threadVars, Away
  <2> QED BY <1>1, <2>1, <2>2, <2>3
<1>3. CASE TakeFeedback
  <2>1. Wait /\ goal' = goal /\ Status /\ cb' = cb
    BY <1>3 DEF TakeFeedback, Goto, rmfVars
  <2>2. pc'["executor"] \in Away /\ pc["executor"] \in Away
    BY <1>3 DEF TakeFeedback, Goto, Away
  <2>3. \A s \in Requests : Kept(s)
    BY <1>3 DEF TakeFeedback, Kept, Session
  <2> QED BY <1>1, <2>1, <2>2, <2>3
<1>4. CASE TakeFailure /\ ~pendingFailure
  <2>1. Wait /\ goal' = goal /\ sess' = sess /\ Status /\ cb' = cb
    BY <1>4 DEF TakeFailure, Leave, GotoWith, Goto
  <2>2. pc'["executor"] \in Away /\ pc["executor"] \in Away
    BY <1>4 DEF TakeFailure, Leave, GotoWith, Goto, Away
  <2> QED BY <1>1, <2>1, <2>2
<1>5. CASE StatusArrives
  <2>1. Wait /\ goal' = goal /\ sess' = sess /\ Executor
    BY <1>5 DEF StatusArrives, GotoWith, Goto, sessionVars, rmfVars
  <2>2. {pc["status"], pc'["status"]} \subseteq {"idle", "scan", "return"}
    BY <1>5 DEF StatusArrives, GotoWith, Goto
  <2> QED BY <1>1, <2>1, <2>2
<1>6. CASE FeedbackStep
  <2>1. Wait /\ goal' = goal
    BY <1>6
    DEF FeedbackStep, FeedbackArrives, MatchGoal, StoreReason, CheckDone, BufferFeedback,
        sessionVars, rmfVars
  <2>2. Executor /\ Status
    BY <1>6
    DEF FeedbackStep, FeedbackArrives, MatchGoal, StoreReason, CheckDone, BufferFeedback,
        Leave, GotoWith, Goto
  <2>3. Parts
    <3>1. CASE StoreReason
      BY <3>1 DEF StoreReason, Kept, Session
    <3>2. CASE BufferFeedback
      BY <3>2 DEF BufferFeedback, Kept, Session
    <3> QED BY <1>6, <3>1, <3>2
            DEF FeedbackStep, FeedbackArrives, MatchGoal, CheckDone, sessionVars
  <2> QED BY <1>1, <2>1, <2>2, <2>3
<1>7. CASE RobotStep
  <2> PICK g \in Requests : RobotDecides(g) \/ RobotEnds(g)
    BY <1>7 DEF RobotStep
  <2>1. Wait /\ sess' = sess /\ Executor /\ Status
    BY DEF RobotDecides, RobotEnds, sessionVars, threadVars, rmfVars
  <2>2. \A h \in Requests :
          \/ goal'[h] = goal[h]
          \/ goal[h] = "sent" /\ goal'[h] \in {"executing", "rejected"}
          \/ goal[h] = "executing" /\ goal'[h] \in Terminal
    BY DEF RobotDecides, RobotEnds
  <2>3. PlainStep
    BY <2>1, <2>2 DEF PlainStep, AtRobot, Terminal
  <2> QED BY <2>3, PlainServed
<1>8. CASE \E t \in CallbackThreads : Return(t)
  <2> PICK t \in CallbackThreads : Return(t)
    BY <1>8
  <2>1. Wait /\ goal' = goal /\ sess' = sess
    BY DEF Return, sessionVars, rmfVars
  <2>2. /\ pc[t] = "return" /\ pc'[t] = "idle"
        /\ cb'[t] = NoCallback
        /\ \A u \in CallbackThreads : u # t => pc'[u] = pc[u] /\ cb'[u] = cb[u]
    BY DEF Return, Leave, GotoWith, Goto
  <2> QED BY <1>1, <2>1, <2>2 DEF Away
<1> QED
  BY <1>2, <1>3, <1>4, <1>5, <1>6, <1>7, <1>8 DEF PlainAction

\* The tick takes the buffered failure: RMF is asked to replan.
LEMMA TakeFailureServed ==
  ASSUME NavInv, SessionInv, ServedInv, TakeFailure
  PROVE  ServedInv'
<1> USE DEF NavInv, TypeInv, TypeOK, Threads, CallbackThreads
<1>1. CASE ~pendingFailure
  BY <1>1, PlainActionServed DEF PlainAction
<1>2. CASE pendingFailure
  <2>1. /\ waiting' = None /\ pendingFailure' = FALSE
        /\ UNCHANGED <<sess, cb, kind>>
        /\ pc'["executor"] = "idle" /\ pc'["status"] = pc["status"]
    BY <1>2 DEF TakeFailure, Leave, GotoWith, Goto
  <2>2. /\ ~OfPath("executor") /\ ~OfPath("status") /\ Silent(waiting)
        /\ waiting \in Requests
    BY <1>2, RequestOrNone DEF ServedInv, FailureOfWait
  <2>3. ~OfPath("executor")' /\ ~OfPath("status")'
    BY <2>1, <2>2 DEF OfPath, Leaving
  <2>4. \A s \in Requests : /\ Silent(s)' <=> Silent(s)
                            /\ sess'[s].failure = sess[s].failure
    BY <2>1 DEF Silent
  <2>5. CallbackOfWait("executor")' /\ CallbackOfWait("status")'
    BY <2>1, <2>3 DEF ServedInv, CallbackOfWait, OfPath, Leaving
  <2>6. EndedByGoal' /\ FailureOfWait' /\ SomebodyServes' /\ SendingOfWait'
    BY <2>1, <2>3
    DEF ServedInv, EndedByGoal, FailureOfWait, SomebodyServes, SendingOfWait, Sending,
        Stopping, Preparing
  <2>7. SessionOfWait'
    BY <2>1, <2>2, <2>4 DEF ServedInv, SessionOfWait
  <2> QED BY <2>5, <2>6, <2>7 DEF ServedInv
<1> QED BY <1>1, <1>2

\* While the executor brings a path's goal to the robot, nobody ends anything.
LEMMA SendingQuiet ==
  ASSUME NavInv, SessionInv, ServedInv, pc["executor"] \in Sending
  PROVE  /\ reqs \in Requests /\ kind[reqs] \in {"path", "undock"} /\ goal[reqs] = "unsent"
         /\ ~OfPath("executor") /\ ~OfPath("status") /\ ~pendingFailure
         /\ waiting # None /\ kind[waiting] = "path" => waiting = reqs /\ kind[reqs] = "path"
         /\ kind[reqs] = "path" => waiting = reqs
<1> USE DEF NavInv, TypeInv, TypeOK, Threads, CallbackThreads
<1>1. reqs \in Requests /\ kind[reqs] \in {"path", "undock"} /\ goal[reqs] = "unsent"
  BY RequestOrNone DEF CompletionInv, SendingIsNew, SessionInv, OwnCallback
<1>2. waiting # None => waiting = reqs
  BY DEF SessionInv, WaitsForNewest
<1>3. goal[reqs] \notin {"rejected", "lost"} \union Terminal
  BY <1>1 DEF Terminal
<1>4. ~OfPath("executor") /\ ~OfPath("status")
  <2> SUFFICES ASSUME NEW t \in CallbackThreads, OfPath(t) PROVE FALSE
    OBVIOUS
  <2>1. waiting = reqs
    BY <1>2 DEF ServedInv, CallbackOfWait, OfPath
  <2> QED BY <1>3, <2>1 DEF ServedInv, EndedByGoal
<1>5. ~pendingFailure
  BY <1>2, <1>3 DEF ServedInv, FailureOfWait
<1> QED
  BY <1>1, <1>2, <1>4, <1>5 DEF ServedInv, SendingOfWait

LEMMA RequestServed ==
  ASSUME NavInv, SessionInv, ServedInv, ~Preempt,
         FollowNewPath \/ FollowEmptyPath \/ DockWithoutMotion \/ DockWithUndock
  PROVE  ServedInv'
<1> USE DEF NavInv, TypeInv, TypeOK, Threads, CallbackThreads
<1>1. /\ waiting = None /\ reqs \in Nat /\ reqs' = reqs + 1 /\ reqs' \in Requests
      /\ UNCHANGED <<sess, cur, cb, pendingFailure, goal>>
      /\ pc["executor"] = "idle" /\ pc'["status"] = pc["status"]
      /\ pc'["executor"] \in {"idle", "swap", "promote"}
  <2>1. reqs \in Nat /\ reqs' = reqs + 1 /\ reqs < MaxRequests
    BY OrNoneNat DEF FollowNewPath, FollowEmptyPath, DockWithoutMotion, DockWithUndock, MayRequest
  <2>2. reqs' \in Requests
    BY <2>1, RequestsAssumption DEF Requests
  <2> QED
    BY <2>1, <2>2
    DEF FollowNewPath, FollowEmptyPath, DockWithoutMotion, DockWithUndock, MayRequest, GotoWith, Goto,
        sessionVars, threadVars
<1>2. /\ \A r \in Requests : r # reqs' => kind'[r] = kind[r]
      /\ kind[reqs'] = "none"
      /\ \A t \in CallbackThreads : cb[t].of # reqs'
      /\ sess[reqs'].completion = None /\ reqs' # None
  <2>1. Fresh(reqs') /\ reqs' > reqs
    BY <1>1 DEF Fresh
  <2>2. \A r \in Requests : r # reqs' => kind'[r] = kind[r]
    BY <1>1 DEF FollowNewPath, FollowEmptyPath, DockWithoutMotion, DockWithUndock
  <2> QED
    BY <1>1, <2>1, <2>2, RequestOrNone
    DEF SessionInv, FreshUntouched, Empty, EstimatorInv, FutureKind
<1>3. ~OfPath("executor") /\ ~OfPath("status") /\ ~pendingFailure
  BY <1>1 DEF ServedInv, CallbackOfWait, OfPath, FailureOfWait
<1>4. ~OfPath("executor")' /\ ~OfPath("status")'
  <2>1. ~OfPath("executor")'
    BY <1>1 DEF OfPath, Leaving
  <2>2. cb["status"].of # None => cb["status"].of \in Requests
    BY RequestOrNone DEF Callback
  <2>3. ~OfPath("status")'
    BY <1>1, <1>2, <1>3, <2>2 DEF OfPath
  <2> QED BY <2>1, <2>3
<1>5. CallbackOfWait("executor")' /\ CallbackOfWait("status")'
  BY <1>1, <1>3, <1>4 DEF ServedInv, CallbackOfWait, Leaving
<1>6. EndedByGoal' /\ FailureOfWait'
  BY <1>1, <1>3, <1>4 DEF ServedInv, EndedByGoal, FailureOfWait
<1>7. SessionOfWait'
  <2> SUFFICES ASSUME NEW s \in Requests
               PROVE  /\ sess[s].failure => kind'[s] = "path" /\ sess[s].goalId \in {None, s}
                      /\ kind'[s] = "path" /\ ~Silent(s)' => waiting' = s
    BY <1>1 DEF SessionOfWait
  <2>1. ~sess[s].failure /\ (kind[s] = "path" => Silent(s))
    BY <1>1, RequestOrNone DEF ServedInv, SessionOfWait, Silent
  <2>2. s = reqs' => Silent(s)
    BY <1>2, <2>1 DEF Silent
  <2>3. Silent(s)' <=> Silent(s)
    BY <1>1 DEF Silent
  <2> QED BY <1>2, <2>1, <2>2, <2>3
<1>8. SendingOfWait' /\ SomebodyServes'
  <2>1. CASE FollowNewPath
    <3>1. waiting' = reqs' /\ kind'[reqs'] = "path" /\ pc'["executor"] = "swap"
      BY <1>1, <2>1 DEF FollowNewPath, GotoWith, Goto
    <3> QED BY <3>1 DEF SendingOfWait, SomebodyServes, Stopping
  <2>2. CASE DockWithoutMotion \/ FollowEmptyPath
    <3>1. waiting' = None /\ pc'["executor"] = "idle"
      BY <1>1, <2>2 DEF DockWithoutMotion, FollowEmptyPath, threadVars
    <3> QED BY <3>1 DEF SendingOfWait, SomebodyServes, Stopping, Sending, Preparing
  <2>3. CASE DockWithUndock
    <3>1. waiting' = reqs' /\ kind'[reqs'] = "undock" /\ pc'["executor"] = "promote"
      BY <1>1, <2>3 DEF DockWithUndock, GotoWith, Goto
    <3> QED BY <3>1 DEF SendingOfWait, SomebodyServes, Stopping, Preparing
  <2> QED BY <2>1, <2>2, <2>3
<1> QED BY <1>5, <1>6, <1>7, <1>8 DEF ServedInv

\* follow_new_path and execute_path up to the goal: the callbacks of the new
\* request go into its own session.
LEMMA SendingServed ==
  ASSUME NavInv, SessionInv, ServedInv,
         SwapSession \/ InvalidateOld \/ SupersedeFailure \/ WireSession \/ ArmSession \/ SendGoal
  PROVE  ServedInv'
<1> USE DEF NavInv, TypeInv, TypeOK, Threads, CallbackThreads
<1> DEFINE h == held["executor"]
<1>1. /\ pc["executor"] \in Sending
      /\ pc["executor"] # "send" => pc'["executor"] \in Sending \ {"swap"}
      /\ pc["executor"] = "send" => pc'["executor"] = "await"
      /\ pc'["executor"] \in Preparing => pc["executor"] \in Preparing
      /\ pc'["status"] = pc["status"] /\ UNCHANGED <<reqs, kind, waiting, cb>>
  BY DEF SwapSession, InvalidateOld, SupersedeFailure, WireSession, ArmSession, SendGoal, Goto,
         Sending, Preparing, rmfVars
<1>2. /\ reqs \in Requests /\ kind[reqs] \in {"path", "undock"} /\ goal[reqs] = "unsent"
      /\ ~OfPath("executor") /\ ~OfPath("status") /\ ~pendingFailure
      /\ waiting # None /\ kind[waiting] = "path" => waiting = reqs /\ kind[reqs] = "path"
      /\ kind[reqs] = "path" => waiting = reqs
  BY <1>1, SendingQuiet
<1>3. ~OfPath("executor")' /\ ~OfPath("status")'
  BY <1>1, <1>2 DEF OfPath, Leaving, Sending
<1>4. CallbackOfWait("executor")' /\ CallbackOfWait("status")'
  BY <1>1, <1>2, <1>3 DEF ServedInv, CallbackOfWait, Leaving, Sending
<1>5. ~pendingFailure'
  BY <1>2 DEF SwapSession, InvalidateOld, SupersedeFailure, WireSession, ArmSession, SendGoal,
              sessionVars
<1>6. EndedByGoal' /\ FailureOfWait'
  BY <1>1, <1>2, <1>3, <1>5 DEF ServedInv, EndedByGoal, FailureOfWait
<1>7. SendingOfWait'
  <2>1. pc["executor"] = "send" => goal'[reqs] = "sent"
    BY <1>2 DEF SwapSession, InvalidateOld, SupersedeFailure, WireSession, ArmSession, SendGoal
  <2> QED BY <1>1, <1>2, <2>1 DEF ServedInv, SendingOfWait, Sending, Preparing, Stopping
<1>8. SomebodyServes'
  <2> SUFFICES ASSUME waiting # None, kind[waiting] = "path"
               PROVE  cur' = waiting
    BY <1>1 DEF SomebodyServes
  <2>1. waiting = reqs /\ kind[reqs] = "path"
    BY <1>2
  <2>2. CASE SwapSession
    BY <2>1, <2>2 DEF SwapSession, EstimatorInv, PathHoldsItsSession, Sending
  <2>3. CASE ~SwapSession
    <3>1. cur' = cur /\ pc["executor"] # "swap"
      BY <2>3 DEF InvalidateOld, SupersedeFailure, WireSession, ArmSession, SendGoal,
                  sessionVars
    <3>2. \A t \in CallbackThreads : ~(pc[t] = "cbReport" /\ cb[t].of = waiting)
      BY <1>2, <2>1 DEF OfPath, Requests, None
    <3> QED BY <1>2, <2>1, <3>1, <3>2 DEF ServedInv, SomebodyServes
  <2> QED BY <2>2, <2>3
<1>9. SessionOfWait'
  <2> SUFFICES ASSUME NEW s \in Requests
               PROVE  /\ sess'[s].failure => kind[s] = "path" /\ sess'[s].goalId \in {None, s}
                      /\ kind[s] = "path" /\ ~Silent(s)' => waiting = s
    BY <1>1 DEF SessionOfWait
  <2>1. /\ sess[s].failure => kind[s] = "path" /\ sess[s].goalId \in {None, s}
        /\ kind[s] = "path" /\ ~Silent(s) => waiting = s
    BY DEF ServedInv, SessionOfWait
  <2>2. CASE sess'[s] = sess[s]
    BY <2>1, <2>2 DEF Silent
  <2>3. CASE InvalidateOld
    <3>1. sess'[s] \in {sess[s], Invalidated}
      BY <2>3 DEF InvalidateOld, Invalidate
    <3> QED BY <2>1, <3>1, InvalidatedFields, RequestOrNone DEF Silent
  <2>4. CASE WireSession
    <3>1. /\ sess'[s].goalId = sess[s].goalId /\ sess'[s].completion = sess[s].completion
          /\ s # h => sess'[s] = sess[s]
      BY <2>4 DEF WireSession, Session
    <3>2. kind[reqs] = "path" /\ h = reqs /\ waiting = reqs
      BY <1>2, <2>4
      DEF WireSession, ServedInv, SendingOfWait, Preparing, Sending, EstimatorInv,
          PathHoldsItsSession
    <3>3. sess[reqs].goalId = None
      BY <1>2, <2>4 DEF WireSession, SessionInv, FreshUntouched, Fresh, Preparing, Empty
    <3> QED BY <2>1, <3>1, <3>2, <3>3 DEF Silent
  <2>5. CASE ArmSession
    <3>1. /\ sess'[s].failure = sess[s].failure
          /\ s # h => sess'[s] = sess[s]
          /\ s = h => sess'[s].goalId = reqs /\ sess'[s].completion = reqs
      BY <2>5 DEF ArmSession, Session
    <3>2. kind[reqs] = "path" => h = reqs /\ waiting = reqs
      BY <1>2, <2>5 DEF ArmSession, Sending, EstimatorInv, PathHoldsItsSession
    <3>3. kind[reqs] = "undock" /\ sess[s].failure => FALSE
      <4>1. sess[s].failure => waiting = s /\ kind[s] = "path"
        BY <2>1 DEF Silent
      <4> QED BY <1>2, <4>1 DEF Requests, None
    <3> QED BY <1>2, <2>1, <2>2, <3>1, <3>2, <3>3 DEF Silent
  <2> QED
    BY <2>2, <2>3, <2>4, <2>5
    DEF SwapSession, SupersedeFailure, SendGoal, sessionVars
<1> QED BY <1>4, <1>6, <1>7, <1>8, <1>9 DEF ServedInv

LEMMA ExecutePathServed ==
  ASSUME NavInv, SessionInv, ServedInv, ExecutePath
  PROVE  ServedInv'
<1> USE DEF NavInv, TypeInv, TypeOK, Threads, CallbackThreads
<1>1. /\ pc["executor"] = "promote" /\ pc["executor"] \in Sending
      /\ UNCHANGED <<sess, cur, reqs, kind, waiting, goal, pendingFailure>>
      /\ pc'["status"] = pc["status"] /\ cb'["status"] = cb["status"]
  BY DEF ExecutePath, Fire, GotoWith, Goto, Sending, sessionVars, rmfVars
<1>2. /\ reqs \in Requests /\ kind[reqs] \in {"path", "undock"} /\ goal[reqs] = "unsent"
      /\ ~OfPath("executor") /\ ~OfPath("status") /\ ~pendingFailure
      /\ waiting # None /\ kind[waiting] = "path" => waiting = reqs /\ kind[reqs] = "path"
      /\ kind[reqs] = "path" => waiting = reqs
  BY <1>1, SendingQuiet
<1>3. kind[reqs] = "path" => Promoted = reqs
  <2>1. kind[reqs] = "path" => held["executor"] = reqs /\ wp = reqs
    BY <1>1 DEF EstimatorInv, PathHoldsItsSession, Sending
  <2> QED BY <1>2, <2>1 DEF Promoted, Alive, Requests, None
<1>4. \/ /\ kind[reqs] = "undock" /\ pc'["executor"] = "cbReport"
         /\ cb'["executor"].of = reqs /\ cb'["executor"].kind = "completed"
      \/ cb' = cb /\ pc'["executor"] = "arm"
  <2>1. CASE Promoted = None
    <3>1. kind[reqs] = "undock"
      BY <1>2, <1>3, <2>1 DEF Requests, None
    <3> QED BY <2>1, <3>1 DEF ExecutePath, Fire, Goto, CallbackEntry
  <2>2. CASE Promoted # None
    BY <2>2 DEF ExecutePath, GotoWith, Goto
  <2> QED BY <2>1, <2>2
<1>5. ~OfPath("executor")' /\ ~OfPath("status")'
  BY <1>1, <1>2, <1>4 DEF OfPath, Leaving
<1>6. CallbackOfWait("executor")' /\ CallbackOfWait("status")' /\ EndedByGoal' /\ FailureOfWait'
  BY <1>1, <1>2, <1>4, <1>5 DEF ServedInv, CallbackOfWait, EndedByGoal, FailureOfWait, Leaving
<1>7. SessionOfWait'
  BY <1>1 DEF ServedInv, SessionOfWait, Silent
<1>8. SendingOfWait'
  BY <1>1, <1>2, <1>4 DEF ServedInv, SendingOfWait, Sending, Preparing, Stopping
<1>9. SomebodyServes'
  <2>1. waiting # None /\ kind[waiting] = "path" => cur = waiting
    BY <1>1, <1>2 DEF ServedInv, SomebodyServes, OfPath
  <2> QED BY <1>1, <2>1 DEF SomebodyServes
<1> QED BY <1>6, <1>7, <1>8, <1>9 DEF ServedInv

\* Without late replies, a goal that was not accepted never runs.
LEMMA GoalNotAcceptedServed ==
  ASSUME NavInv, SessionInv, ServedInv, GoalNotAccepted, ~LateReplies
  PROVE  ServedInv'
<1> USE DEF NavInv, TypeInv, TypeOK, Threads, CallbackThreads
<1>1. /\ pc["executor"] = "await" /\ pc'["executor"] = "refuse"
      /\ pc'["status"] = pc["status"]
      /\ UNCHANGED <<sess, cur, cb, reqs, kind, waiting, pendingFailure>>
      /\ goal[reqs] \in {"rejected", "sent"}
  BY DEF GoalNotAccepted, Goto, sessionVars
<1>2. reqs \in Requests
  BY <1>1, RequestOrNone DEF CompletionInv, ArmedForRequest
<1>3. goal'[reqs] \in {"rejected", "lost"} /\ \A g \in Requests : g # reqs => goal'[g] = goal[g]
  BY <1>2 DEF GoalNotAccepted
<1>4. goal[reqs] \notin AtRobot /\ goal[reqs] \notin Terminal
  BY <1>1 DEF AtRobot, Terminal
<1>5. \A t \in CallbackThreads : OfPath(t)' <=> OfPath(t) /\ t = "status"
  BY <1>1 DEF OfPath, Leaving
<1>6. \A s \in Requests : goal[s] \in Terminal => goal'[s] = goal[s]
  BY <1>3, <1>4
<1>7. CallbackOfWait("executor")' /\ CallbackOfWait("status")'
  BY <1>1, <1>5 DEF ServedInv, CallbackOfWait, Silent, Leaving
<1>8. EndedByGoal' /\ FailureOfWait'
  <2>1. waiting \in Requests \/ (~OfPath("status") /\ ~pendingFailure)
    BY RequestOrNone DEF ServedInv, CallbackOfWait, FailureOfWait, OfPath
  <2> QED
    BY <1>1, <1>5, <1>6, <2>1 DEF ServedInv, EndedByGoal, FailureOfWait, Silent
<1>9. SessionOfWait' /\ SomebodyServes'
  BY <1>1 DEF ServedInv, SessionOfWait, SomebodyServes, Silent
<1>10. SendingOfWait'
  BY <1>1, <1>3, <1>4 DEF ServedInv, SendingOfWait, Sending, Preparing, Stopping
<1> QED BY <1>7, <1>8, <1>9, <1>10 DEF ServedInv

LEMMA RefuseGoalServed ==
  ASSUME NavInv, SessionInv, ServedInv, RefuseGoal
  PROVE  ServedInv'
<1> USE DEF NavInv, TypeInv, TypeOK, Threads, CallbackThreads
<1> DEFINE h == held["executor"]
           c == sess[h].completion
<1>1. /\ UNCHANGED <<cur, reqs, kind, waiting, goal, pendingFailure>>
      /\ pc["executor"] = "refuse"
      /\ pc'["status"] = pc["status"] /\ cb'["status"] = cb["status"]
  BY DEF RefuseGoal, Fire, Goto, rmfVars
<1>2. h \in Requests /\ reqs \in Requests /\ c \in {None, reqs}
  BY <1>1, RequestOrNone DEF HoldsSession, CompletionInv, ArmedForRequest
<1>3. /\ kind[reqs] \in {"path", "undock"}
      /\ kind[reqs] = "path" => waiting = reqs
      /\ goal[reqs] \in {"rejected", "lost"}
  BY <1>1 DEF SessionInv, OwnCallback, ServedInv, SendingOfWait
<1>4. \/ c = None /\ cb'["executor"] = NoCallback /\ pc'["executor"] = "return"
      \/ /\ cb'["executor"].of = reqs /\ cb'["executor"].kind = "completed"
         /\ pc'["executor"] = (IF kind[reqs] = "undock" THEN "cbReport" ELSE "cbInvalidate")
  <2>1. CASE c = None
    <3>1. Fire("executor", NoCallback)
      BY <2>1 DEF RefuseGoal
    <3> QED BY <2>1, <3>1, NoCallbackFields DEF Fire, Goto, CallbackEntry
  <2>2. CASE c # None
    <3>1. c = reqs /\ Fire("executor", [kind |-> "completed", of |-> reqs])
      BY <1>2, <2>2 DEF RefuseGoal
    <3> QED BY <3>1 DEF Fire, Goto, CallbackEntry
  <2> QED BY <2>1, <2>2
<1>5. \A s \in Requests : /\ sess'[s].completion = sess[s].completion
                          /\ sess'[s].goalId = sess[s].goalId
                          /\ sess'[s].failure = sess[s].failure
  BY DEF RefuseGoal, Session
<1>6. /\ OfPath("status")' <=> OfPath("status")
      /\ OfPath("executor")' => kind[reqs] = "path" /\ waiting = reqs
                                /\ cb'["executor"].of = reqs /\ pc'["executor"] = "cbInvalidate"
  BY <1>1, <1>3, <1>4, NoCallbackFields DEF OfPath, Leaving
<1> HIDE DEF c
<1>7. CallbackOfWait("executor")'
  BY <1>1, <1>2, <1>3, <1>4, <1>6 DEF CallbackOfWait, Leaving, OfPath, Requests, None
<1>8. CallbackOfWait("status")'
  <2>1. waiting # None => (Silent(waiting)' <=> Silent(waiting))
    BY <1>1, <1>5, RequestOrNone DEF Silent
  <2>2. OfPath("status") => waiting # None
    BY DEF ServedInv, CallbackOfWait, OfPath
  <2> QED BY <1>1, <1>6, <2>1, <2>2 DEF ServedInv, CallbackOfWait
<1>9. EndedByGoal'
  BY <1>1, <1>3, <1>4, <1>6, NoCallbackFields DEF ServedInv, EndedByGoal
<1>10. FailureOfWait'
  <2>1. pendingFailure => waiting # reqs /\ waiting \in Requests
    BY <1>3, RequestOrNone DEF ServedInv, FailureOfWait, Terminal
  <2>2. waiting \in Requests => (Silent(waiting)' <=> Silent(waiting))
    BY <1>1, <1>5 DEF Silent
  <2> QED BY <1>1, <1>6, <2>1, <2>2 DEF ServedInv, FailureOfWait
<1>11. SessionOfWait'
  BY <1>1, <1>5 DEF ServedInv, SessionOfWait, Silent
<1>12. SendingOfWait'
  BY <1>4 DEF SendingOfWait, Sending, Preparing, Stopping
<1>13. SomebodyServes'
  BY <1>1 DEF ServedInv, SomebodyServes
<1> QED BY <1>7, <1>8, <1>9, <1>10, <1>11, <1>12, <1>13 DEF ServedInv

\* The lambdas: only the last callback of the session runs, on one thread.
LEMMA CallbackServed ==
  ASSUME NavInv, SessionInv, ServedInv, NEW t \in CallbackThreads,
         CallbackInvalidate(t) \/ CallbackReset(t) \/ ReportFinished(t) \/ ReportFailure(t)
  PROVE  ServedInv'
<1> USE DEF NavInv, TypeInv, TypeOK, Threads, CallbackThreads
<1>1. /\ UNCHANGED <<reqs, kind, goal, cb>>
      /\ \A u \in CallbackThreads : u # t => pc'[u] = pc[u]
      /\ pc[t] \in Leaving \union {"cbReport"}
      /\ pc[t] \in Leaving => pc'[t] \in {"cbReset", "cbReport"}
      /\ pc[t] = "cbReport" => pc'[t] = "return"
      /\ pc'[t] = "cbReset" => CallbackInvalidate(t)
  BY DEF CallbackInvalidate, CallbackReset, ReportFinished, ReportFailure, Goto, Leaving,
         rmfVars
<1>2. \A s \in Requests : sess'[s] \in {sess[s], Invalidated}
  BY DEF CallbackInvalidate, CallbackReset, ReportFinished, ReportFailure, Invalidate,
         sessionVars
<1>3. \A s \in Requests : /\ sess'[s].completion \in {sess[s].completion, None}
                          /\ s # None
                          /\ sess'[s].failure => sess[s].failure
                          /\ sess'[s].goalId \in {sess[s].goalId, None}
  BY <1>2, InvalidatedFields, RequestOrNone
<1>4. waiting # None => waiting \in Requests
  BY RequestOrNone
<1>5. \A u \in CallbackThreads : OfPath(u) => cb[u].of = waiting /\ waiting \in Requests
  BY <1>4 DEF ServedInv, CallbackOfWait, OfPath
<1>6. ~(OfPath("executor") /\ OfPath("status"))
  BY DEF ServedInv, EndedByGoal, Terminal
<1>7. pc["executor"] \in Sending => ~OfPath(t)
  BY SendingQuiet
<1>8. CASE OfPath(t) /\ pc[t] \in Leaving
  <2>1. waiting' = waiting /\ pendingFailure' = pendingFailure
    BY <1>8 DEF CallbackInvalidate, CallbackReset, ReportFinished, ReportFailure, Leaving, rmfVars,
                sessionVars
  <2>2. \A u \in CallbackThreads : OfPath(u)' <=> OfPath(u)
    BY <1>1, <1>8 DEF OfPath, Leaving
  <2>3. Silent(waiting)'
    <3>1. CASE CallbackInvalidate(t)
      <4>1. sess'[waiting] = Invalidated
        BY <1>5, <1>8, <3>1 DEF CallbackInvalidate, Invalidate
      <4> QED BY <1>5, <1>8, <2>1, <4>1, InvalidatedFields, RequestOrNone DEF Silent
    <3>2. CASE pc[t] # "cbInvalidate"
      <4>1. Silent(waiting)
        BY <1>8, <3>2 DEF ServedInv, CallbackOfWait
      <4> QED BY <1>3, <1>5, <1>8, <2>1, <4>1 DEF Silent
    <3> QED BY <1>1, <1>8, <3>1, <3>2
            DEF Leaving, CallbackReset, ReportFinished, ReportFailure
  <2>4. CallbackOfWait("executor")' /\ CallbackOfWait("status")'
    <3> SUFFICES ASSUME NEW u \in CallbackThreads, CallbackOfWait(u)
                 PROVE  CallbackOfWait(u)'
      BY DEF ServedInv
    <3>1. CASE u = t
      BY <1>1, <1>5, <1>8, <2>1, <2>2, <2>3, <3>1 DEF CallbackOfWait
    <3>2. CASE u # t
      BY <1>1, <2>1, <2>2, <2>3, <3>2 DEF CallbackOfWait
    <3> QED BY <3>1, <3>2
  <2>5. EndedByGoal' /\ FailureOfWait'
    BY <1>1, <1>8, <2>1, <2>2 DEF ServedInv, EndedByGoal, FailureOfWait
  <2>6. SessionOfWait'
    <3> SUFFICES ASSUME NEW s \in Requests
                 PROVE  /\ sess'[s].failure => kind[s] = "path" /\ sess'[s].goalId \in {None, s}
                        /\ kind[s] = "path" /\ ~Silent(s)' => waiting = s
      BY <1>1, <2>1 DEF SessionOfWait
    <3>1. Silent(s) => Silent(s)'
      BY <1>3 DEF Silent
    <3> QED BY <1>3, <3>1 DEF ServedInv, SessionOfWait
  <2>7. SendingOfWait'
    BY <1>1, <1>7, <1>8, <2>1 DEF ServedInv, SendingOfWait, Sending, Preparing, Stopping
  <2>8. SomebodyServes'
    <3>1. CASE CallbackInvalidate(t)
      <4>1. cur' = cur /\ pc[t] = "cbInvalidate"
        BY <3>1 DEF CallbackInvalidate
      <4>2. pc["executor"] # "swap"
        BY <1>7, <1>8 DEF Sending
      <4> QED BY <1>1, <2>1, <4>1, <4>2 DEF ServedInv, SomebodyServes
    <3>2. CASE ~CallbackInvalidate(t)
      <4>1. pc'[t] = "cbReport" /\ cb'[t].of = waiting'
        BY <1>1, <1>5, <1>8, <2>1, <3>2
      <4> QED BY <4>1 DEF SomebodyServes
    <3> QED BY <3>1, <3>2
  <2> QED BY <2>4, <2>5, <2>6, <2>7, <2>8 DEF ServedInv
<1>9. CASE OfPath(t) /\ pc[t] = "cbReport"
  <2>1. /\ cur' = cur /\ sess' = sess /\ pc'[t] = "return"
        /\ ~pendingFailure /\ waiting \in Requests /\ kind[waiting] = "path"
        /\ Silent(waiting) /\ cb[t].of = waiting
    BY <1>1, <1>5, <1>9
    DEF CallbackInvalidate, CallbackReset, ReportFinished, ReportFailure, ServedInv,
        FailureOfWait, CallbackOfWait, OfPath, sessionVars
  <2>2. ~OfPath("executor")' /\ ~OfPath("status")'
    BY <1>1, <1>6, <1>9, <2>1 DEF OfPath, Leaving
  <2>3. CallbackOfWait("executor")' /\ CallbackOfWait("status")'
    <3> SUFFICES ASSUME NEW u \in CallbackThreads, CallbackOfWait(u)
                 PROVE  CallbackOfWait(u)'
      BY DEF ServedInv
    <3>1. ~OfPath(u)' /\ (u # t => ~OfPath(u))
      BY <1>6, <1>9, <2>2
    <3> QED BY <1>1, <2>1, <3>1 DEF CallbackOfWait, Leaving
  <2>4. \A s \in Requests : /\ Silent(s)' <=> Silent(s)
                            /\ sess'[s].failure = sess[s].failure
    BY <2>1 DEF Silent
  <2>5. \/ waiting' = None /\ pendingFailure' = FALSE
        \/ waiting' = waiting /\ pendingFailure' = TRUE /\ t = "status"
    <3>1. CASE ReportFinished(t)
      BY <2>1, <3>1 DEF ReportFinished, sessionVars
    <3>2. CASE ReportFailure(t)
      BY <3>2 DEF ReportFailure, rmfVars, ServedInv, EndedByGoal
    <3> QED BY <1>9, <3>1, <3>2 DEF CallbackInvalidate, CallbackReset
  <2>6. EndedByGoal' /\ FailureOfWait'
    <3>1. t = "status" => goal[waiting] \in Terminal
      BY <1>9 DEF ServedInv, EndedByGoal
    <3> QED
      BY <1>1, <2>1, <2>2, <2>4, <2>5, <3>1, RequestOrNone DEF ServedInv, EndedByGoal, FailureOfWait
  <2>7. SessionOfWait'
    BY <1>1, <2>1, <2>4, <2>5 DEF ServedInv, SessionOfWait
  <2>8. SendingOfWait'
    <3>1. t = "status" => goal[waiting] \in Terminal
      BY <1>9 DEF ServedInv, EndedByGoal
    <3>2. t = "executor" => pc'["executor"] = "return"
      BY <2>1
    <3>3. t = "status" => pc'["executor"] = pc["executor"]
      BY <1>1
    <3>4. pc["executor"] \notin Sending
      BY <1>7, <1>9
    <3>5. CASE t = "executor"
      BY <3>2, <3>5 DEF SendingOfWait, Sending, Preparing, Stopping
    <3>6. CASE t = "status"
      BY <1>1, <2>1, <3>1, <3>3, <3>4, <3>6
      DEF ServedInv, SendingOfWait, Sending, Preparing, AtRobot, Terminal
    <3> QED BY <3>5, <3>6
  <2>9. SomebodyServes'
    BY <2>5 DEF SomebodyServes
  <2> QED BY <2>3, <2>6, <2>7, <2>8, <2>9 DEF ServedInv
<1>10. CASE ~OfPath(t)
  <2>1. /\ pc[t] = "cbReport" /\ ReportFinished(t) /\ pc'[t] = "return"
        /\ sess' = sess /\ cur' = cur /\ pendingFailure' = pendingFailure
    <3>1. pc[t] = "cbReport" /\ cb[t].kind # "failed"
      BY <1>1, <1>10 DEF ServedInv, CallbackOfWait, Leaving
    <3>2. ReportFinished(t)
      BY <3>1 DEF CallbackInvalidate, CallbackReset, ReportFailure
    <3> QED BY <1>1, <3>1, <3>2 DEF ReportFinished, sessionVars
  <2>2. cb[t].of # None /\ waiting # None /\ kind[waiting] = "path" => cb[t].of # waiting
    BY <1>10, <2>1 DEF OfPath
  <2>3. cb[t].of # None
    BY <2>1 DEF ReportFinished, CompletionInv, CallbacksTruthful
  <2>4. \/ waiting' = waiting
        \/ waiting' = None /\ (waiting # None => kind[waiting] # "path")
    BY <2>1, <2>2, <2>3 DEF ReportFinished
  <2>5. \A u \in CallbackThreads : OfPath(u)' <=> OfPath(u)
    BY <1>1, <1>10, <2>1 DEF OfPath, Leaving
  <2>6. \A u \in CallbackThreads : OfPath(u) => waiting' = waiting /\ kind[waiting] = "path"
    BY <1>5, <2>4 DEF OfPath
  <2>7. CallbackOfWait("executor")' /\ CallbackOfWait("status")'
    <3> SUFFICES ASSUME NEW u \in CallbackThreads, CallbackOfWait(u)
                 PROVE  CallbackOfWait(u)'
      BY DEF ServedInv
    <3>1. pc'[u] \in Leaving \/ (pc'[u] = "cbReport" /\ cb'[u].kind = "failed") => OfPath(u)
      BY <1>1, <2>1 DEF CallbackOfWait, Leaving
    <3> QED BY <1>1, <2>1, <2>5, <2>6, <3>1 DEF CallbackOfWait, Silent, Leaving
  <2>8. EndedByGoal' /\ FailureOfWait' /\ SessionOfWait'
    BY <1>1, <1>4, <2>1, <2>4, <2>5, <2>6
    DEF ServedInv, EndedByGoal, FailureOfWait, SessionOfWait, Silent, Requests, None
  <2>9. SendingOfWait'
    <3>1. pc["executor"] \in Sending => reqs \in Requests
      BY SendingQuiet
    <3>2. pc["executor"] \in {"await", "refuse"} => reqs \in Requests
      BY RequestOrNone DEF CompletionInv, ArmedForRequest
    <3>3. pc'["executor"] \in {pc["executor"], "return"}
      BY <1>1, <2>1
    <3> QED BY <1>1, <2>1, <2>4, <3>1, <3>2, <3>3, RequestOrNone
            DEF ServedInv, SendingOfWait, Sending, Preparing, Stopping
  <2>10. SomebodyServes'
    BY <1>1, <2>1, <2>2, <2>3, <2>4 DEF ServedInv, SomebodyServes
  <2> QED BY <2>7, <2>8, <2>9, <2>10 DEF ServedInv
<1> QED BY <1>1, <1>8, <1>9, <1>10

\* The status thread takes the callback of the goal that has ended.
LEMMA ScanStatusServed ==
  ASSUME NavInv, SessionInv, ServedInv, ScanStatus
  PROVE  ServedInv'
<1> USE DEF NavInv, TypeInv, TypeOK, Threads, CallbackThreads
<1> DEFINE h == held["status"]
           g == sess[h].goalId
           c == EndCallback(h)
<1>1. /\ UNCHANGED <<cur, reqs, kind, waiting, goal, pendingFailure>>
      /\ pc["status"] = "scan"
      /\ pc'["executor"] = pc["executor"] /\ cb'["executor"] = cb["executor"]
  BY DEF ScanStatus, Fire, Goto, rmfVars
<1>2. CASE ~(g # None /\ goal[g] \in Terminal)
  <2>1. UNCHANGED <<sess, cb>> /\ pc'["status"] = "return"
    BY <1>2 DEF ScanStatus, Goto
  <2>2. PlainStep
    BY <1>1, <2>1 DEF PlainStep
  <2> QED BY <2>2, PlainServed
<1>3. CASE g # None /\ goal[g] \in Terminal
  <2>1. h \in Requests /\ g \in Requests /\ Fire("status", c) /\ Invalidate(h)
    BY <1>1, <1>3, RequestOrNone, SessionFields DEF HoldsSession, ScanStatus
  <2>2. \A s \in Requests : sess'[s] = IF s = h THEN Invalidated ELSE sess[s]
    BY <2>1 DEF Invalidate
  <2>3. \A s \in Requests : /\ sess'[s].completion \in {sess[s].completion, None}
                            /\ s # None
                            /\ sess'[s].failure => sess[s].failure
                            /\ sess'[s].goalId \in {sess[s].goalId, None}
    BY <2>2, InvalidatedFields, RequestOrNone
  <2>4. \/ c.kind = "none" /\ c.of = None
        \/ c.kind = "completed" /\ c.of = g /\ sess[h].completion = g
        \/ c.kind = "failed" /\ c.of = h /\ sess[h].failure
    BY <2>1, NoCallbackFields DEF EndCallback, CompletionInv, CompletionMatchesGoal
  <2>5. cb'["status"] = c /\ pc'["status"] = CallbackEntry(c)
    BY <2>1 DEF Fire, Goto
  <2> HIDE DEF c
  <2>6. \/ pc'["status"] = "return"
        \/ /\ pc'["status"] = "cbReport" /\ c.kind = "completed"
           /\ kind[c.of] = "undock"
        \/ /\ pc'["status"] = "cbInvalidate" /\ c.of = h /\ c.of = waiting
           /\ g = h /\ kind[h] = "path" /\ ~Silent(h)
    <3>1. CASE c.kind = "none"
      BY <2>5, <3>1 DEF CallbackEntry
    <3>2. CASE c.kind = "completed" /\ c.of = g /\ sess[h].completion = g
      <4>1. \/ kind[g] = "undock"
            \/ g = h /\ kind[h] = "path"
        BY <1>3, <2>1, <3>2 DEF SessionInv, OwnCallback
      <4>2. CASE kind[g] = "undock"
        BY <2>5, <3>2, <4>2 DEF CallbackEntry
      <4>3. CASE g = h /\ kind[h] = "path"
        <5>1. ~Silent(h)
          BY <3>2, <4>3 DEF Silent
        <5>2. waiting = h
          BY <2>1, <4>3, <5>1 DEF ServedInv, SessionOfWait
        <5> QED BY <2>5, <3>2, <4>3, <5>1, <5>2 DEF CallbackEntry
      <4> QED BY <4>1, <4>2, <4>3
    <3>3. CASE c.kind = "failed" /\ c.of = h /\ sess[h].failure
      <4>1. ~Silent(h)
        BY <3>3 DEF Silent
      <4>2. kind[h] = "path" /\ g \in {None, h} /\ waiting = h
        BY <2>1, <3>3, <4>1 DEF ServedInv, SessionOfWait
      <4> QED BY <1>3, <2>5, <3>3, <4>1, <4>2 DEF CallbackEntry
    <3> QED BY <2>4, <3>1, <3>2, <3>3
  <2>7. /\ OfPath("executor")' <=> OfPath("executor")
        /\ OfPath("status")' => pc'["status"] = "cbInvalidate"
    BY <1>1, <2>5, <2>6 DEF OfPath, Leaving
  <2>8. OfPath("executor") => waiting \in Requests
    BY RequestOrNone DEF ServedInv, CallbackOfWait, OfPath
  <2>9. CallbackOfWait("executor")'
    <3>1. waiting \in Requests /\ Silent(waiting) => Silent(waiting)'
      BY <1>1, <2>3 DEF Silent
    <3> QED BY <1>1, <2>7, <2>8, <3>1 DEF ServedInv, CallbackOfWait
  <2>10. CallbackOfWait("status")'
    <3>1. CASE pc'["status"] = "cbInvalidate"
      <4>1. OfPath("status")' /\ cb'["status"].of = waiting /\ c.of = h /\ h # None
        BY <1>1, <2>1, <2>5, <2>6, <3>1, RequestOrNone DEF OfPath, Leaving
      <4>2. Silent(waiting)'
        BY <1>1, <2>1, <2>2, <2>5, <4>1, InvalidatedFields, RequestOrNone DEF Silent
      <4> QED BY <1>1, <4>1, <4>2 DEF CallbackOfWait
    <3>2. CASE pc'["status"] # "cbInvalidate"
      <4>1. ~OfPath("status")'
        BY <2>7, <3>2
      <4> QED BY <2>5, <2>6, <3>2, <4>1 DEF CallbackOfWait, Leaving
    <3> QED BY <3>1, <3>2
  <2>11. EndedByGoal'
    BY <1>1, <1>3, <2>6, <2>7 DEF ServedInv, EndedByGoal
  <2>12. FailureOfWait'
    <3> SUFFICES ASSUME pendingFailure PROVE FailureOfWait'
      BY <1>1 DEF FailureOfWait
    <3>1. waiting \in Requests /\ Silent(waiting)
      BY RequestOrNone DEF ServedInv, FailureOfWait
    <3>2. pc'["status"] # "cbInvalidate"
      BY <2>6, <3>1
    <3>3. Silent(waiting)'
      BY <1>1, <2>3, <3>1 DEF Silent
    <3> QED BY <1>1, <2>7, <3>2, <3>3 DEF ServedInv, FailureOfWait
  <2>13. SessionOfWait'
    <3> SUFFICES ASSUME NEW s \in Requests
                 PROVE  /\ sess'[s].failure => kind[s] = "path" /\ sess'[s].goalId \in {None, s}
                        /\ kind[s] = "path" /\ ~Silent(s)' => waiting = s
      BY <1>1 DEF SessionOfWait
    <3>1. Silent(s) => Silent(s)'
      BY <2>3 DEF Silent
    <3> QED BY <2>3, <3>1 DEF ServedInv, SessionOfWait
  <2>14. SendingOfWait' /\ SomebodyServes'
    BY <1>1 DEF ServedInv, SendingOfWait, SomebodyServes
  <2> QED BY <2>9, <2>10, <2>11, <2>12, <2>13, <2>14 DEF ServedInv
<1> QED BY <1>2, <1>3

LEMMA ServedStep ==
  ASSUME ~Preempt, ~LateReplies
  PROVE  NavInv /\ SessionInv /\ ServedInv /\ [Next]_vars => ServedInv'
<1> SUFFICES ASSUME NavInv, SessionInv, ServedInv, [Next]_vars PROVE ServedInv' OBVIOUS
<1>1. CASE PlainAction \/ TakeFailure
  BY <1>1, PlainActionServed, TakeFailureServed
<1>2. CASE FollowNewPath \/ FollowEmptyPath \/ DockWithoutMotion \/ DockWithUndock
  BY <1>2, RequestServed
<1>3. CASE \/ SwapSession \/ InvalidateOld \/ SupersedeFailure \/ WireSession
           \/ ArmSession \/ SendGoal
  BY <1>3, SendingServed
<1>4. CASE ExecutePath \/ GoalNotAccepted \/ RefuseGoal
  BY <1>4, ExecutePathServed, GoalNotAcceptedServed, RefuseGoalServed
<1>5. CASE \E t \in CallbackThreads :
             CallbackInvalidate(t) \/ CallbackReset(t) \/ ReportFinished(t) \/ ReportFailure(t)
  BY <1>5, CallbackServed
<1>6. CASE ScanStatus
  BY <1>6, ScanStatusServed
<1>7. CASE Stop \/ CancelPromote \/ CancelInvalidate \/ StopGrab \/ StopInvalidate
           \/ StopReset \/ StopClearFailure
  BY <1>7
  DEF ServedInv, SendingOfWait, Stopping, Stop, CancelPromote, CancelInvalidate, StopGrab,
      StopInvalidate, StopReset, StopClearFailure
<1>8. CASE UNCHANGED vars
  <2>1. PlainStep
    BY <1>8 DEF vars, sessionVars, threadVars, rmfVars, PlainStep
  <2> QED BY <2>1, PlainServed
<1> QED
  BY <1>1, <1>2, <1>3, <1>4, <1>5, <1>6, <1>7, <1>8
  DEF Next, ExecutorStep, StatusStep, RmfStep, CallbackStep, PlainAction, CallbackThreads

\* While RMF waits for a path, and neither stops nor replaces plans nor misses a
\* reply, somebody is always about to bring the wait to its end, for every number
\* of requests and every interleaving of the executor and the Zenoh threads: what
\* PathResolves needs beyond this is only that the threads are scheduled.
THEOREM WaitServed ==
  ASSUME ~Preempt, ~LateReplies
  PROVE  Spec => []WaitIsServed
<1>1. NavInv /\ SessionInv /\ ServedInv => WaitIsServed
  <2> SUFFICES ASSUME NavInv, SessionInv, ServedInv, waiting # None, kind[waiting] = "path"
               PROVE  WaitIsServed
    BY DEF WaitIsServed
  <2> USE DEF NavInv, TypeInv, TypeOK, Threads, CallbackThreads
  <2>1. waiting = reqs /\ waiting \in Requests
    BY RequestOrNone DEF SessionInv, WaitsForNewest
  <2>2. CASE cur = waiting
    <3>1. ActiveSession(waiting)
      BY <2>1, <2>2 DEF SessionInv, ActiveInv
    <3>2. pc["executor"] = "await" => goal[waiting] # "lost"
      BY <2>1 DEF ServedInv, SendingOfWait, AtRobot, Terminal
    <3>3. held["status"] = waiting /\ pc["status"] \in Leaving => cb["status"].of = waiting
      BY DEF SessionInv, OwnCallback
    <3> QED BY <2>1, <2>2, <3>1, <3>2, <3>3
            DEF ActiveSession, WaitIsServed, Preparing, Leaving, Armed, Whole
  <2>3. CASE pc["executor"] = "swap"
    BY <2>1, <2>3 DEF WaitIsServed
  <2>4. CASE \/ \E t \in CallbackThreads : pc[t] = "cbReport" /\ cb[t].of = waiting
             \/ pendingFailure
    BY <2>4 DEF WaitIsServed
  <2> QED BY <2>2, <2>3, <2>4 DEF ServedInv, SomebodyServes
<1> QED
  BY <1>1, TypeInit, TypeStep, CompletionInit, CompletionStep, EstimatorInit, EstimatorStep,
     SessionInit, SessionStep, ServedInit, ServedStep, PTL DEF Spec, NavInv

-----------------------------------------------------------------------------
(***************************************************************************)
(* The wait for a path comes nearer to its end with every step of whoever  *)
(* has the next turn, and no other step takes it back.  The turns go       *)
(*   4  the executor brings the goal to the robot,                         *)
(*   3  the robot drives, then the status thread learns that it stopped,   *)
(*   2  a callback of the path runs,                                       *)
(*   1  the executor comes to the tick that takes the buffered failure.    *)
(***************************************************************************)
AwaitsPath == waiting # None /\ kind[waiting] = "path"

Bringing == Sending \union {"await", "refuse"}

CallbackRuns == OfPath("executor") \/ OfPath("status")

Phase ==
  IF pc["executor"] \in Bringing THEN 4
  ELSE IF pendingFailure THEN 1
  ELSE IF CallbackRuns THEN 2 ELSE 3

BringLeft ==
  [swap |-> 9, invalidateOld |-> 8, supersede |-> 7, wire |-> 6, promote |-> 5,
   arm |-> 4, send |-> 3, await |-> 2, refuse |-> 1][pc["executor"]]

Undecided == {g \in Requests : goal[g] = "sent"}
Running == {g \in Requests : goal[g] = "executing"}

\* The status thread may still be busy with another session.
StatusLeft ==
  IF pc["status"] = "scan" /\ held["status"] = waiting THEN 1
  ELSE [scan |-> 5, cbReport |-> 4, return |-> 3, idle |-> 2][pc["status"]]

DriveLeft ==
  IF goal[waiting] = "executing"
    THEN 6 + 2 * Cardinality(Undecided) + Cardinality(Running)
    ELSE StatusLeft

CallbackLeft ==
  [cbInvalidate |-> 3, cbReset |-> 2, cbReport |-> 1]
    [IF OfPath("executor") THEN pc["executor"] ELSE pc["status"]]

FailureLeft ==
  [cbReport |-> 6, return |-> 5, idle |-> 4,
   tickTake |-> 3, tickEstimate |-> 2, tickFailure |-> 1][pc["executor"]]

Left ==
  CASE Phase = 4 -> BringLeft [] Phase = 3 -> DriveLeft
    [] Phase = 2 -> CallbackLeft [] Phase = 1 -> FailureLeft

Nearer == Phase' < Phase \/ (Phase' = Phase /\ Left' < Left)

\* The steps of whoever has the next turn.
TheirTurn ==
  \/ Phase = 4 /\ ExecutorStep
  \/ Phase = 3 /\ goal[waiting] = "executing" /\ RobotStep
  \/ Phase = 3 /\ goal[waiting] # "executing" /\ StatusStep
  \/ Phase = 2 /\ \E t \in CallbackThreads : OfPath(t) /\ CallbackStep(t)
  \/ Phase = 1 /\ (ExecutorStep \/ Tick)

WaitShrinks ==
  AwaitsPath /\ waiting' = waiting =>
    /\ Nearer \/ (Phase' = Phase /\ Left' = Left)
    /\ TheirTurn => Nearer

\* Nobody waits at his turn for something that does not come.
TurnIsOpen ==
  AwaitsPath =>
    /\ Left \in Nat
    /\ pc["executor"] = "await" => goal[reqs] \in {"sent", "rejected"} \union AtRobot
    /\ Phase = 3 => Promoted = waiting /\ goal[waiting] \in AtRobot
    /\ \A t \in CallbackThreads : pc[t] = "cbReport" => cb[t].kind \in {"completed", "failed"}

(* Where the threads can be, and that a callback under way is somebody's.  *)
ThreadsKnown ==
  /\ pc["executor"] \in
       {"idle", "tickTake", "tickEstimate", "tickFailure", "cbReport", "return", "stopClear"}
         \union Bringing \union Leaving \union Stopping
  /\ pc["status"] \in {"idle", "scan", "cbReport", "return"} \union Leaving
  /\ \A t \in CallbackThreads :
       pc[t] \in Leaving \union {"cbReport"} => cb[t].kind \in {"completed", "failed"}

LEMMA KnownInit == Init => ThreadsKnown
  BY DEF Init, ThreadsKnown, Threads, CallbackThreads, Leaving

LEMMA KnownStep == TypeInv /\ TypeInv' /\ ThreadsKnown /\ [Next]_vars => ThreadsKnown'
<1> SUFFICES ASSUME TypeInv, TypeInv', ThreadsKnown, [Next]_vars PROVE ThreadsKnown'
  OBVIOUS
<1> USE DEF TypeInv, TypeOK, Threads, CallbackThreads
<1>1. ASSUME NEW t \in CallbackThreads, NEW c, Fire(t, c)
      PROVE  /\ pc'[t] \in {"cbReport", "cbInvalidate", "return"}
             /\ pc'[t] # "return" => cb'[t].kind \in {"completed", "failed"}
             /\ \A u \in CallbackThreads : u # t => pc'[u] = pc[u] /\ cb'[u] = cb[u]
  <2>1. cb'[t] = c /\ cb'[t] \in Callback /\ pc'[t] = CallbackEntry(c)
    BY <1>1 DEF Fire, Goto
  <2>2. cb'[t].kind \in {"none", "completed", "failed"}
    BY <2>1 DEF Callback
  <2>3. \A u \in CallbackThreads : u # t => pc'[u] = pc[u] /\ cb'[u] = cb[u]
    BY <1>1 DEF Fire, Goto
  <2> QED BY <2>1, <2>2, <2>3 DEF CallbackEntry
<1>2. ASSUME pc'["status"] = pc["status"], cb' = cb,
             \/ pc'["executor"] = pc["executor"]
             \/ pc'["executor"] \in
                  {"idle", "tickTake", "tickEstimate", "tickFailure", "return", "stopClear"}
                    \union Bringing \union Stopping
      PROVE  ThreadsKnown'
  BY <1>2 DEF ThreadsKnown, Leaving, Bringing, Sending, Stopping
<1>3. CASE SwapSession \/ InvalidateOld \/ SupersedeFailure \/ WireSession \/ ArmSession
           \/ SendGoal \/ GoalAccepted \/ GoalNotAccepted
  <2>1. pc'["status"] = pc["status"] /\ cb' = cb
    BY <1>3
    DEF SwapSession, InvalidateOld, SupersedeFailure, WireSession, ArmSession, SendGoal,
        GoalAccepted, GoalNotAccepted, Goto
  <2>2. pc'["executor"] \in {"return"} \union Bringing
    BY <1>3
    DEF SwapSession, InvalidateOld, SupersedeFailure, WireSession, ArmSession, SendGoal,
        GoalAccepted, GoalNotAccepted, Goto, Bringing, Sending
  <2> QED BY <1>2, <2>1, <2>2
<1>4. CASE CancelPromote \/ CancelInvalidate \/ StopGrab \/ StopInvalidate \/ StopReset
           \/ StopClearFailure \/ Stop
  <2>1. pc'["status"] = pc["status"] /\ cb' = cb
    BY <1>4
    DEF CancelPromote, CancelInvalidate, StopGrab, StopInvalidate, StopReset,
        StopClearFailure, Stop, Goto, GotoWith, Leave
  <2>2. pc'["executor"] \in {"idle", "stopClear"} \union Stopping
    BY <1>4
    DEF CancelPromote, CancelInvalidate, StopGrab, StopInvalidate, StopReset,
        StopClearFailure, Stop, Goto, GotoWith, Leave, Stopping
  <2> QED BY <1>2, <2>1, <2>2
<1>5. CASE Tick \/ TakeFeedback \/ CallEstimator \/ TakeFailure
  <2>1. pc'["status"] = pc["status"] /\ cb' = cb
    BY <1>5 DEF Tick, TakeFeedback, CallEstimator, TakeFailure, Goto, GotoWith, Leave
  <2>2. pc'["executor"] \in {"idle", "tickTake", "tickEstimate", "tickFailure"}
    BY <1>5 DEF Tick, TakeFeedback, CallEstimator, TakeFailure, Goto, GotoWith, Leave
  <2> QED BY <1>2, <2>1, <2>2
<1>6. CASE FollowNewPath \/ FollowEmptyPath \/ DockWithoutMotion \/ DockWithUndock \/ RmfFreesPlan
           \/ FeedbackStep \/ RobotStep \/ UNCHANGED vars
  <2>1. pc'["status"] = pc["status"] /\ cb' = cb
    BY <1>6
    DEF FollowNewPath, FollowEmptyPath, DockWithoutMotion, DockWithUndock, RmfFreesPlan, FeedbackStep,
        FeedbackArrives, MatchGoal, StoreReason, CheckDone, BufferFeedback, RobotStep,
        RobotDecides, RobotEnds, Goto, GotoWith, Leave, vars, threadVars
  <2>2. pc'["executor"] = pc["executor"] \/ pc'["executor"] \in {"swap", "promote"}
    BY <1>6
    DEF FollowNewPath, FollowEmptyPath, DockWithoutMotion, DockWithUndock, RmfFreesPlan, FeedbackStep,
        FeedbackArrives, MatchGoal, StoreReason, CheckDone, BufferFeedback, RobotStep,
        RobotDecides, RobotEnds, Goto, GotoWith, Leave, vars, threadVars
  <2> QED BY <1>2, <2>1, <2>2 DEF Bringing, Sending
<1>7. CASE ExecutePath \/ RefuseGoal
  <2>1. (\E c : Fire("executor", c)) \/ (pc'["executor"] = "arm" /\ cb' = cb)
    BY <1>7 DEF ExecutePath, RefuseGoal, GotoWith, Goto
  <2>2. pc'["status"] = pc["status"]
    BY <1>7 DEF ExecutePath, RefuseGoal, GotoWith, Goto, Fire
  <2>3. CASE \E c : Fire("executor", c)
    BY <1>1, <2>2, <2>3 DEF ThreadsKnown, Leaving
  <2>4. CASE pc'["executor"] = "arm" /\ cb' = cb
    BY <1>2, <2>2, <2>4 DEF Bringing, Sending
  <2> QED BY <2>1, <2>3, <2>4
<1>8. CASE StatusArrives \/ ScanStatus
  <2>1. \/ \E c : Fire("status", c)
        \/ pc'["status"] \in {"scan", "return"} /\ cb' = cb /\ pc'["executor"] = pc["executor"]
    BY <1>8 DEF StatusArrives, ScanStatus, GotoWith, Goto
  <2>2. CASE \E c : Fire("status", c)
    BY <1>1, <2>2 DEF ThreadsKnown, Leaving
  <2>3. CASE pc'["status"] \in {"scan", "return"} /\ cb' = cb /\ pc'["executor"] = pc["executor"]
    BY <2>3 DEF ThreadsKnown, Leaving
  <2> QED BY <2>1, <2>2, <2>3
<1>9. CASE \E t \in CallbackThreads : CallbackStep(t)
  <2> PICK t \in CallbackThreads : CallbackStep(t)
    BY <1>9
  <2>1. \A u \in CallbackThreads : u # t => pc'[u] = pc[u] /\ cb'[u] = cb[u]
    BY DEF CallbackStep, CallbackInvalidate, CallbackReset, ReportFinished, ReportFailure,
           Return, Goto, GotoWith, Leave
  <2>2. \/ pc[t] = "cbInvalidate" /\ pc'[t] = "cbReset" /\ cb'[t] = cb[t]
        \/ pc[t] = "cbReset" /\ pc'[t] = "cbReport" /\ cb'[t] = cb[t]
        \/ pc'[t] \in {"return", "idle"}
    BY DEF CallbackStep, CallbackInvalidate, CallbackReset, ReportFinished, ReportFailure,
           Return, Goto, GotoWith, Leave
  <2> QED BY <2>1, <2>2 DEF ThreadsKnown, Leaving
<1> QED
  BY <1>3, <1>4, <1>5, <1>6, <1>7, <1>8, <1>9
  DEF Next, ExecutorStep, StatusStep, RmfStep, CallbackThreads

\* What each turn finds.
TurnFinds ==
  AwaitsPath =>
    /\ waiting = reqs /\ waiting \in Requests
    /\ Phase = 4 <=> pc["executor"] \in Bringing
    /\ pc["executor"] \in Away \union Leaving \union {"cbReport"} \union Bringing
    /\ Phase = 3 => /\ ~CallbackRuns /\ ~pendingFailure
                    /\ pc["status"] \in {"idle", "scan", "cbReport", "return"}
                    /\ Promoted = waiting /\ goal[waiting] \in AtRobot
                    /\ sess[waiting].goalId = waiting
                    /\ sess[waiting].completion = waiting /\ sess[waiting].failure
    /\ Phase = 2 => CallbackRuns /\ ~pendingFailure
    /\ Phase = 1 => /\ pendingFailure /\ ~CallbackRuns
                    /\ pc["executor"] \in Away \union {"cbReport"}
    /\ Phase \in 1..4
    /\ ~(OfPath("executor") /\ OfPath("status"))

LEMMA Turns ==
  ASSUME NavInv, SessionInv, ServedInv, ThreadsKnown
  PROVE  TurnFinds
<1> SUFFICES ASSUME AwaitsPath PROVE TurnFinds
  BY DEF TurnFinds
<1> USE DEF NavInv, TypeInv, TypeOK, Threads, CallbackThreads
<1>1. waiting = reqs /\ waiting \in Requests
  BY RequestOrNone DEF SessionInv, WaitsForNewest, AwaitsPath
<1>2. pc["executor"] \in Away \union Leaving \union {"cbReport"} \union Bringing
  BY DEF ThreadsKnown, ServedInv, SendingOfWait, Away
<1>3. /\ Phase = 4 <=> pc["executor"] \in Bringing
      /\ Phase \in 1..4
  BY DEF Phase
<1>4. ~(OfPath("executor") /\ OfPath("status"))
  BY DEF ServedInv, EndedByGoal, Terminal
<1>5. /\ Phase = 3 => ~CallbackRuns /\ ~pendingFailure
      /\ Phase = 2 => CallbackRuns /\ ~pendingFailure
      /\ Phase = 1 => pendingFailure /\ ~CallbackRuns
  BY DEF Phase, ServedInv, FailureOfWait, CallbackRuns
<1>6. \A t \in CallbackThreads : ~CallbackRuns => pc[t] \notin Leaving
  BY DEF CallbackRuns, ServedInv, CallbackOfWait
<1>7. Phase = 3 => /\ Promoted = waiting /\ goal[waiting] \in AtRobot
                   /\ sess[waiting].goalId = waiting
                   /\ sess[waiting].completion = waiting /\ sess[waiting].failure
  <2> SUFFICES ASSUME Phase = 3
               PROVE  Promoted = waiting /\ goal[waiting] \in AtRobot /\ Armed(waiting)
    BY DEF Armed, Whole
  <2>1. ~CallbackRuns /\ ~pendingFailure /\ pc["executor"] \notin Bringing
    BY <1>3, <1>5
  <2>2. \A t \in CallbackThreads : ~(pc[t] = "cbReport" /\ cb[t].of = waiting)
    BY <2>1 DEF CallbackRuns, OfPath, AwaitsPath
  <2>3. cur = waiting
    BY <2>1, <2>2 DEF ServedInv, SomebodyServes, AwaitsPath, Bringing, Sending
  <2>4. ActiveSession(waiting)
    BY <1>1, <2>3 DEF SessionInv, ActiveInv
  <2>5. Armed(waiting) /\ goal[waiting] \in AtRobot
    BY <1>6, <2>1, <2>4 DEF ActiveSession, Bringing, Sending, Preparing
  <2>6. Promoted = waiting
    BY <1>1, <2>3, <2>5 DEF Armed, Whole, Promoted, Alive, AwaitsPath
  <2> QED BY <2>5, <2>6
<1>8. Phase = 3 => pc["status"] \in {"idle", "scan", "cbReport", "return"}
  BY <1>5, <1>6 DEF ThreadsKnown
<1>9. Phase = 1 => pc["executor"] \in Away \union {"cbReport"}
  BY <1>2, <1>3, <1>5, <1>6
<1> QED BY <1>1, <1>2, <1>3, <1>4, <1>5, <1>7, <1>8, <1>9 DEF TurnFinds

LEMMA FiniteGoals ==
  /\ IsFiniteSet(Undecided) /\ Cardinality(Undecided) \in Nat
  /\ IsFiniteSet(Running) /\ Cardinality(Running) \in Nat
<1>1. IsFiniteSet(Requests)
  <2>1. 1 \in Int /\ MaxRequests \in Int
    BY RequestsAssumption
  <2> QED BY <2>1, FS_Interval DEF Requests
<1>2. Undecided \subseteq Requests /\ Running \subseteq Requests
  BY DEF Undecided, Running
<1>3. IsFiniteSet(Undecided) /\ IsFiniteSet(Running)
  BY <1>1, <1>2, FS_Subset
<1> QED BY <1>3, FS_CardinalityType

LEMMA LeftTyped ==
  ASSUME NavInv, SessionInv, ServedInv, ThreadsKnown, AwaitsPath
  PROVE  Left \in Nat
<1> USE DEF NavInv, TypeInv, TypeOK, Threads, CallbackThreads
<1>1. CASE Phase = 4
  <2>1. pc["executor"] \in Bringing
    BY <1>1, Turns DEF TurnFinds
  <2>2. BringLeft \in Nat
    BY <2>1 DEF BringLeft, Bringing, Sending
  <2> QED BY <1>1, <2>2 DEF Left
<1>2. CASE Phase = 3
  <2>1. StatusLeft \in Nat
    <3>1. pc["status"] \in {"idle", "scan", "cbReport", "return"}
      BY <1>2, Turns DEF TurnFinds
    <3> QED BY <3>1 DEF StatusLeft
  <2>2. DriveLeft \in Nat
    BY <2>1, FiniteGoals DEF DriveLeft
  <2> QED BY <1>2, <2>2 DEF Left
<1>3. CASE Phase = 2
  <2>1. OfPath("executor") \/ OfPath("status")
    BY <1>3, Turns DEF TurnFinds, CallbackRuns
  <2>2. CallbackLeft \in Nat
    BY <2>1 DEF CallbackLeft, OfPath, Leaving
  <2> QED BY <1>3, <2>2 DEF Left
<1>4. CASE Phase = 1
  <2>1. pc["executor"] \in Away \union {"cbReport"}
    BY <1>4, Turns DEF TurnFinds
  <2>2. FailureLeft \in Nat
    BY <2>1 DEF FailureLeft, Away
  <2> QED BY <1>4, <2>2 DEF Left
<1>5. Phase = 4 \/ Phase = 3 \/ Phase = 2 \/ Phase = 1
  BY DEF Phase
<1> QED BY <1>1, <1>2, <1>3, <1>4, <1>5

LEMMA TurnsAreOpen ==
  NavInv /\ SessionInv /\ ServedInv /\ ThreadsKnown => TurnIsOpen
<1> SUFFICES ASSUME NavInv, SessionInv, ServedInv, ThreadsKnown, AwaitsPath
             PROVE  /\ Left \in Nat
                    /\ pc["executor"] = "await" => goal[reqs] \in {"sent", "rejected"} \union AtRobot
                    /\ Phase = 3 => Promoted = waiting /\ goal[waiting] \in AtRobot
                    /\ \A t \in CallbackThreads :
                         pc[t] = "cbReport" => cb[t].kind \in {"completed", "failed"}
  BY DEF TurnIsOpen
<1>1. pc["executor"] = "await" => goal[reqs] \in {"sent", "rejected"} \union AtRobot
  BY DEF ServedInv, SendingOfWait
<1>2. \A t \in CallbackThreads : pc[t] = "cbReport" => cb[t].kind \in {"completed", "failed"}
  BY DEF ThreadsKnown
<1> QED BY <1>1, <1>2, LeftTyped, Turns DEF TurnFinds

\* The step is one of these: while RMF waits and does not preempt, it asks nothing.
WaitStep ==
  ExecutorStep \/ Tick \/ StatusStep \/ FeedbackStep \/ RmfFreesPlan \/ RobotStep
    \/ UNCHANGED vars

LEMMA NoRequest ==
  ASSUME ~Preempt, AwaitsPath, [Next]_vars
  PROVE  WaitStep
  BY DEF AwaitsPath, Next, RmfStep, FollowNewPath, FollowEmptyPath, DockWithoutMotion, DockWithUndock, Stop,
         WaitStep

\* What a step leaves alone, by who takes it.
SameExecutor == pc'["executor"] = pc["executor"] /\ cb'["executor"] = cb["executor"]
SameStatus ==
  pc'["status"] = pc["status"] /\ cb'["status"] = cb["status"]
    /\ held'["status"] = held["status"]

LEMMA StepFrame ==
  ASSUME NavInv, WaitStep
  PROVE  /\ kind' = kind /\ reqs' = reqs
         /\ ~(ExecutorStep \/ Tick) => SameExecutor
         /\ ~StatusStep => SameStatus
         /\ ExecutorStep \/ Tick \/ StatusStep \/ pendingFailure' = pendingFailure
         /\ StatusStep => pendingFailure' \in {pendingFailure, TRUE}
         /\ ExecutorStep \/ RobotStep \/ goal' = goal
<1> USE DEF NavInv, TypeInv, TypeOK, Threads, CallbackThreads
<1>1. ASSUME NEW t \in CallbackThreads, CallbackStep(t)
      PROVE  /\ kind' = kind /\ reqs' = reqs /\ goal' = goal
             /\ \A u \in Threads : u # t => pc'[u] = pc[u] /\ held'[u] = held[u]
             /\ \A u \in CallbackThreads : u # t => cb'[u] = cb[u]
             /\ pendingFailure' \in {pendingFailure, TRUE}
  BY <1>1
  DEF CallbackStep, CallbackInvalidate, CallbackReset, ReportFinished, ReportFailure, Return,
      Goto, GotoWith, Leave, rmfVars, sessionVars
<1>2. CASE StatusStep
  <2>1. CASE StatusArrives \/ ScanStatus
    <3>1. /\ kind' = kind /\ reqs' = reqs /\ goal' = goal /\ pendingFailure' = pendingFailure
          /\ pc'["executor"] = pc["executor"] /\ cb'["executor"] = cb["executor"]
      BY <2>1 DEF StatusArrives, ScanStatus, Goto, GotoWith, Fire, rmfVars, sessionVars
    <3> QED BY <1>2, <3>1 DEF SameExecutor
  <2>2. CASE CallbackStep("status")
    <3>1. /\ kind' = kind /\ reqs' = reqs /\ goal' = goal
          /\ pendingFailure' \in {pendingFailure, TRUE} /\ SameExecutor
      BY <1>1, <2>2 DEF SameExecutor
    <3> QED BY <1>2, <3>1
  <2> QED BY <1>2, <2>1, <2>2 DEF StatusStep
<1>3. CASE ExecutorStep \/ Tick
  <2>1. CASE CallbackStep("executor")
    <3>1. kind' = kind /\ reqs' = reqs /\ SameStatus
      BY <1>1, <2>1 DEF SameStatus
    <3>2. ~StatusStep \/ pendingFailure' \in {pendingFailure, TRUE}
      BY <1>1, <2>1
    <3>3. ExecutorStep
      BY <2>1 DEF ExecutorStep
    <3> QED BY <3>1, <3>2, <3>3
  <2>2. CASE ~CallbackStep("executor")
    <3>1. kind' = kind /\ reqs' = reqs
      BY <1>3, <2>2
      DEF ExecutorStep, Tick, SwapSession, InvalidateOld, SupersedeFailure, WireSession,
          ExecutePath, ArmSession, SendGoal, GoalAccepted, GoalNotAccepted, RefuseGoal,
          CancelPromote, CancelInvalidate, StopGrab, StopInvalidate, StopReset,
          StopClearFailure, TakeFeedback, CallEstimator, TakeFailure, rmfVars
    <3>2. SameStatus
      <4>1. CASE SwapSession \/ InvalidateOld \/ SupersedeFailure \/ WireSession \/ ArmSession
                 \/ SendGoal \/ GoalAccepted \/ GoalNotAccepted \/ StopInvalidate \/ StopReset
                 \/ TakeFeedback \/ CallEstimator
        BY <4>1
        DEF SwapSession, InvalidateOld, SupersedeFailure, WireSession, ArmSession, SendGoal,
            GoalAccepted, GoalNotAccepted, StopInvalidate, StopReset, TakeFeedback,
            CallEstimator, Goto, SameStatus
      <4>2. CASE ExecutePath \/ RefuseGoal
        BY <4>2 DEF ExecutePath, RefuseGoal, Fire, Goto, GotoWith, SameStatus
      <4>3. CASE Tick \/ TakeFailure \/ CancelPromote \/ CancelInvalidate \/ StopGrab
                 \/ StopClearFailure
        BY <4>3
        DEF Tick, TakeFailure, CancelPromote, CancelInvalidate, StopGrab, StopClearFailure,
            Leave, GotoWith, Goto, SameStatus
      <4> QED BY <1>3, <2>2, <4>1, <4>2, <4>3 DEF ExecutorStep
    <3>3. SameStatus => ~StatusStep
      BY DEF SameStatus, StatusStep, StatusArrives, ScanStatus, CallbackStep,
             CallbackInvalidate, CallbackReset, ReportFinished, ReportFailure, Return, Fire,
             Leave, Goto, GotoWith, CallbackEntry
    <3>4. Tick => goal' = goal
      BY DEF Tick
    <3> QED BY <1>3, <3>1, <3>2, <3>3, <3>4
  <2> QED BY <2>1, <2>2
<1>4. CASE FeedbackStep \/ RmfFreesPlan \/ RobotStep \/ UNCHANGED vars
  <2>1. kind' = kind /\ reqs' = reqs /\ pendingFailure' = pendingFailure
    BY <1>4
    DEF FeedbackStep, FeedbackArrives, MatchGoal, StoreReason, CheckDone, BufferFeedback,
        RmfFreesPlan, RobotStep, RobotDecides, RobotEnds, rmfVars, sessionVars, vars
  <2>2. SameExecutor /\ SameStatus
    BY <1>4
    DEF FeedbackStep, FeedbackArrives, MatchGoal, StoreReason, CheckDone, BufferFeedback,
        RmfFreesPlan, RobotStep, RobotDecides, RobotEnds, Leave, Goto, GotoWith, threadVars,
        vars, SameExecutor, SameStatus
  <2>3. RobotStep \/ goal' = goal
    BY <1>4
    DEF FeedbackStep, FeedbackArrives, MatchGoal, StoreReason, CheckDone, BufferFeedback,
        RmfFreesPlan, vars
  <2> QED BY <2>1, <2>2, <2>3
<1> QED BY <1>2, <1>3, <1>4 DEF WaitStep

\* Who stays in his place keeps his callback.
LEMMA SameCallbacks ==
  ASSUME kind' = kind
  PROVE  /\ SameExecutor => (OfPath("executor")' <=> OfPath("executor"))
         /\ SameStatus => (OfPath("status")' <=> OfPath("status"))
  BY DEF SameExecutor, SameStatus, OfPath

LEMMA BringMovesOn ==
  ASSUME NavInv, TurnFinds, TurnFinds', WaitStep, AwaitsPath, AwaitsPath', Phase = 4
  PROVE  /\ Nearer \/ (Phase' = Phase /\ Left' = Left)
         /\ TheirTurn => Nearer
<1> USE DEF NavInv, TypeInv, TypeOK, Threads, CallbackThreads
<1>1. pc["executor"] \in Bringing /\ Phase' \in 1..4
  BY DEF TurnFinds
<1>2. TheirTurn => ExecutorStep
  BY DEF TheirTurn
<1>3. Left = BringLeft /\ (Phase' = 4 => Left' = BringLeft')
  BY DEF Left
<1>4. CASE ExecutorStep
  <2>1. \/ pc'["executor"] \notin Bringing
        \/ pc'["executor"] \in Bringing /\ BringLeft' < BringLeft
    <3>1. CASE SwapSession \/ InvalidateOld \/ SupersedeFailure \/ WireSession \/ ArmSession
      BY <3>1
      DEF SwapSession, InvalidateOld, SupersedeFailure, WireSession, ArmSession, Goto,
          BringLeft, Bringing, Sending
    <3>2. CASE SendGoal \/ GoalAccepted \/ GoalNotAccepted
      BY <3>2 DEF SendGoal, GoalAccepted, GoalNotAccepted, Goto, BringLeft, Bringing, Sending
    <3>3. CASE ExecutePath \/ RefuseGoal
      BY <3>3
      DEF ExecutePath, RefuseGoal, Fire, CallbackEntry, Goto, GotoWith, BringLeft, Bringing,
          Sending
    <3>4. SwapSession \/ InvalidateOld \/ SupersedeFailure \/ WireSession \/ ArmSession
            \/ SendGoal \/ GoalAccepted \/ GoalNotAccepted \/ ExecutePath \/ RefuseGoal
      BY <1>1, <1>4
      DEF ExecutorStep, CancelPromote, CancelInvalidate, StopGrab, StopInvalidate, StopReset,
          StopClearFailure, TakeFeedback, CallEstimator, TakeFailure, CallbackStep,
          CallbackInvalidate, CallbackReset, ReportFinished, ReportFailure, Return, Bringing,
          Sending
    <3> QED BY <3>1, <3>2, <3>3, <3>4
  <2>2. pc'["executor"] \notin Bringing => Phase' < 4
    BY <1>1 DEF Phase
  <2>3. pc'["executor"] \in Bringing => Phase' = 4
    BY DEF Phase
  <2> QED BY <1>3, <2>1, <2>2, <2>3 DEF Nearer
<1>5. CASE ~ExecutorStep
  <2>1. ~Tick
    BY <1>1 DEF Tick, Bringing, Sending
  <2>2. pc'["executor"] = pc["executor"]
    BY <1>5, <2>1, StepFrame DEF SameExecutor
  <2>3. Phase' = 4 /\ BringLeft' = BringLeft
    BY <1>1, <2>2 DEF Phase, BringLeft
  <2> QED BY <1>2, <1>3, <1>5, <2>3
<1> QED BY <1>4, <1>5

LEMMA FailureMovesOn ==
  ASSUME NavInv, TurnFinds, TurnFinds', WaitStep, AwaitsPath, AwaitsPath', Phase = 1
  PROVE  /\ Nearer \/ (Phase' = Phase /\ Left' = Left)
         /\ TheirTurn => Nearer
<1> USE DEF NavInv, TypeInv, TypeOK, Threads, CallbackThreads
<1>1. pendingFailure /\ pc["executor"] \in Away \union {"cbReport"}
  BY DEF TurnFinds
<1>2. TheirTurn => ExecutorStep \/ Tick
  BY DEF TheirTurn
<1>3. Left = FailureLeft /\ (Phase' = 1 => Left' = FailureLeft')
  BY DEF Left
<1>4. CASE ExecutorStep \/ Tick
  <2>1. ~TakeFailure
    BY <1>1 DEF TakeFailure, AwaitsPath
  <2>2. CASE Tick \/ TakeFeedback \/ CallEstimator
    <3>1. pendingFailure' = pendingFailure
      BY <2>2 DEF Tick, TakeFeedback, CallEstimator, sessionVars
    <3>2. \/ pc["executor"] = "idle" /\ pc'["executor"] \in {"tickTake", "tickFailure"}
          \/ pc["executor"] = "tickTake" /\ pc'["executor"] \in {"tickEstimate", "tickFailure"}
          \/ pc["executor"] = "tickEstimate" /\ pc'["executor"] = "tickFailure"
      BY <2>2 DEF Tick, TakeFeedback, CallEstimator, Goto, GotoWith
    <3>3. FailureLeft' < FailureLeft
      BY <3>2 DEF FailureLeft
    <3>4. pc'["executor"] \notin Bringing
      BY <3>2 DEF Bringing, Sending
    <3> QED BY <1>1, <1>3, <3>1, <3>3, <3>4 DEF Phase, Nearer
  <2>3. CASE CallbackStep("executor")
    <3>1. ReportFinished("executor") \/ ReportFailure("executor") \/ Return("executor")
      BY <1>1, <2>3 DEF CallbackStep, CallbackInvalidate, CallbackReset, Away
    <3>2. pendingFailure'
      BY <1>1, <3>1 DEF ReportFinished, ReportFailure, Return, sessionVars
    <3>3. \/ pc["executor"] = "cbReport" /\ pc'["executor"] = "return"
          \/ pc["executor"] = "return" /\ pc'["executor"] = "idle"
      BY <3>1 DEF ReportFinished, ReportFailure, Return, Goto, GotoWith, Leave
    <3>4. FailureLeft' < FailureLeft
      BY <3>3 DEF FailureLeft
    <3>5. pc'["executor"] \notin Bringing
      BY <3>3 DEF Bringing, Sending
    <3> QED BY <1>1, <1>3, <3>2, <3>4, <3>5 DEF Phase, Nearer
  <2>4. Tick \/ TakeFeedback \/ CallEstimator \/ CallbackStep("executor")
    BY <1>1, <1>4, <2>1
    DEF ExecutorStep, SwapSession, InvalidateOld, SupersedeFailure, WireSession, ArmSession,
        SendGoal, GoalAccepted, GoalNotAccepted, ExecutePath, RefuseGoal, CancelPromote,
        CancelInvalidate, StopGrab, StopInvalidate, StopReset, StopClearFailure, Away
  <2> QED BY <2>2, <2>3, <2>4
<1>5. CASE ~(ExecutorStep \/ Tick)
  <2>1. pc'["executor"] = pc["executor"] /\ pendingFailure'
    BY <1>1, <1>5, StepFrame DEF SameExecutor
  <2>2. pc["executor"] \notin Bringing
    BY <1>1 DEF Away, Bringing, Sending
  <2>3. Phase' = 1 /\ FailureLeft' = FailureLeft
    BY <2>1, <2>2 DEF Phase, FailureLeft
  <2> QED BY <1>2, <1>3, <1>5, <2>3
<1> QED BY <1>4, <1>5

\* A goal that has been brought is not brought again.
LEMMA BroughtOnce ==
  ASSUME NavInv, TurnFinds, WaitStep, AwaitsPath, Phase # 4
  PROVE  pc'["executor"] \notin Bringing
<1> USE DEF NavInv, TypeInv, TypeOK, Threads, CallbackThreads
<1>1. pc["executor"] \in Away \union Leaving \union {"cbReport"}
      /\ pc["executor"] \notin Bringing
  BY DEF TurnFinds
<1>2. CASE ~(ExecutorStep \/ Tick)
  BY <1>1, <1>2, StepFrame DEF SameExecutor
<1>3. CASE Tick \/ TakeFeedback \/ CallEstimator \/ TakeFailure
  BY <1>3
  DEF Tick, TakeFeedback, CallEstimator, TakeFailure, Goto, GotoWith, Leave, Bringing, Sending
<1>4. CASE CallbackStep("executor")
  BY <1>4
  DEF CallbackStep, CallbackInvalidate, CallbackReset, ReportFinished, ReportFailure, Return,
      Goto, GotoWith, Leave, Bringing, Sending
<1>5. ExecutorStep => TakeFeedback \/ CallEstimator \/ TakeFailure \/ CallbackStep("executor")
  BY <1>1
  DEF ExecutorStep, SwapSession, InvalidateOld, SupersedeFailure, WireSession, ArmSession,
      SendGoal, GoalAccepted, GoalNotAccepted, ExecutePath, RefuseGoal, CancelPromote,
      CancelInvalidate, StopGrab, StopInvalidate, StopReset, StopClearFailure, Away, Leaving
<1> QED BY <1>2, <1>3, <1>4, <1>5

LEMMA CallbackMovesOn ==
  ASSUME NavInv, ServedInv, TurnFinds, TurnFinds', WaitStep, AwaitsPath, AwaitsPath',
         waiting' = waiting, Phase = 2
  PROVE  /\ Nearer \/ (Phase' = Phase /\ Left' = Left)
         /\ TheirTurn => Nearer
<1> USE DEF NavInv, TypeInv, TypeOK, Threads, CallbackThreads
<1>1. CallbackRuns /\ ~pendingFailure /\ pc'["executor"] \notin Bringing
  BY BroughtOnce DEF TurnFinds
<1>2. /\ Left = CallbackLeft /\ (Phase' = 2 => Left' = CallbackLeft')
      /\ pendingFailure' => Phase' = 1
      /\ CallbackRuns' => Phase' = 2
  BY <1>1 DEF Left, Phase, TurnFinds
<1>3. PICK t \in CallbackThreads : OfPath(t)
  BY <1>1 DEF CallbackRuns
<1>4. \A u \in CallbackThreads : u # t => ~OfPath(u)
  BY <1>3 DEF TurnFinds
<1>5. pc[t] \in Leaving \union {"cbReport"} /\ cb[t].of = waiting /\ kind' = kind
  BY <1>3, StepFrame DEF ServedInv, CallbackOfWait, OfPath
<1>6. ASSUME OfPath(t)'
      PROVE  /\ \A u \in CallbackThreads : u # t => ~OfPath(u)'
             /\ Phase' = 2
  <2>1. CallbackRuns'
    BY <1>6 DEF CallbackRuns
  <2> QED BY <1>2, <1>6, <2>1 DEF TurnFinds
<1>7. CASE CallbackInvalidate(t) \/ CallbackReset(t)
  <2>1. /\ cb'[t] = cb[t]
        /\ \/ pc[t] = "cbInvalidate" /\ pc'[t] = "cbReset"
           \/ pc[t] = "cbReset" /\ pc'[t] = "cbReport"
    BY <1>7 DEF CallbackInvalidate, CallbackReset, Goto
  <2>2. OfPath(t)'
    BY <1>3, <1>5, <2>1 DEF OfPath, Leaving
  <2>3. CallbackLeft' < CallbackLeft
    BY <1>3, <1>4, <1>6, <2>1, <2>2 DEF CallbackLeft
  <2> QED BY <1>2, <1>6, <2>2, <2>3 DEF Nearer
<1>8. CASE ReportFailure(t)
  BY <1>2, <1>8 DEF ReportFailure, Nearer
<1>9. ~ReportFinished(t) /\ ~Return(t)
  BY <1>5 DEF ReportFinished, Return, Leaving, AwaitsPath
<1>10. CASE ~CallbackStep(t)
  <2>1. pc'[t] = pc[t] /\ cb'[t] = cb[t]
    <3>1. CASE t = "executor"
      <4>1. ~(ExecutorStep \/ Tick)
        BY <1>5, <1>10, <3>1
        DEF ExecutorStep, Tick, SwapSession, InvalidateOld, SupersedeFailure, WireSession,
            ArmSession, SendGoal, GoalAccepted, GoalNotAccepted, ExecutePath, RefuseGoal,
            CancelPromote, CancelInvalidate, StopGrab, StopInvalidate, StopReset,
            StopClearFailure, TakeFeedback, CallEstimator, TakeFailure, Leaving
      <4> QED BY <3>1, <4>1, StepFrame DEF SameExecutor
    <3>2. CASE t = "status"
      <4>1. ~StatusStep
        BY <1>5, <1>10, <3>2 DEF StatusStep, StatusArrives, ScanStatus, Leaving
      <4> QED BY <3>2, <4>1, StepFrame DEF SameStatus
    <3> QED BY <3>1, <3>2
  <2>2. OfPath(t)'
    BY <1>3, <1>5, <2>1 DEF OfPath
  <2>3. CallbackLeft' = CallbackLeft
    BY <1>3, <1>4, <1>6, <2>1, <2>2 DEF CallbackLeft
  <2>4. ~TheirTurn
    BY <1>4, <1>10 DEF TheirTurn
  <2> QED BY <1>2, <1>6, <2>2, <2>3, <2>4
<1> QED BY <1>7, <1>8, <1>9, <1>10 DEF CallbackStep

\* The robot decides on a goal or ends one: less is left to it.
LEMMA RobotGoesOn ==
  ASSUME NavInv, NEW g \in Requests, RobotDecides(g) \/ RobotEnds(g)
  PROVE  /\ 2 * Cardinality(Undecided)' + Cardinality(Running)'
              < 2 * Cardinality(Undecided) + Cardinality(Running)
         /\ Cardinality(Undecided)' \in Nat /\ Cardinality(Running)' \in Nat
<1> USE DEF NavInv, TypeInv, TypeOK
<1> DEFINE U == Undecided
           R == Running
<1>1. IsFiniteSet(U) /\ Cardinality(U) \in Nat /\ IsFiniteSet(R) /\ Cardinality(R) \in Nat
  BY FiniteGoals
<1>2. CASE RobotDecides(g)
  <2>1. g \in U /\ g \notin R
    BY <1>2 DEF RobotDecides, Undecided, Running
  <2>2. U' = U \ {g} /\ (R' = R \/ R' = R \union {g})
    <3> PICK d \in {"executing", "rejected"} : goal' = [goal EXCEPT ![g] = d]
      BY <1>2 DEF RobotDecides
    <3>1. U' = U \ {g}
      BY DEF Undecided
    <3>2. CASE d = "executing"
      <4>1. R' = R \union {g}
        BY <3>2 DEF Running
      <4> QED BY <3>1, <4>1
    <3>3. CASE d = "rejected"
      <4>1. R' = R
        BY <2>1, <3>3 DEF Running
      <4> QED BY <3>1, <4>1
    <3> QED BY <3>2, <3>3
  <2>3. Cardinality(U \ {g}) = Cardinality(U) - 1
    BY <1>1, <2>1, FS_RemoveElement
  <2>4. Cardinality(R \union {g}) = Cardinality(R) + 1
    BY <1>1, <2>1, FS_AddElement
  <2>5. /\ Cardinality(U') = Cardinality(U) - 1
        /\ Cardinality(R') \in {Cardinality(R), Cardinality(R) + 1}
        /\ Cardinality(U') \in Nat
    <3>1. Cardinality(U') \in Nat
      BY <1>1, <2>1, <2>2, FS_RemoveElement, FS_CardinalityType
    <3> QED BY <2>2, <2>3, <2>4, <3>1
  <2> HIDE DEF U, R
  <2>6. 2 * Cardinality(U') + Cardinality(R') < 2 * Cardinality(U) + Cardinality(R)
    BY <1>1, <2>5
  <2> QED BY <1>1, <2>5, <2>6 DEF U, R
<1>3. CASE RobotEnds(g)
  <2>1. g \in R
    BY <1>3 DEF RobotEnds, Running
  <2>2. U' = U /\ R' = R \ {g}
    BY <1>3 DEF RobotEnds, Undecided, Running, Terminal
  <2>3. Cardinality(R \ {g}) = Cardinality(R) - 1 /\ Cardinality(R \ {g}) \in Nat
    BY <1>1, <2>1, FS_RemoveElement, FS_CardinalityType
  <2>4. Cardinality(U') = Cardinality(U) /\ Cardinality(R') = Cardinality(R) - 1
        /\ Cardinality(R') \in Nat
    BY <2>2, <2>3
  <2> HIDE DEF U, R
  <2>5. 2 * Cardinality(U') + Cardinality(R') < 2 * Cardinality(U) + Cardinality(R)
    BY <1>1, <2>4
  <2> QED BY <1>1, <2>4, <2>5 DEF U, R
<1> QED BY <1>2, <1>3

\* The status thread learns that the robot stopped.
LEMMA StatusMovesOn ==
  ASSUME NavInv, ServedInv', TurnFinds, TurnFinds', StatusStep, AwaitsPath, kind' = kind,
         Phase = 3, goal[waiting] \in Terminal
  PROVE  CallbackRuns' \/ pendingFailure' \/ StatusLeft' < StatusLeft
<1> USE DEF NavInv, TypeInv, TypeOK, Threads, CallbackThreads
<1>1. /\ ~CallbackRuns /\ pc["status"] \in {"idle", "scan", "cbReport", "return"}
      /\ Promoted = waiting /\ waiting \in Requests
      /\ sess[waiting].goalId = waiting /\ sess[waiting].completion = waiting
      /\ sess[waiting].failure
  BY DEF TurnFinds
<1>2. pc'["status"] \in Leaving => CallbackRuns'
  BY DEF ServedInv, CallbackOfWait, CallbackRuns
<1>3. CASE StatusArrives
  <2>1. pc["status"] = "idle" /\ pc'["status"] = "scan" /\ held'["status"] = waiting
    BY <1>1, <1>3 DEF StatusArrives, GotoWith, Goto
  <2>2. waiting' = waiting
    BY <1>3 DEF StatusArrives, rmfVars
  <2> QED BY <2>1, <2>2 DEF StatusLeft
<1>4. CASE ScanStatus
  <2>1. waiting' = waiting /\ pc["status"] = "scan"
    BY <1>4 DEF ScanStatus, rmfVars
  <2>2. pc'["status"] \in {"return", "cbReport"} \union Leaving
    BY <1>4 DEF ScanStatus, Fire, CallbackEntry, Goto, Leaving
  <2>3. CASE held["status"] = waiting
    <3>1. Fire("status", EndCallback(waiting))
      BY <1>1, <1>4, <2>3, RequestOrNone DEF ScanStatus
    <3>2. \/ EndCallback(waiting) = [kind |-> "completed", of |-> waiting]
          \/ EndCallback(waiting) = [kind |-> "failed", of |-> waiting]
      BY <1>1, RequestOrNone DEF EndCallback
    <3>3. pc'["status"] = "cbInvalidate"
      BY <3>1, <3>2 DEF Fire, Goto, CallbackEntry, AwaitsPath
    <3> QED BY <1>2, <3>3 DEF Leaving
  <2>4. CASE held["status"] # waiting
    <3>1. StatusLeft = 5
      BY <2>1, <2>4 DEF StatusLeft
    <3>2. pc'["status"] \in {"return", "cbReport"} => StatusLeft' \in {3, 4}
      BY DEF StatusLeft
    <3> QED BY <1>2, <2>2, <3>1, <3>2
  <2> QED BY <2>3, <2>4
<1>5. CASE CallbackStep("status")
  <2>1. \/ pc["status"] = "cbReport" /\ pc'["status"] = "return"
        \/ pc["status"] = "return" /\ pc'["status"] = "idle"
    BY <1>1, <1>5
    DEF CallbackStep, CallbackInvalidate, CallbackReset, ReportFinished, ReportFailure, Return,
        Goto, GotoWith, Leave
  <2> QED BY <2>1 DEF StatusLeft
<1> QED BY <1>3, <1>4, <1>5 DEF StatusStep

LEMMA DriveMovesOn ==
  ASSUME NavInv, ServedInv', TurnFinds, TurnFinds', WaitStep, AwaitsPath, AwaitsPath',
         waiting' = waiting, Phase = 3
  PROVE  /\ Nearer \/ (Phase' = Phase /\ Left' = Left)
         /\ TheirTurn => Nearer
<1> USE DEF NavInv, TypeInv, TypeOK, Threads, CallbackThreads
<1>1. /\ pc'["executor"] \notin Bringing /\ ~CallbackRuns /\ ~pendingFailure
      /\ pc["executor"] \notin Bringing
      /\ goal[waiting] \in AtRobot /\ waiting \in Requests
      /\ pc["status"] \in {"idle", "scan", "cbReport", "return"}
  BY BroughtOnce DEF TurnFinds
<1>2. /\ Left = DriveLeft /\ (Phase' = 3 => Left' = DriveLeft')
      /\ Phase' \in {1, 2, 3}
      /\ pendingFailure' \/ CallbackRuns' => Phase' \in {1, 2}
      /\ ~pendingFailure' /\ ~CallbackRuns' => Phase' = 3
  BY <1>1 DEF Left, Phase
<1>3. RobotStep \/ goal' = goal
  <2>1. ExecutorStep => goal' = goal
    BY <1>1
    DEF ExecutorStep, SwapSession, InvalidateOld, SupersedeFailure, WireSession, ArmSession,
        SendGoal, GoalAccepted, GoalNotAccepted, ExecutePath, RefuseGoal, CancelPromote,
        CancelInvalidate, StopGrab, StopInvalidate, StopReset, StopClearFailure, TakeFeedback,
        CallEstimator, TakeFailure, CallbackStep, CallbackInvalidate, CallbackReset,
        ReportFinished, ReportFailure, Return, Bringing, Sending
  <2> QED BY <2>1, StepFrame
<1>4. CASE goal[waiting] = "executing" /\ RobotStep
  <2> PICK g \in Requests : RobotDecides(g) \/ RobotEnds(g)
    BY <1>4 DEF RobotStep
  <2>1. Phase' = 3
    <3>1. UNCHANGED <<sessionVars, threadVars, rmfVars>>
      BY DEF RobotDecides, RobotEnds
    <3> QED BY <1>1, <1>2, <3>1 DEF sessionVars, threadVars, rmfVars, CallbackRuns, OfPath
  <2>2. DriveLeft = 6 + 2 * Cardinality(Undecided) + Cardinality(Running)
    BY <1>4 DEF DriveLeft
  <2>3. \/ DriveLeft' = 6 + 2 * Cardinality(Undecided)' + Cardinality(Running)'
        \/ DriveLeft' = StatusLeft' /\ pc'["status"] = pc["status"]
    BY DEF DriveLeft, RobotDecides, RobotEnds, threadVars
  <2>4. pc'["status"] = pc["status"] => StatusLeft' \in 1..5
    BY <1>1 DEF StatusLeft
  <2>5. DriveLeft' < DriveLeft
    BY <2>2, <2>3, <2>4, RobotGoesOn, FiniteGoals
  <2> QED BY <1>2, <2>1, <2>5 DEF Nearer
<1>5. CASE goal[waiting] = "executing" /\ ~RobotStep
  <2>1. goal' = goal
    BY <1>3, <1>5
  <2>2. DriveLeft' = DriveLeft
    BY <1>5, <2>1 DEF DriveLeft, Undecided, Running
  <2>3. ~TheirTurn
    BY <1>5 DEF TheirTurn
  <2> QED BY <1>2, <2>2, <2>3 DEF Nearer
<1>6. CASE goal[waiting] # "executing"
  <2>1. goal[waiting] \in Terminal /\ goal'[waiting] = goal[waiting]
    <3>1. goal[waiting] \in Terminal
      BY <1>1, <1>6 DEF AtRobot
    <3>2. ASSUME NEW g \in Requests, RobotDecides(g) \/ RobotEnds(g)
          PROVE  goal'[waiting] = goal[waiting]
      <4>1. g # waiting
        BY <3>1, <3>2 DEF RobotDecides, RobotEnds, Terminal
      <4> QED BY <1>1, <3>2, <4>1 DEF RobotDecides, RobotEnds
    <3> QED BY <1>3, <3>1, <3>2 DEF RobotStep
  <2>2. DriveLeft = StatusLeft /\ DriveLeft' = StatusLeft'
    BY <1>6, <2>1 DEF DriveLeft
  <2>3. CASE StatusStep
    <3>1. CallbackRuns' \/ pendingFailure' \/ StatusLeft' < StatusLeft
      BY <2>1, <2>3, StatusMovesOn, StepFrame
    <3> QED BY <1>2, <2>2, <3>1 DEF Nearer
  <2>4. CASE ~StatusStep
    <3>1. StatusLeft' = StatusLeft
      BY <2>4, StepFrame DEF StatusLeft, SameStatus
    <3>2. ~TheirTurn
      BY <1>6, <2>4 DEF TheirTurn
    <3> QED BY <1>2, <2>2, <3>1, <3>2 DEF Nearer
  <2> QED BY <2>3, <2>4
<1> QED BY <1>4, <1>5, <1>6

LEMMA WaitStepShrinks ==
  ASSUME ~Preempt
  PROVE  NavInv /\ ServedInv /\ ServedInv' /\ TurnFinds /\ TurnFinds' /\ [Next]_vars
           => WaitShrinks
<1> SUFFICES ASSUME NavInv, ServedInv, ServedInv', TurnFinds, TurnFinds', [Next]_vars,
                    AwaitsPath, waiting' = waiting
             PROVE  /\ Nearer \/ (Phase' = Phase /\ Left' = Left)
                    /\ TheirTurn => Nearer
  BY DEF WaitShrinks
<1>1. WaitStep
  BY NoRequest
<1>2. AwaitsPath'
  BY <1>1, StepFrame DEF AwaitsPath
<1>3. Phase = 1 \/ Phase = 2 \/ Phase = 3 \/ Phase = 4
  BY DEF Phase
<1> QED
  BY <1>1, <1>2, <1>3, BringMovesOn, DriveMovesOn, CallbackMovesOn, FailureMovesOn

\* While RMF waits for a path, and neither stops nor replaces plans nor misses a
\* reply, every step of whoever has the next turn brings the end of the wait
\* nearer, by a measure in the natural numbers that no step of anybody else
\* raises, and whoever has the turn finds what he needs for it (follow_new_path,
\* execute_path, status_callback, failure_callback, take_pending_failure): the
\* argument behind PathResolves save that the threads are scheduled.
THEOREM WaitMovesOn ==
  ASSUME ~Preempt, ~LateReplies
  PROVE  Spec => []TurnIsOpen /\ [][WaitShrinks]_vars
<1>1. TypeInv /\ TypeInv' /\ ThreadsKnown /\ [Next]_vars => ThreadsKnown'
  BY KnownStep
<1>2. NavInv /\ SessionInv /\ ServedInv /\ ThreadsKnown => TurnFinds /\ TurnIsOpen
  BY Turns, TurnsAreOpen
<1> QED
  BY <1>1, <1>2, TypeInit, TypeStep, CompletionInit, CompletionStep, EstimatorInit,
     EstimatorStep, SessionInit, SessionStep, ServedInit, ServedStep, KnownInit,
     WaitStepShrinks, PTL DEF Spec, NavInv
=============================================================================
