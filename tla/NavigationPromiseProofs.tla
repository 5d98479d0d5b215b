---------------------- MODULE NavigationPromiseProofs ----------------------
(***************************************************************************)
(* The promise of Navigation to RMF, proved: reports and replans are       *)
(* counted, and each step is one that PathRequest allows or shows nothing. *)
(***************************************************************************)
EXTENDS NavigationPromise, NavigationProofs, FiniteSetTheorems

-----------------------------------------------------------------------------
(* Why a request is not reported finished twice.  A report is counted from *)
(* the moment a thread takes the callback.  The callback of a request is   *)
(* in one session at most; while it is there, only execute_path's refusal  *)
(* can have taken a copy.                                                  *)

Taken == {"cbInvalidate", "cbReset", "cbReport"}

InHand(t, r) ==
  IF /\ pc[t] \in Taken
     /\ cb[t].kind = "completed" /\ cb[t].of = r
  THEN 1 ELSE 0

Told(r) == finished[r] + InHand("executor", r) + InHand("status", r)

\* Two reports are one by the refusal and one by the robot's success.
ToldBound ==
  \A r \in Requests :
    /\ Told(r) <= 2
    /\ Told(r) = 2 => refused[r] /\ goal[r] = "succeeded"

StoredOnce ==
  \A s1, s2 \in Requests :
    sess[s1].completion = sess[s2].completion /\ sess[s1].completion # None
      => s1 = s2

\* A stored callback has not been taken, save by a refusal.
StoredUntold ==
  \A s, r \in Requests : sess[s].completion = r =>
    /\ Told(r) <= 1
    /\ ~refused[r] \/ (pc["executor"] = "refuse" /\ reqs = r) => Told(r) = 0

\* The request that is on its way to the robot.
CurrentRequest ==
  /\ \A r \in Requests : r > reqs => ~refused[r]
  /\ \A r \in Requests : r = reqs =>
       /\ pc["executor"] \in Sending \union {"await"} => ~refused[r]
       /\ pc["executor"] \in Sending => Told(r) = 0
       /\ pc["executor"] \in Sending \ {"send"} =>
            \A s \in Requests : sess[s].completion # r
       /\ pc["executor"] \in {"await", "refuse"} =>
            Told(r) <= 1 /\ (Told(r) = 1 => goal[r] = "succeeded")

ReportsInv == ToldBound /\ StoredOnce /\ StoredUntold /\ CurrentRequest

-----------------------------------------------------------------------------
(* Why replans are justified.  Each goal the robot gave up asks for one    *)
(* replan at most: the failure is taken together with the goal id, which   *)
(* no other session has.                                                   *)

Open == {g \in Requests : \E s \in Requests : sess[s].goalId = g}

FailureInHand ==
  /\ pc["status"] \in Taken
  /\ cb["status"].kind = "failed"

\* Replans that are still to come.
Due == (IF pendingFailure THEN 1 ELSE 0) + (IF FailureInHand THEN 1 ELSE 0)

ReplansCounted == replans + Due <= Cardinality(Failed \ Open)

GoalStoredOnce ==
  /\ \A s1, s2 \in Requests :
       sess[s1].goalId = sess[s2].goalId /\ sess[s1].goalId # None => s1 = s2
  /\ \A s \in Requests : sess[s].goalId <= reqs
  /\ pc["executor"] \in Sending \ {"send"} =>
       \A s, r \in Requests : r = reqs => sess[s].goalId # r

OnlyStatusFails == cb["executor"].kind # "failed"

ReplansInv == ReplansCounted /\ GoalStoredOnce /\ OnlyStatusFails

-----------------------------------------------------------------------------
(* Most steps change nothing that is counted.                              *)

QuietThread(t) ==
  \/ pc[t] \notin Taken /\ pc'[t] \notin Taken
  \/ pc[t] \in Taken /\ pc'[t] \in Taken /\ cb'[t] = cb[t]
  \/ pc[t] \in Taken /\ cb[t].kind # "completed" /\ cb'[t] = cb[t]

QuietExecutor ==
  \/ pc'["executor"] = pc["executor"]
  \/ {pc["executor"], pc'["executor"]} \subseteq Sending \ {"send"}
  \/ pc["executor"] # "refuse" /\ pc'["executor"] \notin Sending \union {"await", "refuse"}

ReportsQuiet ==
  /\ UNCHANGED <<reqs, goal, refused, finished>>
  /\ \A t \in CallbackThreads : QuietThread(t)
  /\ QuietExecutor
  /\ \A s \in Requests : sess'[s].completion \in {sess[s].completion, None}

ReplansQuiet ==
  /\ UNCHANGED <<reqs, replans>>
  /\ pendingFailure' => pendingFailure
  /\ FailureInHand' => FailureInHand
  /\ \A g \in Failed : goal'[g] = goal[g]
  /\ \A s \in Requests : sess'[s].goalId \in {sess[s].goalId, None}
  /\ pc'["executor"] \in Sending \ {"send"} => pc["executor"] \in Sending \ {"send"}
  /\ cb'["executor"].kind # "failed"

Quiet == ReportsQuiet /\ ReplansQuiet

LEMMA QuietTold ==
  ASSUME TypeInv, ReportsQuiet
  PROVE  \A r \in Requests : Told(r)' = Told(r)
<1>1. \A t \in CallbackThreads, r \in Requests : InHand(t, r)' = InHand(t, r)
  BY DEF ReportsQuiet, QuietThread, InHand
<1>2. QED
  BY <1>1 DEF ReportsQuiet, Told, CallbackThreads

LEMMA ToldNat ==
  ASSUME TypeInv
  PROVE  \A r \in Requests : Told(r) \in Nat
  BY DEF TypeInv, TypeOK, Told, InHand

LEMMA ReportsKept ==
  ASSUME TypeInv, ReportsInv, UNCHANGED <<reqs, goal, refused>>, QuietExecutor,
         \A r \in Requests : Told(r)' = Told(r),
         \A s \in Requests : sess'[s].completion \in {sess[s].completion, None}
  PROVE  ReportsInv'
<1>1. ToldBound'
  BY DEF ReportsInv, ToldBound
<1>2. StoredOnce'
  BY DEF ReportsInv, StoredOnce
<1>3. /\ pc'["executor"] \in Sending => pc["executor"] \in Sending
      /\ pc'["executor"] \in Sending \ {"send"} => pc["executor"] \in Sending \ {"send"}
      /\ pc'["executor"] = "await" => pc["executor"] = "await"
      /\ pc'["executor"] = "refuse" => pc["executor"] = "refuse"
  BY DEF QuietExecutor, Sending
<1>4. \A s, r \in Requests : sess'[s].completion = r => sess[s].completion = r
  BY RequestOrNone
<1>5. StoredUntold'
  BY <1>3, <1>4 DEF ReportsInv, StoredUntold
<1>6. CurrentRequest'
  BY <1>3, <1>4 DEF ReportsInv, CurrentRequest
<1>7. QED
  BY <1>1, <1>2, <1>5, <1>6 DEF ReportsInv

LEMMA QuietReports ==
  ASSUME TypeInv, ReportsInv, ReportsQuiet
  PROVE  ReportsInv'
  BY QuietTold, ReportsKept DEF ReportsQuiet

LEMMA FailedFinite ==
  ASSUME TypeInv
  PROVE  /\ IsFiniteSet(Requests)
         /\ IsFiniteSet(Failed) /\ IsFiniteSet(Failed \ Open)
         /\ Cardinality(Failed \ Open) \in Nat
<1>1. IsFiniteSet(Requests)
  BY RequestsAssumption, FS_Interval DEF Requests
<1>2. IsFiniteSet(Failed) /\ IsFiniteSet(Failed \ Open)
  BY <1>1, FS_Subset DEF Failed
<1>3. QED
  BY <1>1, <1>2, FS_CardinalityType

LEMMA ClosedGrows ==
  ASSUME TypeInv, TypeInv', Failed \ Open \subseteq (Failed \ Open)'
  PROVE  /\ Cardinality(Failed \ Open) <= Cardinality(Failed \ Open)'
         /\ Cardinality(Failed \ Open) \in Nat
         /\ Cardinality(Failed \ Open)' \in Nat
<1>1. IsFiniteSet(Requests)
  BY FailedFinite
<1>2. IsFiniteSet((Failed \ Open)')
  BY <1>1, FS_Subset DEF Failed
<1>3. QED
  BY <1>2, FS_Subset, FS_CardinalityType

LEMMA BoundKept ==
  ASSUME NEW a \in Nat, NEW d \in Nat, NEW a2 \in Nat, NEW d2 \in Nat,
         NEW c \in Nat, NEW c2 \in Nat,
         a + d <= c, c <= c2, a2 + d2 <= a + d
  PROVE  a2 + d2 <= c2
  OBVIOUS

LEMMA ReplansStep ==
  ASSUME TypeInv, TypeInv', ReplansInv,
         Failed \ Open \subseteq (Failed \ Open)',
         replans' + Due' <= replans + Due
  PROVE  ReplansCounted'
<1>1. Due \in Nat /\ Due' \in Nat /\ replans \in Nat /\ replans' \in Nat
  BY DEF Due, TypeInv, TypeOK
<1>2. /\ Cardinality(Failed \ Open) <= Cardinality(Failed \ Open)'
      /\ Cardinality(Failed \ Open) \in Nat
      /\ Cardinality(Failed \ Open)' \in Nat
  BY ClosedGrows
<1>3. replans + Due <= Cardinality(Failed \ Open)
  BY DEF ReplansInv, ReplansCounted
<1>4. replans' + Due' <= Cardinality(Failed \ Open)'
  BY <1>1, <1>2, <1>3, BoundKept, Zenon
<1>5. QED
  BY <1>4 DEF ReplansCounted

LEMMA QuietReplans ==
  ASSUME TypeInv, TypeInv', ReplansInv, ReplansQuiet
  PROVE  ReplansInv'
<1>1. Failed \ Open \subseteq (Failed \ Open)'
  BY RequestOrNone DEF ReplansQuiet, Failed, Open
<1>3. ReplansCounted'
  <2>1. replans' + Due' <= replans + Due
    BY DEF ReplansQuiet, Due, TypeInv, TypeOK
  <2>2. QED
    BY <1>1, <2>1, ReplansStep
<1>4. GoalStoredOnce'
  <2>1. \A s \in Requests : sess'[s].goalId # None => sess'[s].goalId = sess[s].goalId
    BY DEF ReplansQuiet
  <2>2. reqs' = reqs /\ reqs \in Nat
    BY OrNoneNat DEF ReplansQuiet, TypeInv, TypeOK
  <2>3. \A s \in Requests : sess'[s].goalId <= reqs'
    BY <2>1, <2>2 DEF ReplansInv, GoalStoredOnce, None
  <2>4. QED
    BY <2>1, <2>2, <2>3, RequestOrNone DEF ReplansQuiet, ReplansInv, GoalStoredOnce
<1>5. OnlyStatusFails'
  BY DEF ReplansQuiet, OnlyStatusFails
<1>6. QED
  BY <1>3, <1>4, <1>5 DEF ReplansInv

-----------------------------------------------------------------------------
(* The quiet steps.                                                        *)

QuietAction ==
  \/ TakeFeedback \/ InvalidateOld \/ CancelInvalidate \/ StopInvalidate
  \/ SwapSession \/ SupersedeFailure \/ WireSession \/ GoalAccepted
  \/ CancelPromote \/ StopGrab \/ StopReset \/ StopClearFailure
  \/ CallEstimator \/ Tick \/ RmfFreesPlan \/ Stop
  \/ StatusArrives \/ FeedbackArrives \/ MatchGoal \/ StoreReason
  \/ CheckDone \/ BufferFeedback
  \/ \E t \in CallbackThreads : CallbackInvalidate(t) \/ CallbackReset(t) \/ Return(t)

LEMMA QuietActions ==
  ASSUME TypeInv, CompletionInv, ReplansInv, QuietAction
  PROVE  Quiet
<1> USE DEF Threads, CallbackThreads
<1>0. /\ pc["executor"] \notin InCallback => pc["executor"] \notin Taken
      /\ cb["executor"].kind # "failed"
  BY DEF InCallback, Taken, ReplansInv, OnlyStatusFails
<1>1. CASE TakeFeedback
  <2>1. \A s \in Requests : sess'[s].completion = sess[s].completion /\ sess'[s].goalId = sess[s].goalId
    BY <1>1 DEF TakeFeedback, TypeInv, TypeOK, Session
  <2>2. QED
    BY <1>0, <1>1, <2>1
       DEF TakeFeedback, Quiet, ReportsQuiet, ReplansQuiet, FailureInHand, QuietThread, QuietExecutor, Sending, Taken, Goto,
       rmfVars, TypeInv, TypeOK
<1>2. CASE InvalidateOld
  <2>1. \A s \in Requests : sess'[s] = sess[s] \/ sess'[s] = Invalidated
    BY <1>2, InvalidateFrame DEF InvalidateOld
  <2>2. QED
    BY <1>0, <1>2, <2>1, InvalidatedFields
       DEF InvalidateOld, Quiet, ReportsQuiet, ReplansQuiet, FailureInHand, QuietThread, QuietExecutor, Sending, Taken, Goto,
       GotoWith, rmfVars, TypeInv, TypeOK
<1>3. CASE CancelInvalidate
  <2>1. \A s \in Requests : sess'[s] = sess[s] \/ sess'[s] = Invalidated
    BY <1>3, InvalidateFrame DEF CancelInvalidate
  <2>2. QED
    BY <1>0, <1>3, <2>1, InvalidatedFields
       DEF CancelInvalidate, Quiet, ReportsQuiet, ReplansQuiet, FailureInHand, QuietThread, QuietExecutor, Sending, Taken, Goto,
       GotoWith, rmfVars, TypeInv, TypeOK
<1>4. CASE StopInvalidate
  <2>1. \A s \in Requests : sess'[s] = sess[s] \/ sess'[s] = Invalidated
    BY <1>4, InvalidateFrame DEF StopInvalidate
  <2>2. QED
    BY <1>0, <1>4, <2>1, InvalidatedFields
       DEF StopInvalidate, Quiet, ReportsQuiet, ReplansQuiet, FailureInHand, QuietThread, QuietExecutor, Sending, Taken, Goto,
       GotoWith, rmfVars, TypeInv, TypeOK
<1>5. CASE SwapSession
  BY <1>0, <1>5, SessionFields
     DEF SwapSession, Quiet, ReportsQuiet, ReplansQuiet, FailureInHand, QuietThread, QuietExecutor, Sending, Taken, Goto,
     GotoWith, Leave, rmfVars, sessionVars, threadVars, TypeInv, TypeOK
<1>6. CASE SupersedeFailure
  BY <1>0, <1>6, SessionFields
     DEF SupersedeFailure, Quiet, ReportsQuiet, ReplansQuiet, FailureInHand, QuietThread, QuietExecutor, Sending, Taken, Goto,
     GotoWith, Leave, rmfVars, sessionVars, threadVars, TypeInv, TypeOK
<1>7. CASE WireSession
  BY <1>0, <1>7, SessionFields
     DEF WireSession, Quiet, ReportsQuiet, ReplansQuiet, FailureInHand, QuietThread, QuietExecutor, Sending, Taken, Goto,
     GotoWith, Leave, rmfVars, sessionVars, threadVars, TypeInv, TypeOK
<1>8. CASE GoalAccepted
  BY <1>0, <1>8, SessionFields
     DEF GoalAccepted, Quiet, ReportsQuiet, ReplansQuiet, FailureInHand, QuietThread, QuietExecutor, Sending, Taken, Goto,
     GotoWith, Leave, rmfVars, sessionVars, threadVars, TypeInv, TypeOK
<1>9. CASE CancelPromote
  BY <1>0, <1>9, SessionFields
     DEF CancelPromote, Quiet, ReportsQuiet, ReplansQuiet, FailureInHand, QuietThread, QuietExecutor, Sending, Taken, Goto,
     GotoWith, Leave, rmfVars, sessionVars, threadVars, TypeInv, TypeOK
<1>10. CASE StopGrab
  BY <1>0, <1>10, SessionFields
     DEF StopGrab, Quiet, ReportsQuiet, ReplansQuiet, FailureInHand, QuietThread, QuietExecutor, Sending, Taken, Goto,
     GotoWith, Leave, rmfVars, sessionVars, threadVars, TypeInv, TypeOK
<1>11. CASE StopReset
  BY <1>0, <1>11, SessionFields
     DEF StopReset, Quiet, ReportsQuiet, ReplansQuiet, FailureInHand, QuietThread, QuietExecutor, Sending, Taken, Goto,
     GotoWith, Leave, rmfVars, sessionVars, threadVars, TypeInv, TypeOK
<1>12. CASE StopClearFailure
  BY <1>0, <1>12, SessionFields
     DEF StopClearFailure, Quiet, ReportsQuiet, ReplansQuiet, FailureInHand, QuietThread, QuietExecutor, Sending, Taken, Goto,
     GotoWith, Leave, rmfVars, sessionVars, threadVars, TypeInv, TypeOK
<1>13. CASE CallEstimator
  BY <1>0, <1>13, SessionFields
     DEF CallEstimator, Quiet, ReportsQuiet, ReplansQuiet, FailureInHand, QuietThread, QuietExecutor, Sending, Taken, Goto,
     GotoWith, Leave, rmfVars, sessionVars, threadVars, TypeInv, TypeOK
<1>14. CASE Tick
  BY <1>0, <1>14, SessionFields
     DEF Tick, Quiet, ReportsQuiet, ReplansQuiet, FailureInHand, QuietThread, QuietExecutor, Sending, Taken, Goto,
     GotoWith, Leave, rmfVars, sessionVars, threadVars, TypeInv, TypeOK
<1>15. CASE RmfFreesPlan
  BY <1>0, <1>15, SessionFields
     DEF RmfFreesPlan, Quiet, ReportsQuiet, ReplansQuiet, FailureInHand, QuietThread, QuietExecutor, Sending, Taken, Goto,
     GotoWith, Leave, rmfVars, sessionVars, threadVars, TypeInv, TypeOK
<1>16. CASE Stop
  BY <1>0, <1>16, SessionFields
     DEF Stop, Quiet, ReportsQuiet, ReplansQuiet, FailureInHand, QuietThread, QuietExecutor, Sending, Taken, Goto,
     GotoWith, Leave, rmfVars, sessionVars, threadVars, TypeInv, TypeOK
<1>17. CASE StatusArrives
  BY <1>0, <1>17, SessionFields
     DEF StatusArrives, Quiet, ReportsQuiet, ReplansQuiet, FailureInHand, QuietThread, QuietExecutor, Sending, Taken, Goto,
     GotoWith, Leave, rmfVars, sessionVars, threadVars, TypeInv, TypeOK
<1>18. CASE FeedbackArrives
  BY <1>0, <1>18, SessionFields
     DEF FeedbackArrives, Quiet, ReportsQuiet, ReplansQuiet, FailureInHand, QuietThread, QuietExecutor, Sending, Taken, Goto,
     GotoWith, Leave, rmfVars, sessionVars, threadVars, TypeInv, TypeOK
<1>19. CASE MatchGoal
  BY <1>0, <1>19, SessionFields
     DEF MatchGoal, Quiet, ReportsQuiet, ReplansQuiet, FailureInHand, QuietThread, QuietExecutor, Sending, Taken, Goto,
     GotoWith, Leave, rmfVars, sessionVars, threadVars, TypeInv, TypeOK
<1>20. CASE StoreReason
  BY <1>0, <1>20, SessionFields
     DEF StoreReason, Quiet, ReportsQuiet, ReplansQuiet, FailureInHand, QuietThread, QuietExecutor, Sending, Taken, Goto,
     GotoWith, Leave, rmfVars, sessionVars, threadVars, TypeInv, TypeOK
<1>21. CASE CheckDone
  BY <1>0, <1>21, SessionFields
     DEF CheckDone, Quiet, ReportsQuiet, ReplansQuiet, FailureInHand, QuietThread, QuietExecutor, Sending, Taken, Goto,
     GotoWith, Leave, rmfVars, sessionVars, threadVars, TypeInv, TypeOK
<1>22. CASE BufferFeedback
  BY <1>0, <1>22, SessionFields
     DEF BufferFeedback, Quiet, ReportsQuiet, ReplansQuiet, FailureInHand, QuietThread, QuietExecutor, Sending, Taken, Goto,
     GotoWith, Leave, rmfVars, sessionVars, threadVars, TypeInv, TypeOK
<1>23. CASE \E t \in CallbackThreads : CallbackInvalidate(t)
  <2> PICK t \in CallbackThreads : CallbackInvalidate(t)
    BY <1>23
  <2>1. \A s \in Requests : sess'[s] = sess[s] \/ sess'[s] = Invalidated
    BY InvalidateFrame DEF CallbackInvalidate
  <2>2. QED
    BY <1>0, <2>1, InvalidatedFields
       DEF CallbackInvalidate, Quiet, ReportsQuiet, ReplansQuiet, FailureInHand, QuietThread, QuietExecutor, Sending,
       Taken, Goto, rmfVars, TypeInv, TypeOK
<1>24. CASE \E t \in CallbackThreads : CallbackReset(t)
  <2> PICK t \in CallbackThreads : CallbackReset(t)
    BY <1>24
  <2> QED
    BY <1>0, NoCallbackFields
       DEF CallbackReset, Quiet, ReportsQuiet, ReplansQuiet, FailureInHand, QuietThread, QuietExecutor, Sending, Taken, Goto,
       GotoWith, Leave, rmfVars, sessionVars, TypeInv, TypeOK
<1>25. CASE \E t \in CallbackThreads : Return(t)
  <2> PICK t \in CallbackThreads : Return(t)
    BY <1>25
  <2> QED
    BY <1>0, NoCallbackFields
       DEF Return, Quiet, ReportsQuiet, ReplansQuiet, FailureInHand, QuietThread, QuietExecutor, Sending, Taken, Goto,
       GotoWith, Leave, rmfVars, sessionVars, TypeInv, TypeOK
<1>26. QED
  BY <1>1, <1>2, <1>3, <1>4, <1>5, <1>6, <1>7, <1>8, <1>9, <1>10, <1>11, <1>12, <1>13, <1>14, <1>15, <1>16, <1>17, <1>18, <1>19, <1>20, <1>21, <1>22, <1>23, <1>24, <1>25 DEF QuietAction

-----------------------------------------------------------------------------
(* Reports: the steps that are counted.                                    *)

LEMMA SendingFacts ==
  ASSUME TypeInv, CompletionInv, ReportsInv, pc["executor"] \in Sending
  PROVE  /\ reqs \in Requests /\ goal[reqs] = "unsent"
         /\ Told(reqs) = 0 /\ ~refused[reqs]
         /\ pc["executor"] # "send" => \A s \in Requests : sess[s].completion # reqs
<1>1. reqs \in Requests /\ goal[reqs] = "unsent"
  BY RequestOrNone DEF CompletionInv, SendingIsNew, TypeInv, TypeOK
<1>2. QED
  BY <1>1 DEF ReportsInv, CurrentRequest

LEMMA ExecutePathReports ==
  ASSUME TypeInv, CompletionInv, ReportsInv, ExecutePath
  PROVE  ReportsInv'
<1> USE DEF Threads, CallbackThreads
<1>1. pc["executor"] = "promote" /\ UNCHANGED <<sess, reqs, goal, refused, finished>>
  BY DEF ExecutePath, sessionVars, rmfVars
<1>2. CASE Promoted # None
  <2>1. ReportsQuiet
    BY <1>1, <1>2
       DEF ExecutePath, ReportsQuiet, QuietThread, QuietExecutor, Sending,
       Taken, GotoWith, Goto, TypeInv, TypeOK
  <2>2. QED
    BY <2>1, QuietReports
<1>3. CASE Promoted = None
  <2>1. /\ pc'["executor"] \in Taken /\ pc'["status"] = pc["status"]
        /\ cb'["executor"] = [kind |-> "completed", of |-> reqs]
        /\ cb'["status"] = cb["status"]
    BY <1>3
       DEF ExecutePath, Fire, CallbackEntry, Goto, Taken, TypeInv, TypeOK
  <2>2. \A r \in Requests :
          /\ InHand("executor", r) = 0
          /\ InHand("executor", r)' = IF r = reqs THEN 1 ELSE 0
          /\ InHand("status", r)' = InHand("status", r)
    BY <1>1, <2>1 DEF InHand, Taken
  <2>3. \A r \in Requests : Told(r)' = IF r = reqs THEN Told(r) + 1 ELSE Told(r)
    BY <1>1, <2>2, ToldNat DEF Told, InHand, TypeInv, TypeOK
  <2>4. /\ reqs \in Requests /\ Told(reqs) = 0
        /\ \A s \in Requests : sess[s].completion # reqs
    BY <1>1, SendingFacts DEF Sending
  <2>6. pc'["executor"] \notin Sending \union {"await", "refuse"}
    BY <2>1 DEF Taken, Sending
  <2>7. ToldBound'
    BY <1>1, <2>3, <2>4 DEF ReportsInv, ToldBound
  <2>8. StoredUntold'
    BY <1>1, <2>3, <2>4, <2>6 DEF ReportsInv, StoredUntold
  <2>9. QED
    BY <1>1, <2>6, <2>7, <2>8 DEF ReportsInv, StoredOnce, CurrentRequest
<1>4. QED
  BY <1>2, <1>3

LEMMA ArmSessionReports ==
  ASSUME TypeInv, CompletionInv, ReportsInv, ArmSession
  PROVE  ReportsInv'
<1> USE DEF Threads, CallbackThreads
<1>1. /\ pc["executor"] = "arm" /\ pc'["executor"] = "send" /\ pc'["status"] = pc["status"]
      /\ UNCHANGED <<cb, reqs, goal, refused, finished>>
  BY DEF ArmSession, rmfVars, Goto, TypeInv, TypeOK
<1>2. held["executor"] \in Requests
  BY RequestOrNone DEF ArmSession, TypeInv, TypeOK, HoldsSession
<1>3. /\ sess'[held["executor"]].completion = reqs
      /\ \A s \in Requests \ {held["executor"]} : sess'[s] = sess[s]
  BY <1>2 DEF ArmSession, TypeInv, TypeOK, Session
<1>4. \A r \in Requests : Told(r)' = Told(r)
  BY <1>1 DEF Told, InHand, Taken
<1>5. /\ reqs \in Requests /\ Told(reqs) = 0 /\ ~refused[reqs]
      /\ \A s \in Requests : sess[s].completion # reqs
  BY <1>1, SendingFacts DEF Sending
<1>6. ToldBound'
  BY <1>1, <1>4 DEF ReportsInv, ToldBound
<1>7. StoredOnce'
  BY <1>3, <1>5 DEF ReportsInv, StoredOnce
<1>8. StoredUntold'
  BY <1>1, <1>3, <1>4, <1>5 DEF ReportsInv, StoredUntold
<1>9. CurrentRequest'
  BY <1>1, <1>4, <1>5 DEF ReportsInv, CurrentRequest, Sending
<1>10. QED
  BY <1>6, <1>7, <1>8, <1>9 DEF ReportsInv

LEMMA SendGoalReports ==
  ASSUME TypeInv, CompletionInv, ReportsInv, SendGoal
  PROVE  ReportsInv'
<1> USE DEF Threads, CallbackThreads
<1>1. /\ pc["executor"] = "send" /\ pc'["executor"] = "await" /\ pc'["status"] = pc["status"]
      /\ UNCHANGED <<sess, cb, reqs, refused, finished>>
      /\ \A r \in Requests : r # reqs => goal'[r] = goal[r]
  BY DEF SendGoal, sessionVars, rmfVars, Goto, TypeInv, TypeOK
<1>2. \A r \in Requests : Told(r)' = Told(r)
  BY <1>1 DEF Told, InHand, Taken
<1>3. reqs \in Requests /\ Told(reqs) = 0 /\ ~refused[reqs]
  BY <1>1, SendingFacts DEF Sending
<1>4. ToldBound'
  BY <1>1, <1>2, <1>3 DEF ReportsInv, ToldBound
<1>5. StoredUntold'
  BY <1>1, <1>2 DEF ReportsInv, StoredUntold
<1>6. CurrentRequest'
  BY <1>1, <1>2, <1>3 DEF ReportsInv, CurrentRequest, Sending
<1>7. QED
  BY <1>1, <1>4, <1>5, <1>6 DEF ReportsInv, StoredOnce

LEMMA GoalNotAcceptedReports ==
  ASSUME TypeInv, CompletionInv, ReportsInv, GoalNotAccepted
  PROVE  ReportsInv'
<1> USE DEF Threads, CallbackThreads
<1>1. /\ pc["executor"] = "await" /\ pc'["executor"] = "refuse" /\ pc'["status"] = pc["status"]
      /\ UNCHANGED <<sess, cb, reqs, finished>>
      /\ \A r \in Requests : r # reqs => goal'[r] = goal[r] /\ refused'[r] = refused[r]
  BY DEF GoalNotAccepted, sessionVars, Goto, TypeInv, TypeOK
<1>2. \A r \in Requests : Told(r)' = Told(r) /\ Told(r) \in Nat
  BY <1>1, ToldNat DEF Told, InHand, Taken
<1>3. /\ reqs \in Requests /\ ~refused[reqs]
      /\ Told(reqs) <= 1 /\ (Told(reqs) = 1 => goal[reqs] = "succeeded")
      /\ \A s \in Requests : sess[s].completion = reqs => Told(reqs) = 0
  <2>1. reqs \in Requests
    BY <1>1, RequestOrNone DEF CompletionInv, ArmedForRequest, TypeInv, TypeOK
  <2>2. QED
    BY <1>1, <2>1 DEF ReportsInv, CurrentRequest, StoredUntold
<1>4. goal[reqs] = "succeeded" => goal'[reqs] = "succeeded"
  BY DEF GoalNotAccepted, TypeInv, TypeOK
<1>5. ToldBound'
  BY <1>1, <1>2, <1>3 DEF ReportsInv, ToldBound
<1>6. StoredUntold'
  BY <1>1, <1>2, <1>3 DEF ReportsInv, StoredUntold
<1>7. \A r \in Requests : r > reqs => r # reqs
  BY OrNoneNat DEF TypeInv, TypeOK
<1>8. CurrentRequest'
  BY <1>1, <1>2, <1>3, <1>4, <1>7 DEF ReportsInv, CurrentRequest, Sending
<1>9. QED
  BY <1>1, <1>5, <1>6, <1>8 DEF ReportsInv, StoredOnce

LEMMA RefuseGoalReports ==
  ASSUME TypeInv, CompletionInv, ReportsInv, RefuseGoal
  PROVE  ReportsInv'
<1> USE DEF Threads, CallbackThreads
<1> DEFINE c == sess[held["executor"]].completion
<1>1. /\ pc["executor"] = "refuse" /\ pc'["executor"] \in InCallback /\ pc'["status"] = pc["status"]
      /\ UNCHANGED <<reqs, finished, goal, refused>>
      /\ cb'["status"] = cb["status"]
      /\ \A s \in Requests : sess'[s].completion = sess[s].completion
  BY DEF RefuseGoal, rmfVars, Fire, CallbackEntry, Goto, InCallback, TypeInv,
  TypeOK, Session
<1>2. /\ held["executor"] \in Requests /\ reqs \in Requests
      /\ c \in {None, reqs} /\ refused[reqs]
  BY <1>1, RequestOrNone
     DEF CompletionInv, ArmedForRequest, TypeInv, TypeOK, HoldsSession
<1>3. IF c = None
        THEN cb'["executor"].kind = "none"
        ELSE /\ cb'["executor"].kind = "completed" /\ cb'["executor"].of = reqs
             /\ pc'["executor"] \in Taken
  BY <1>2 DEF RefuseGoal, Fire, CallbackEntry, Goto, Taken, NoCallback, TypeInv, TypeOK
<1>4. \A r \in Requests :
        /\ InHand("executor", r) = 0
        /\ InHand("executor", r)' = IF c = reqs /\ r = reqs THEN 1 ELSE 0
        /\ InHand("status", r)' = InHand("status", r)
  BY <1>1, <1>2, <1>3, RequestOrNone DEF InHand, Taken
<1>5. \A r \in Requests :
        Told(r)' = IF c = reqs /\ r = reqs THEN Told(r) + 1 ELSE Told(r)
  BY <1>1, <1>4, ToldNat DEF Told, InHand, TypeInv, TypeOK
<1>6. c = reqs => Told(reqs) = 0
  BY <1>1, <1>2 DEF ReportsInv, StoredUntold
<1>7. ToldBound'
  BY <1>1, <1>2, <1>5, <1>6 DEF ReportsInv, ToldBound
<1>8. StoredUntold'
  BY <1>1, <1>2, <1>5, <1>6 DEF ReportsInv, StoredUntold, InCallback
<1>9. CurrentRequest'
  BY <1>1 DEF ReportsInv, CurrentRequest, Sending, InCallback
<1>10. QED
  BY <1>1, <1>7, <1>8, <1>9 DEF ReportsInv, StoredOnce

LEMMA ReportFinishedReports ==
  ASSUME TypeInv, CompletionInv, ReportsInv,
         NEW t \in CallbackThreads, ReportFinished(t)
  PROVE  ReportsInv'
<1> USE DEF Threads, CallbackThreads
<1>1. /\ pc[t] = "cbReport" /\ pc'[t] = "return"
      /\ UNCHANGED <<sess, cb, reqs, goal, refused>>
      /\ \A u \in CallbackThreads \ {t} : pc'[u] = pc[u]
  BY DEF ReportFinished, sessionVars, Goto, TypeInv, TypeOK
<1>2. cb[t].kind = "completed"
  BY DEF ReportFinished
<1>3. \A r \in Requests :
        finished'[r] = IF r = cb[t].of THEN finished[r] + 1 ELSE finished[r]
  BY DEF ReportFinished, TypeInv, TypeOK
<1>4. \A r \in Requests :
        /\ InHand(t, r) = IF r = cb[t].of THEN 1 ELSE 0
        /\ InHand(t, r)' = 0
        /\ \A u \in CallbackThreads \ {t} : InHand(u, r)' = InHand(u, r)
  BY <1>1, <1>2 DEF InHand, Taken
<1>5. \A r \in Requests : Told(r)' = Told(r)
  <2>1. \A r \in Requests, u \in CallbackThreads : InHand(u, r) \in Nat
    BY DEF InHand
  <2>2. \A r \in Requests : finished[r] \in Nat
    BY DEF TypeInv, TypeOK
  <2>3. CASE t = "executor"
    BY <1>3, <1>4, <2>1, <2>2, <2>3 DEF Told
  <2>4. CASE t = "status"
    BY <1>3, <1>4, <2>1, <2>2, <2>4 DEF Told
  <2>5. QED
    BY <2>3, <2>4
<1>6. QuietExecutor
  BY <1>1 DEF QuietExecutor, Sending
<1>7. QED
  BY <1>1, <1>5, <1>6, ReportsKept

\* What is quiet for the reports, though not for the replans.
LEMMA ReportFailureReports ==
  ASSUME TypeInv, CompletionInv, ReportsInv,
         NEW t \in CallbackThreads, ReportFailure(t)
  PROVE  ReportsInv'
<1>1. ReportsQuiet
  BY DEF ReportFailure, ReportsQuiet, QuietThread, QuietExecutor, Sending,
  Taken, Goto, rmfVars, Threads, CallbackThreads, TypeInv, TypeOK
<1>2. QED
  BY <1>1, QuietReports

LEMMA TakeFailureReports ==
  ASSUME TypeInv, CompletionInv, ReportsInv, TakeFailure
  PROVE  ReportsInv'
<1>1. ReportsQuiet
  BY DEF TakeFailure, ReportsQuiet, QuietThread, QuietExecutor, Sending,
  Taken, Leave, GotoWith, Goto, Threads, CallbackThreads, TypeInv, TypeOK
<1>2. QED
  BY <1>1, QuietReports

LEMMA ScanStatusReports ==
  ASSUME TypeInv, CompletionInv, ReportsInv, ScanStatus
  PROVE  ReportsInv'
<1> USE DEF Threads, CallbackThreads
<1> DEFINE s == held["status"]
           c == sess[s].completion
           Ended == sess[s].goalId # None /\ goal[sess[s].goalId] \in Terminal
           Completes == Ended /\ c # None /\ goal[c] = "succeeded"
<1>1. /\ pc["status"] = "scan" /\ pc'["status"] \in InCallback
      /\ UNCHANGED <<reqs, finished, goal, refused>>
      /\ pc'["executor"] = pc["executor"] /\ cb'["executor"] = cb["executor"]
  BY DEF ScanStatus, rmfVars, Fire, CallbackEntry, Goto, InCallback, TypeInv, TypeOK
<1>2. s \in Requests
  BY <1>1, RequestOrNone DEF TypeInv, TypeOK, HoldsSession
<1>3. c # None => c \in Requests /\ sess[s].goalId = c
  <2>1. sess[s] \in Session
    BY <1>2 DEF TypeInv, TypeOK
  <2>2. c \in OrNone
    BY <2>1, SessionFields
  <2>3. c # None => c \in Requests
    BY <2>2, RequestOrNone
  <2>4. QED
    BY <1>2, <2>3 DEF CompletionInv, CompletionMatchesGoal
<1>4. CASE ~Completes
  <2>1. pc'["status"] \in Taken => cb'["status"].kind # "completed"
    BY <1>1, <1>2, <1>3, <1>4
       DEF ScanStatus, EndCallback, Fire, CallbackEntry, Goto, NoCallback,
       Taken, TypeInv, TypeOK
  <2>2. \A q \in Requests : sess'[q] = sess[q] \/ sess'[q] = Invalidated
    BY InvalidateFrame DEF ScanStatus
  <2>3. \A q \in Requests : sess'[q].completion \in {sess[q].completion, None}
    BY <2>2, InvalidatedFields
  <2>4. \A r \in Requests : Told(r)' = Told(r)
    BY <1>1, <2>1 DEF Told, InHand, Taken
  <2>5. QuietExecutor
    BY <1>1 DEF QuietExecutor
  <2>6. QED
    BY <1>1, <2>3, <2>4, <2>5, ReportsKept
<1>5. CASE Completes
  <2>1. /\ pc'["status"] \in Taken
        /\ cb'["status"].kind = "completed" /\ cb'["status"].of = c
    BY <1>1, <1>2, <1>3, <1>5
       DEF ScanStatus, EndCallback, Fire, CallbackEntry, Goto, Taken, TypeInv, TypeOK
  <2>2. /\ sess'[s].completion = None
        /\ \A q \in Requests \ {s} : sess'[q] = sess[q]
    BY <1>2, <1>5, InvalidatedFields DEF ScanStatus, Invalidate, TypeInv, TypeOK
  <2>3. \A r \in Requests :
          Told(r)' = IF r = c THEN Told(r) + 1 ELSE Told(r)
    <3>1. \A r \in Requests :
            /\ InHand("status", r) = 0
            /\ InHand("status", r)' = IF r = c THEN 1 ELSE 0
            /\ InHand("executor", r)' = InHand("executor", r)
      BY <1>1, <2>1 DEF InHand, Taken
    <3>2. QED
      BY <1>1, <3>1, ToldNat DEF Told, InHand, TypeInv, TypeOK
  <2>4. /\ c \in Requests /\ goal[c] = "succeeded"
        /\ Told(c) <= 1 /\ (~refused[c] => Told(c) = 0)
        /\ pc["executor"] = "refuse" /\ reqs = c => Told(c) = 0
        /\ \A q \in Requests : sess'[q].completion # c
    BY <1>2, <1>3, <1>5, <2>2 DEF ReportsInv, StoredOnce, StoredUntold
  <2>5. \A r \in Requests : Told(r) \in Nat
    BY ToldNat
  <2>6. ToldBound'
    <3> SUFFICES ASSUME NEW r \in Requests
                 PROVE  Told(r)' <= 2 /\ (Told(r)' = 2 => refused'[r] /\ goal'[r] = "succeeded")
      BY DEF ToldBound
    <3>1. CASE r = c
      BY <1>1, <2>3, <2>4, <2>5, <3>1
    <3>2. CASE r # c
      BY <1>1, <2>3, <3>2 DEF ReportsInv, ToldBound
    <3>3. QED
      BY <3>1, <3>2
  <2>7. StoredOnce'
    BY <2>2 DEF ReportsInv, StoredOnce
  <2>8. StoredUntold'
    <3> SUFFICES ASSUME NEW q \in Requests, NEW r \in Requests,
                        sess'[q].completion = r
                 PROVE  /\ Told(r)' <= 1
                        /\ ~refused[r] \/ (pc["executor"] = "refuse" /\ reqs = r)
                             => Told(r)' = 0
      BY <1>1 DEF StoredUntold
    <3>1. r # c /\ sess[q].completion = r
      BY <2>2, <2>4, RequestOrNone
    <3>2. Told(r)' = Told(r)
      BY <2>3, <3>1
    <3>3. QED
      BY <3>1, <3>2 DEF ReportsInv, StoredUntold
  <2>9. CurrentRequest'
    <3>1. pc["executor"] \in Sending => c # reqs
      BY <2>4 DEF CompletionInv, SendingIsNew
    <3>2. \A q \in Requests : sess'[q].completion \in {sess[q].completion, None}
      BY <2>2
    <3>3. \A q, r \in Requests : sess'[q].completion = r => sess[q].completion = r
      BY <3>2, RequestOrNone
    <3>4. pc["executor"] \in {"await", "refuse"} /\ c = reqs => Told(c) = 0
      BY <2>4 DEF ReportsInv, CurrentRequest
    <3>5. \A r \in Requests : r = reqs =>
            /\ pc["executor"] \in Sending => Told(r)' = 0
            /\ pc["executor"] \in {"await", "refuse"} =>
                 Told(r)' <= 1 /\ (Told(r)' = 1 => goal[r] = "succeeded")
      BY <2>3, <2>4, <2>5, <3>1, <3>4 DEF ReportsInv, CurrentRequest
    <3>6. QED
      BY <1>1, <3>3, <3>5 DEF ReportsInv, CurrentRequest
  <2>10. QED
    BY <2>6, <2>7, <2>8, <2>9 DEF ReportsInv
<1>6. QED
  BY <1>4, <1>5

LEMMA FreshRequest ==
  ASSUME TypeInv, CompletionInv, ReportsInv, MayRequest
  PROVE  /\ reqs \in Nat /\ reqs + 1 \in Requests /\ Told(reqs + 1) = 0
         /\ ~refused[reqs + 1] /\ goal[reqs + 1] = "unsent"
         /\ finished[reqs + 1] = 0
         /\ \A s \in Requests : sess[s].completion <= reqs
         /\ \A s \in Requests : sess[s].completion # reqs + 1
<1>1. reqs \in Nat /\ reqs + 1 \in Requests /\ reqs + 1 > reqs
  BY RequestsAssumption DEF MayRequest, TypeInv, TypeOK, OrNone, Requests
<1>2. /\ ~refused[reqs + 1] /\ goal[reqs + 1] = "unsent" /\ finished[reqs + 1] = 0
      /\ \A s \in Requests : sess[s].completion <= reqs
      /\ \A t \in CallbackThreads : cb[t].kind = "completed" => cb[t].of # reqs + 1
  BY <1>1 DEF ReportsInv, CurrentRequest, CompletionInv, FutureUntouched
<1>3. \A s \in Requests : sess[s].completion # reqs + 1
  BY <1>1, <1>2
<1>4. \A t \in CallbackThreads : InHand(t, reqs + 1) = 0
  BY <1>2 DEF InHand
<1>5. Told(reqs + 1) = 0
  BY <1>2, <1>4 DEF Told, CallbackThreads
<1>6. QED
  BY <1>1, <1>2, <1>3, <1>5

LEMMA NewRequestReports ==
  ASSUME TypeInv, CompletionInv, ReportsInv,
         FollowNewPath \/ DockWithUndock \/ DockWithoutMotion \/ FollowEmptyPath
  PROVE  ReportsInv'
<1> USE DEF Threads, CallbackThreads
<1>0. MayRequest
  BY DEF FollowNewPath, FollowEmptyPath, DockWithUndock, DockWithoutMotion
<1> PICK n \in Requests : n = reqs + 1
  BY <1>0, FreshRequest
<1>1. /\ reqs' = n
      /\ UNCHANGED <<sess, cb, goal, refused>>
      /\ pc["executor"] = "idle" /\ pc'["status"] = pc["status"]
      /\ \/ finished' = finished /\ pc'["executor"] \in {"swap", "promote"}
         \/ finished' = [finished EXCEPT ![n] = @ + 1] /\ pc'["executor"] = "idle"
  BY DEF FollowNewPath, FollowEmptyPath, DockWithUndock, DockWithoutMotion, MayRequest,
  sessionVars, threadVars, GotoWith, Goto, TypeInv, TypeOK
<1>2. /\ reqs \in Nat /\ n \in Requests /\ Told(n) = 0 /\ finished[n] = 0
      /\ ~refused[n] /\ goal[n] = "unsent"
      /\ \A s \in Requests : sess[s].completion # n
  BY <1>0, FreshRequest
<1>3. \A r \in Requests : r # n => Told(r)' = Told(r)
  BY <1>1, <1>2 DEF Told, InHand, Taken, TypeInv, TypeOK
<1>4. \/ pc'["executor"] = "idle" /\ Told(n)' \in {0, 1}
      \/ pc'["executor"] \in {"swap", "promote"} /\ Told(n)' = 0
  <2>1. \A t \in CallbackThreads : InHand(t, n)' = InHand(t, n)
    BY <1>1 DEF InHand, Taken
  <2>2. InHand("executor", n) = 0 /\ InHand("status", n) = 0
    BY <1>2 DEF InHand, Told
  <2>3. QED
    BY <1>1, <1>2, <2>1, <2>2 DEF Told, TypeInv, TypeOK
<1>5. ToldBound'
  <2> SUFFICES ASSUME NEW r \in Requests
               PROVE  Told(r)' <= 2 /\ (Told(r)' = 2 => refused'[r] /\ goal'[r] = "succeeded")
    BY DEF ToldBound
  <2>1. CASE r = n
    BY <1>4, <2>1
  <2>2. CASE r # n
    BY <1>1, <1>3, <2>2 DEF ReportsInv, ToldBound
  <2>3. QED
    BY <2>1, <2>2
<1>6. StoredUntold'
  <2> SUFFICES ASSUME NEW s \in Requests, NEW r \in Requests,
                      sess[s].completion = r
               PROVE  /\ Told(r)' <= 1
                      /\ ~refused[r] => Told(r)' = 0
    BY <1>1 DEF StoredUntold
  <2>1. r # n /\ Told(r)' = Told(r)
    BY <1>2, <1>3
  <2>2. QED
    BY <2>1 DEF ReportsInv, StoredUntold
<1>7. CurrentRequest'
  <2>1. \A r \in Requests : r > reqs' => ~refused'[r]
    <3> SUFFICES ASSUME NEW r \in Requests, r > n
                 PROVE  ~refused[r]
      BY <1>1
    <3>1. r > reqs
      BY <1>2 DEF Requests
    <3>2. QED
      BY <3>1 DEF ReportsInv, CurrentRequest
  <2>2. pc'["executor"] \notin {"await", "refuse"}
    BY <1>4
  <2>3. pc'["executor"] \in Sending => Told(n)' = 0
    BY <1>4 DEF Sending
  <2>4. QED
    BY <1>1, <1>2, <2>1, <2>2, <2>3 DEF CurrentRequest
<1>8. QED
  BY <1>1, <1>5, <1>6, <1>7 DEF ReportsInv, StoredOnce

LEMMA RobotReports ==
  ASSUME TypeInv, CompletionInv, ReportsInv,
         NEW g \in Requests, RobotDecides(g) \/ RobotEnds(g)
  PROVE  ReportsInv'
<1>1. /\ UNCHANGED <<sess, cb, pc, finished, refused, reqs>>
      /\ \A r \in Requests : goal[r] = "succeeded" => goal'[r] = "succeeded"
  BY DEF RobotDecides, RobotEnds, sessionVars, threadVars, rmfVars, TypeInv, TypeOK
<1>2. \A r \in Requests : Told(r)' = Told(r)
  BY <1>1 DEF Told, InHand
<1>3. ToldBound'
  BY <1>1, <1>2 DEF ReportsInv, ToldBound
<1>4. StoredUntold'
  BY <1>1, <1>2 DEF ReportsInv, StoredUntold
<1>5. CurrentRequest'
  BY <1>1, <1>2 DEF ReportsInv, CurrentRequest
<1>6. QED
  BY <1>1, <1>3, <1>4, <1>5 DEF ReportsInv, StoredOnce

-----------------------------------------------------------------------------
(* Replans: the steps that are counted.                                    *)

\* Steps of RMF's calls and of the robot that neither ask for a replan nor
\* give one up.
LEMMA OtherReplans ==
  ASSUME TypeInv, TypeInv', CompletionInv, ReplansInv,
         \/ ExecutePath \/ SendGoal \/ GoalNotAccepted \/ RefuseGoal
         \/ \E t \in CallbackThreads : ReportFinished(t)
         \/ \E g \in Requests : RobotDecides(g) \/ RobotEnds(g)
  PROVE  ReplansInv'
<1> USE DEF Threads, CallbackThreads
<1>0. cb["executor"].kind # "failed"
  BY DEF ReplansInv, OnlyStatusFails
<1>1. CASE ExecutePath
  <2>1. ReplansQuiet
    BY <1>0, <1>1
       DEF ExecutePath, ReplansQuiet, FailureInHand, Taken, Sending, Failed,
       Fire, CallbackEntry, GotoWith, Goto, sessionVars, rmfVars, TypeInv, TypeOK
  <2>2. QED
    BY <2>1, QuietReplans
<1>2. CASE SendGoal
  <2>1. ReplansQuiet
    BY <1>0, <1>2
       DEF SendGoal, CompletionInv, SendingIsNew, ReplansQuiet, FailureInHand, Taken, Sending, Failed,
       Goto, sessionVars, rmfVars, TypeInv, TypeOK
  <2>2. QED
    BY <2>1, QuietReplans
<1>3. CASE GoalNotAccepted
  <2>1. ReplansQuiet
    BY <1>0, <1>3
       DEF GoalNotAccepted, ReplansQuiet, FailureInHand, Taken, Sending, Failed,
       Goto, sessionVars, TypeInv, TypeOK
  <2>2. QED
    BY <2>1, QuietReplans
<1>4. CASE RefuseGoal
  <2>1. \A s \in Requests : sess'[s].goalId = sess[s].goalId
    BY <1>4 DEF RefuseGoal, TypeInv, TypeOK, Session
  <2>2. ReplansQuiet
    BY <1>0, <1>4, <2>1, NoCallbackFields
       DEF RefuseGoal, ReplansQuiet, FailureInHand, Taken, Sending, Failed,
       Fire, CallbackEntry, Goto, rmfVars, TypeInv, TypeOK
  <2>3. QED
    BY <2>2, QuietReplans
<1>5. CASE \E t \in CallbackThreads : ReportFinished(t)
  <2> PICK t \in CallbackThreads : ReportFinished(t)
    BY <1>5
  <2>1. ReplansQuiet
    BY <1>0
       DEF ReportFinished, ReplansQuiet, FailureInHand, Taken, Sending, Failed,
       Goto, sessionVars, TypeInv, TypeOK
  <2>2. QED
    BY <2>1, QuietReplans
<1>6. CASE \E g \in Requests : RobotDecides(g) \/ RobotEnds(g)
  <2> PICK g \in Requests : RobotDecides(g) \/ RobotEnds(g)
    BY <1>6
  <2>1. UNCHANGED <<sess, cb, pc, reqs, replans, pendingFailure>>
    BY DEF RobotDecides, RobotEnds, sessionVars, threadVars, rmfVars
  <2>2. \A f \in Failed : goal'[f] = goal[f]
    BY DEF RobotDecides, RobotEnds, Failed, TypeInv, TypeOK
  <2>3. ReplansQuiet
    BY <1>0, <2>1, <2>2 DEF ReplansQuiet, FailureInHand
  <2>4. QED
    BY <2>3, QuietReplans
<1>7. QED
  BY <1>1, <1>2, <1>3, <1>4, <1>5, <1>6

LEMMA ArmSessionReplans ==
  ASSUME TypeInv, TypeInv', CompletionInv, ReplansInv, ArmSession
  PROVE  ReplansInv'
<1> USE DEF Threads, CallbackThreads
<1>1. /\ pc["executor"] = "arm" /\ pc'["executor"] = "send" /\ pc'["status"] = pc["status"]
      /\ UNCHANGED <<cb, reqs, goal, replans, pendingFailure>>
  BY DEF ArmSession, rmfVars, Goto, TypeInv, TypeOK
<1>2. held["executor"] \in Requests
  BY RequestOrNone DEF ArmSession, TypeInv, TypeOK, HoldsSession
<1>3. /\ sess'[held["executor"]].goalId = reqs
      /\ \A s \in Requests \ {held["executor"]} : sess'[s] = sess[s]
  BY <1>2 DEF ArmSession, TypeInv, TypeOK, Session
<1>4. /\ reqs \in Requests /\ goal[reqs] = "unsent"
      /\ \A s \in Requests : sess[s].goalId # reqs
      /\ \A s \in Requests : sess[s].goalId <= reqs
  <2>1. reqs \in Requests /\ goal[reqs] = "unsent"
    BY <1>1, RequestOrNone DEF CompletionInv, SendingIsNew, Sending, TypeInv, TypeOK
  <2>2. QED
    BY <1>1, <2>1 DEF ReplansInv, GoalStoredOnce, Sending
<1>5. Failed \ Open \subseteq (Failed \ Open)'
  BY <1>1, <1>3, <1>4 DEF Failed, Open
<1>6. replans' + Due' <= replans + Due
  BY <1>1 DEF Due, FailureInHand, TypeInv, TypeOK
<1>7. GoalStoredOnce'
  <2>1. reqs <= reqs
    BY OrNoneNat DEF TypeInv, TypeOK
  <2>2. \A s \in Requests : sess'[s].goalId <= reqs
    BY <1>3, <1>4, <2>1
  <2>3. QED
    BY <1>1, <1>3, <1>4, <2>2 DEF ReplansInv, GoalStoredOnce
<1>8. OnlyStatusFails'
  BY <1>1 DEF ReplansInv, OnlyStatusFails
<1>9. QED
  BY <1>5, <1>6, <1>7, <1>8, ReplansStep DEF ReplansInv

LEMMA ScanStatusReplans ==
  ASSUME TypeInv, TypeInv', ReplansInv, ScanStatus
  PROVE  ReplansInv'
<1> USE DEF Threads, CallbackThreads
<1> DEFINE s == held["status"]
           g == sess[s].goalId
<1>1. /\ pc["status"] = "scan" /\ ~FailureInHand
      /\ UNCHANGED <<reqs, goal, replans, pendingFailure>>
      /\ pc'["executor"] = pc["executor"] /\ cb'["executor"] = cb["executor"]
  BY DEF ScanStatus, rmfVars, Fire, Goto, FailureInHand, Taken, TypeInv, TypeOK
<1>2. s \in Requests
  BY <1>1, RequestOrNone DEF TypeInv, TypeOK, HoldsSession
<1>3. \A q \in Requests : sess'[q].goalId \in {sess[q].goalId, None}
  BY InvalidateFrame, InvalidatedFields DEF ScanStatus
<1>4. CASE ~FailureInHand'
  <2>1. ReplansQuiet
    BY <1>1, <1>3, <1>4 DEF ReplansQuiet, ReplansInv, OnlyStatusFails
  <2>2. QED
    BY <2>1, QuietReplans
<1>5. CASE FailureInHand'
  <2>1. g # None /\ goal[g] \in Terminal /\ Invalidate(s)
        /\ cb'["status"] = EndCallback(s)
    BY <1>5 DEF ScanStatus, FailureInHand, Goto, Fire, Taken, TypeInv, TypeOK
  <2>2. g \in Requests
    <3>1. g \in OrNone
      BY <1>2 DEF TypeInv, TypeOK, Session
    <3>2. QED
      BY <2>1, <3>1, RequestOrNone
  <2>3. goal[g] \in {"aborted", "canceled"}
    BY <1>5, <2>1, NoCallbackFields DEF FailureInHand, EndCallback, Terminal
  <2>4. \A q \in Requests : sess'[q].goalId # g
    <3>1. sess'[s].goalId = None
      BY <1>2, <2>1, InvalidatedFields DEF Invalidate, TypeInv, TypeOK
    <3>2. \A q \in Requests \ {s} : sess[q].goalId # g
      BY <1>2, <2>1 DEF ReplansInv, GoalStoredOnce
    <3>3. QED
      BY <1>2, <1>3, <2>1, <3>1, <3>2
  <2>5. PICK f \in Requests : f = g
    BY <2>2
  <2>6. /\ f \in Open /\ f \in (Failed \ Open)'
        /\ Failed \ Open \subseteq (Failed \ Open)'
    <3>1. f \in Open
      BY <1>2, <2>5 DEF Open
    <3>2. f \in (Failed \ Open)'
      BY <1>1, <2>3, <2>4, <2>5 DEF Failed, Open
    <3>3. Failed \ Open \subseteq (Failed \ Open)'
      BY <1>1, <1>3, RequestOrNone DEF Failed, Open
    <3>4. QED
      BY <3>1, <3>2, <3>3
  <2>7. Cardinality(Failed \ Open) + 1 <= Cardinality(Failed \ Open)'
    <3>1. IsFiniteSet(Failed \ Open) /\ IsFiniteSet(Requests)
      BY FailedFinite
    <3>2. Cardinality((Failed \ Open) \union {f}) = Cardinality(Failed \ Open) + 1
      BY <2>6, <3>1, FS_AddElement
    <3>3. (Failed \ Open) \union {f} \subseteq (Failed \ Open)'
      BY <2>6
    <3>4. IsFiniteSet((Failed \ Open)')
      BY <3>1, FS_Subset DEF Failed
    <3>5. Cardinality((Failed \ Open) \union {f}) <= Cardinality((Failed \ Open)')
      BY <3>3, <3>4, FS_Subset
    <3>6. QED
      BY <3>2, <3>5
  <2>8. replans + Due <= Cardinality(Failed \ Open)
    BY DEF ReplansInv, ReplansCounted
  <2>9. ReplansCounted'
    <3>1. replans' + Due' = replans + Due + 1
      BY <1>1, <1>5 DEF Due, TypeInv, TypeOK
    <3>2. replans + Due \in Nat
      BY DEF Due, TypeInv, TypeOK
    <3>3. /\ Cardinality(Failed \ Open) \in Nat
          /\ Cardinality(Failed \ Open)' \in Nat
      BY <2>6, ClosedGrows
    <3>4. replans + Due + 1 <= Cardinality(Failed \ Open)'
      BY <2>7, <2>8, <3>2, <3>3
    <3>5. QED
      BY <3>1, <3>4 DEF ReplansCounted
  <2>10. GoalStoredOnce'
    <3>1. \A q \in Requests : sess'[q].goalId # None => sess'[q].goalId = sess[q].goalId
      BY <1>3
    <3>2. reqs \in Nat
      BY OrNoneNat DEF TypeInv, TypeOK
    <3>3. \A q \in Requests : sess'[q].goalId <= reqs
      BY <3>1, <3>2 DEF ReplansInv, GoalStoredOnce, None
    <3>4. QED
      BY <1>1, <3>1, <3>3, RequestOrNone DEF ReplansInv, GoalStoredOnce
  <2>11. QED
    BY <1>1, <2>9, <2>10 DEF ReplansInv, OnlyStatusFails
<1>6. QED
  BY <1>4, <1>5

LEMMA FailureReplans ==
  ASSUME TypeInv, TypeInv', ReplansInv,
         TakeFailure \/ \E t \in CallbackThreads : ReportFailure(t)
  PROVE  ReplansInv'
<1> USE DEF Threads, CallbackThreads
<1>1. /\ UNCHANGED <<sess, cb, reqs, goal>>
      /\ pc'["executor"] \in Sending => pc'["executor"] = pc["executor"]
  <2>1. CASE TakeFailure
    BY <2>1 DEF TakeFailure, Leave, GotoWith, Goto, Sending, TypeInv, TypeOK
  <2>2. CASE \E t \in CallbackThreads : ReportFailure(t)
    BY <2>2 DEF ReportFailure, Goto, rmfVars, ReplansInv, OnlyStatusFails, Sending, TypeInv, TypeOK
  <2>3. QED
    BY <2>1, <2>2
<1>2. replans' + Due' <= replans + Due
  <2>1. CASE TakeFailure
    <3>1. FailureInHand' = FailureInHand
      BY <2>1 DEF TakeFailure, Leave, GotoWith, Goto, FailureInHand, TypeInv, TypeOK
    <3>2. /\ ~pendingFailure'
          /\ replans' = IF pendingFailure THEN replans + 1 ELSE replans
      BY <2>1 DEF TakeFailure
    <3>3. QED
      BY <3>1, <3>2 DEF Due, TypeInv, TypeOK
  <2>2. CASE \E t \in CallbackThreads : ReportFailure(t)
    <3>1. ReportFailure("status")
      BY <2>2 DEF ReportFailure, ReplansInv, OnlyStatusFails
    <3>2. FailureInHand /\ ~FailureInHand' /\ replans' = replans
      BY <3>1 DEF ReportFailure, Goto, rmfVars, FailureInHand, Taken, TypeInv, TypeOK
    <3>3. QED
      BY <3>2 DEF Due, TypeInv, TypeOK
  <2>3. QED
    BY <2>1, <2>2
<1>3. Failed \ Open \subseteq (Failed \ Open)'
  BY <1>1 DEF Failed, Open
<1>4. ReplansCounted'
  BY <1>2, <1>3, ReplansStep
<1>5. QED
  BY <1>1, <1>4 DEF ReplansInv, GoalStoredOnce, OnlyStatusFails

LEMMA NewRequestReplans ==
  ASSUME TypeInv, TypeInv', ReplansInv,
         FollowNewPath \/ DockWithUndock \/ DockWithoutMotion \/ FollowEmptyPath
  PROVE  ReplansInv'
<1> USE DEF Threads, CallbackThreads
<1>1. /\ reqs' = reqs + 1
      /\ UNCHANGED <<sess, cb, goal, replans, pendingFailure>>
      /\ pc'["status"] = pc["status"]
  BY DEF FollowNewPath, FollowEmptyPath, DockWithUndock, DockWithoutMotion, MayRequest,
  sessionVars, threadVars, GotoWith, Goto, TypeInv, TypeOK
<1>2. Failed \ Open \subseteq (Failed \ Open)'
  BY <1>1 DEF Failed, Open
<1>3. replans' + Due' <= replans + Due
  BY <1>1 DEF Due, FailureInHand, TypeInv, TypeOK
<1>4. reqs \in Nat /\ \A s \in Requests : sess[s].goalId \in Nat
  BY OrNoneNat, SessionFields DEF TypeInv, TypeOK
<1>5. \A s \in Requests : sess[s].goalId <= reqs + 1 /\ sess[s].goalId # reqs + 1
  BY <1>4 DEF ReplansInv, GoalStoredOnce
<1>6. GoalStoredOnce'
  BY <1>1, <1>5 DEF ReplansInv, GoalStoredOnce
<1>7. QED
  BY <1>1, <1>2, <1>3, <1>6, ReplansStep DEF ReplansInv, OnlyStatusFails

-----------------------------------------------------------------------------
(* Both invariants hold.                                                   *)

PromiseInv == TypeInv /\ CompletionInv /\ ReportsInv /\ ReplansInv

LEMMA PromiseInit == Init => PromiseInv
<1> SUFFICES ASSUME Init PROVE PromiseInv
  OBVIOUS
<1>1. TypeInv /\ CompletionInv
  BY TypeInit, CompletionInit
<1>2. \A r \in Requests : Told(r) = 0
  BY DEF Init, Told, InHand, Taken, Threads
<1>3. ReportsInv
  BY <1>2, RequestOrNone
     DEF Init, ReportsInv, ToldBound, StoredOnce, StoredUntold, CurrentRequest,
     Sending, Threads, NewSession
<1>4. Due = 0 /\ replans = 0
  BY DEF Init, Due, FailureInHand, Taken, Threads
<1>5. Cardinality(Failed \ Open) \in Nat
  BY <1>1, FailedFinite
<1>6. ReplansCounted
  BY <1>4, <1>5 DEF ReplansCounted
<1>7. GoalStoredOnce /\ OnlyStatusFails
  BY DEF Init, GoalStoredOnce, OnlyStatusFails, Sending, Threads, NewSession,
  CallbackThreads, NoCallback, None
<1>8. QED
  BY <1>1, <1>3, <1>6, <1>7 DEF PromiseInv, ReplansInv

LEMMA PromiseStep == PromiseInv /\ [Next]_vars => PromiseInv'
<1> SUFFICES ASSUME PromiseInv, [Next]_vars PROVE PromiseInv'
  OBVIOUS
<1> USE DEF CallbackThreads
<1>1. TypeInv /\ CompletionInv /\ ReportsInv /\ ReplansInv
  BY DEF PromiseInv
<1>2. TypeInv' /\ CompletionInv'
  BY <1>1, TypeStep, CompletionStep
<1>3. CASE QuietAction
  BY <1>1, <1>2, <1>3, QuietActions, QuietReports, QuietReplans DEF PromiseInv, Quiet
<1>4. CASE \/ ExecutePath \/ SendGoal \/ GoalNotAccepted \/ RefuseGoal
           \/ \E t \in CallbackThreads : ReportFinished(t)
           \/ \E g \in Requests : RobotDecides(g) \/ RobotEnds(g)
  <2>1. ReportsInv'
    BY <1>1, <1>4, ExecutePathReports, SendGoalReports, GoalNotAcceptedReports,
       RefuseGoalReports, ReportFinishedReports, RobotReports
  <2>2. ReplansInv'
    BY <1>1, <1>2, <1>4, OtherReplans
  <2>3. QED
    BY <1>2, <2>1, <2>2 DEF PromiseInv
<1>5. CASE ArmSession
  BY <1>1, <1>2, <1>5, ArmSessionReports, ArmSessionReplans DEF PromiseInv
<1>6. CASE ScanStatus
  BY <1>1, <1>2, <1>6, ScanStatusReports, ScanStatusReplans DEF PromiseInv
<1>7. CASE TakeFailure \/ \E t \in CallbackThreads : ReportFailure(t)
  BY <1>1, <1>2, <1>7, TakeFailureReports, ReportFailureReports, FailureReplans
     DEF PromiseInv
<1>8. CASE FollowNewPath \/ DockWithUndock \/ DockWithoutMotion \/ FollowEmptyPath
  BY <1>1, <1>2, <1>8, NewRequestReports, NewRequestReplans DEF PromiseInv
<1>9. CASE UNCHANGED vars
  <2>1. UNCHANGED <<sess, cb, pc, reqs, goal, refused, finished, replans, pendingFailure>>
    BY <1>9 DEF vars, sessionVars, threadVars, rmfVars
  <2>2. Quiet
    BY <1>1, <2>1
       DEF Quiet, ReportsQuiet, ReplansQuiet, QuietThread, QuietExecutor,
       FailureInHand, ReplansInv, OnlyStatusFails
  <2>3. QED
    BY <1>1, <1>2, <2>2, QuietReports, QuietReplans DEF PromiseInv, Quiet
<1>10. QED
  BY <1>3, <1>4, <1>5, <1>6, <1>7, <1>8, <1>9
     DEF Next, ExecutorStep, StatusStep, FeedbackStep, RmfStep, RobotStep,
     CallbackStep, QuietAction

LEMMA PromiseAlways == Spec => []PromiseInv
<1>1. QED
  BY PromiseInit, PromiseStep, PTL DEF Spec

LEMMA InHandBounds ==
  \A t \in CallbackThreads, r \in Requests : InHand(t, r) \in {0, 1}
  BY DEF InHand

\* RMF is told of no request's end twice, unless execute_path gave up a goal
\* that the robot then reached (execute_path, status_callback).
THEOREM FinishedOnce == Spec => []FinishedAtMostOnce
<1>1. PromiseInv => FinishedAtMostOnce
  <2> SUFFICES ASSUME PromiseInv, NEW r \in Requests
               PROVE  finished[r] <= IF GivenUpWithRobot(r) THEN 2 ELSE 1
    BY DEF FinishedAtMostOnce
  <2>1. /\ Told(r) <= 2 /\ (Told(r) = 2 => GivenUpWithRobot(r))
        /\ finished[r] \in Nat
    BY DEF PromiseInv, ReportsInv, ToldBound, GivenUpWithRobot, TypeInv, TypeOK
  <2>2. Told(r) \in Nat /\ finished[r] <= Told(r)
    BY <2>1, InHandBounds DEF Told, CallbackThreads
  <2>3. QED
    BY <2>1, <2>2
<1>2. QED
  BY <1>1, PromiseAlways, PTL

LEMMA ReplansBounded ==
  ASSUME PromiseInv
  PROVE  /\ replans + Due <= Cardinality(Failed)
         /\ Cardinality(Failed) \in Nat
<1>1. IsFiniteSet(Failed) /\ Cardinality(Failed \ Open) \in Nat
  BY FailedFinite DEF PromiseInv
<1>2. Cardinality(Failed \ Open) <= Cardinality(Failed) /\ Cardinality(Failed) \in Nat
  BY <1>1, FS_Subset, FS_CardinalityType
<1>3. replans + Due <= Cardinality(Failed \ Open)
  BY DEF PromiseInv, ReplansInv, ReplansCounted
<1>4. replans + Due \in Nat
  BY DEF Due, PromiseInv, TypeInv, TypeOK
<1>5. QED
  BY <1>1, <1>2, <1>3, <1>4

\* RMF is asked to replan at most once per goal that the robot gave up
\* (failure_callback, take_pending_failure).
THEOREM ReplansAreJustified == Spec => []ReplansJustified
<1>1. PromiseInv => ReplansJustified
  <2> SUFFICES ASSUME PromiseInv PROVE ReplansJustified
    OBVIOUS
  <2>1. replans + Due <= Cardinality(Failed) /\ Cardinality(Failed) \in Nat
    BY ReplansBounded
  <2>2. QED
    BY <2>1 DEF ReplansJustified, Due, PromiseInv, TypeInv, TypeOK
<1>2. QED
  BY <1>1, PromiseAlways, PTL

-----------------------------------------------------------------------------
(* The refinement: one abstract step for each step that RMF can see.       *)

Shown == <<reqs, waiting, goal, refused, finished, replans>>

LEMMA ShownStutter ==
  ASSUME UNCHANGED Shown
  PROVE  UNCHANGED Promise!vars
  BY DEF Shown, Promise!vars, ResultOf

LEMMA HiddenSteps ==
  ASSUME TypeInv, CompletionInv, ReplansInv,
         \/ QuietAction /\ ~Stop
         \/ ExecutePath \/ RefuseGoal \/ ArmSession \/ ScanStatus
         \/ \E t \in CallbackThreads : ReportFailure(t)
         \/ UNCHANGED vars
  PROVE  UNCHANGED Shown
<1>1. CASE QuietAction /\ ~Stop
  BY <1>1
     DEF QuietAction, TakeFeedback, InvalidateOld, CancelInvalidate,
     StopInvalidate, SwapSession, SupersedeFailure, WireSession, GoalAccepted,
     CancelPromote, StopGrab, StopReset, StopClearFailure, CallEstimator, Tick,
     RmfFreesPlan, StatusArrives, FeedbackArrives, MatchGoal, StoreReason,
     CheckDone, BufferFeedback, CallbackInvalidate, CallbackReset, Return,
     rmfVars, Shown
<1>2. CASE ExecutePath \/ RefuseGoal \/ ArmSession \/ ScanStatus
  BY <1>2 DEF ExecutePath, RefuseGoal, ArmSession, ScanStatus, rmfVars, Shown
<1>3. CASE \E t \in CallbackThreads : ReportFailure(t)
  BY <1>3 DEF ReportFailure, rmfVars, Shown
<1>4. CASE UNCHANGED vars
  BY <1>4 DEF vars, rmfVars, Shown
<1>5. QED
  BY <1>1, <1>2, <1>3, <1>4

LEMMA RequestShown ==
  ASSUME TypeInv, CompletionInv, ReportsInv,
         FollowNewPath \/ DockWithUndock \/ DockWithoutMotion \/ FollowEmptyPath
  PROVE  Promise!Ask \/ Promise!AskForNothing
<1>1. MayRequest
  BY DEF FollowNewPath, FollowEmptyPath, DockWithUndock, DockWithoutMotion
<1>2. reqs + 1 \in Requests /\ finished[reqs + 1] = 0
  BY <1>1, FreshRequest
<1>3. CASE FollowNewPath \/ DockWithUndock
  BY <1>2, <1>3 DEF FollowNewPath, FollowEmptyPath, DockWithUndock, Promise!Ask, ResultOf
<1>4. CASE DockWithoutMotion \/ FollowEmptyPath
  <2>1. finished' = [finished EXCEPT ![reqs + 1] = 1]
    BY <1>2, <1>4 DEF DockWithoutMotion, FollowEmptyPath
  <2>2. QED
    BY <1>2, <1>4, <2>1 DEF DockWithoutMotion, FollowEmptyPath, Promise!AskForNothing, ResultOf
<1>5. QED
  BY <1>3, <1>4

LEMMA StopShown ==
  ASSUME TypeInv, Stop
  PROVE  Promise!Withdraw
  BY DEF Stop, Promise!Withdraw, ResultOf

LEMMA SendGoalShown ==
  ASSUME TypeInv, CompletionInv, ReportsInv, SendGoal
  PROVE  Promise!Send(reqs) /\ reqs \in Requests
<1>1. /\ reqs \in Requests /\ goal[reqs] = "unsent" /\ finished[reqs] = 0
  BY SendingFacts DEF SendGoal, Sending, CompletionInv, SendingIsNew
<1>2. [r \in Requests |-> ResultOf(r)]'
        = [[r \in Requests |-> ResultOf(r)] EXCEPT ![reqs] = "sent"]
  BY <1>1 DEF SendGoal, ResultOf, TypeInv, TypeOK
<1>3. QED
  BY <1>1, <1>2 DEF SendGoal, rmfVars, Promise!Send, ResultOf

LEMMA GoalNotAcceptedShown ==
  ASSUME TypeInv, CompletionInv, ReportsInv, GoalNotAccepted
  PROVE  Promise!GiveUp(reqs) /\ reqs \in Requests
<1>1. reqs \in Requests /\ ~refused[reqs]
  <2>1. reqs \in Requests
    BY RequestOrNone DEF GoalNotAccepted, CompletionInv, ArmedForRequest, TypeInv, TypeOK
  <2>2. QED
    BY <2>1 DEF GoalNotAccepted, ReportsInv, CurrentRequest
<1>2. ResultOf(reqs) # "nothing"
  BY DEF GoalNotAccepted, ResultOf, AtRobot, Terminal
<1>3. \/ goal' = goal
      \/ goal[reqs] = "sent" /\ goal' = [goal EXCEPT ![reqs] = "lost"]
  BY DEF GoalNotAccepted
<1>4. \/ [r \in Requests |-> ResultOf(r)]' = [r \in Requests |-> ResultOf(r)]
      \/ /\ ResultOf(reqs) = "sent"
         /\ [r \in Requests |-> ResultOf(r)]'
               = [[r \in Requests |-> ResultOf(r)] EXCEPT ![reqs] = "refused"]
  BY <1>1, <1>3 DEF ResultOf, TypeInv, TypeOK
<1>5. QED
  BY <1>1, <1>2, <1>4 DEF GoalNotAccepted, Promise!GiveUp

LEMMA RobotShown ==
  ASSUME TypeInv, NEW g \in Requests, RobotDecides(g) \/ RobotEnds(g)
  PROVE  Promise!RobotAnswers(g) \/ UNCHANGED Promise!vars
<1>1. UNCHANGED <<reqs, waiting, refused, finished, replans>>
  BY DEF RobotDecides, RobotEnds, rmfVars
<1>2. PICK d \in {"executing", "rejected"} \union Terminal : goal' = [goal EXCEPT ![g] = d]
  BY DEF RobotDecides, RobotEnds
<1>3. ResultOf(g) = "sent"
  BY DEF RobotDecides, RobotEnds, ResultOf
<1>4. \E a \in {"sent", "refused", "arrived", "gaveUp"} :
        [r \in Requests |-> ResultOf(r)]'
          = [[r \in Requests |-> ResultOf(r)] EXCEPT ![g] = a]
  BY <1>2 DEF ResultOf, Terminal, TypeInv, TypeOK
<1>5. QED
  BY <1>1, <1>3, <1>4 DEF Promise!RobotAnswers, Promise!vars

LEMMA ReportFinishedShown ==
  ASSUME PromiseInv, NEW t \in CallbackThreads, ReportFinished(t)
  PROVE  \E r \in Requests : Promise!Tell(r)
<1> DEFINE r == cb[t].of
<1>1. r \in Requests /\ r <= reqs /\ Truthful(r)
  BY RequestOrNone DEF ReportFinished, PromiseInv, CompletionInv, CallbacksTruthful,
     FutureUntouched, TypeInv, TypeOK, Callback
<1>2. InHand(t, r) = 1
  BY DEF ReportFinished, InHand, Taken
<1>3. finished[r] + 1 <= Told(r) /\ finished[r] \in Nat /\ Told(r) \in Nat
  BY <1>1, <1>2, InHandBounds DEF Told, CallbackThreads, PromiseInv, TypeInv, TypeOK
<1>4. Told(r) <= 2 /\ (Told(r) = 2 => refused[r] /\ goal[r] = "succeeded")
  BY <1>1 DEF PromiseInv, ReportsInv, ToldBound
<1>5. finished[r] < IF refused[r] /\ ResultOf(r) # "refused" THEN 2 ELSE 1
  BY <1>3, <1>4 DEF ResultOf
<1>6. ResultOf(r) \in {"nothing", "arrived"} \/ refused[r]
  BY <1>1 DEF Truthful, ResultOf
<1>7. Promise!Tell(r)
  BY <1>1, <1>5, <1>6 DEF ReportFinished, Promise!Tell, Promise!MayTell, ResultOf
<1>8. QED
  BY <1>1, <1>7

LEMMA TakeFailureShown ==
  ASSUME PromiseInv, TakeFailure
  PROVE  Promise!Replan \/ UNCHANGED Promise!vars
<1>1. CASE ~pendingFailure
  BY <1>1, ShownStutter DEF TakeFailure, Shown
<1>2. CASE pendingFailure
  <2>1. Promise!GivenUpByRobot = Failed
    BY DEF Promise!GivenUpByRobot, Failed, ResultOf, PromiseInv, TypeInv, TypeOK,
    GoalState, AtRobot, Terminal
  <2>2. replans < Cardinality(Failed)
    <3>1. replans + Due <= Cardinality(Failed) /\ Cardinality(Failed) \in Nat
      BY ReplansBounded
    <3>2. Due >= 1 /\ Due \in Nat
      BY <1>2 DEF Due
    <3>3. QED
      BY <3>1, <3>2 DEF PromiseInv, TypeInv, TypeOK
  <2>3. QED
    <3>1. /\ UNCHANGED <<reqs, refused, finished, goal>>
          /\ replans' = replans + 1 /\ waiting' = None
      BY <1>2 DEF TakeFailure
    <3>2. UNCHANGED [r \in Requests |-> ResultOf(r)]
      BY <3>1 DEF ResultOf
    <3>3. Promise!Cardinality(Failed) = Cardinality(Failed)
      BY DEF Promise!Cardinality, Cardinality
    <3>4. QED
      BY <2>1, <2>2, <3>1, <3>2, <3>3 DEF Promise!Replan
<1>3. QED
  BY <1>1, <1>2, Zenon

LEMMA PromiseInitShown == Init => Promise!Init
  BY DEF Init, Promise!Init, ResultOf

LEMMA StepShown == PromiseInv /\ [Next]_vars => [Promise!Next]_(Promise!vars)
<1> SUFFICES ASSUME PromiseInv, [Next]_vars PROVE Promise!Next \/ UNCHANGED Promise!vars
  OBVIOUS
<1>0. TypeInv /\ CompletionInv /\ ReportsInv /\ ReplansInv
  BY DEF PromiseInv
<1>1. CASE \/ QuietAction /\ ~Stop
           \/ ExecutePath \/ RefuseGoal \/ ArmSession \/ ScanStatus
           \/ \E t \in CallbackThreads : ReportFailure(t)
           \/ UNCHANGED vars
  BY <1>0, <1>1, HiddenSteps, ShownStutter
<1>2. CASE FollowNewPath \/ DockWithUndock \/ DockWithoutMotion \/ FollowEmptyPath
  BY <1>0, <1>2, RequestShown DEF Promise!Next
<1>3. CASE Stop
  BY <1>0, <1>3, StopShown DEF Promise!Next
<1>4. CASE SendGoal
  BY <1>0, <1>4, SendGoalShown DEF Promise!Next
<1>5. CASE GoalNotAccepted
  BY <1>0, <1>5, GoalNotAcceptedShown DEF Promise!Next
<1>6. CASE RobotStep
  BY <1>0, <1>6, RobotShown DEF Promise!Next, RobotStep
<1>7. CASE \E t \in CallbackThreads : ReportFinished(t)
  BY <1>7, ReportFinishedShown DEF Promise!Next
<1>8. CASE TakeFailure
  BY <1>8, TakeFailureShown DEF Promise!Next
<1>9. QED
  BY <1>1, <1>2, <1>3, <1>4, <1>5, <1>6, <1>7, <1>8
     DEF Next, ExecutorStep, StatusStep, FeedbackStep, RmfStep,
     CallbackStep, QuietAction, CallbackThreads

\* Whatever the threads, the robot and RMF do, all that RMF can see of it is a
\* behaviour of PathRequest: the implementation keeps the promise (PathHandle,
\* NavigationController, NavigationSession).
THEOREM PromiseKept == Spec => KeepsPromise
<1>1. QED
  BY PromiseInitShown, StepShown, PromiseAlways, PTL DEF Spec, KeepsPromise, Promise!Spec
=============================================================================
