------------------------- MODULE RobotActionsProofs -------------------------
(***************************************************************************)
(* Proofs about RobotActions, for any number of executions, any categories *)
(* and both ways of threading.                                             *)
(***************************************************************************)
EXTENDS RobotActions, TLAPS

\* An execution that execute_action is still working on is known to nobody
\* else, and one that RMF has not handed over yet to nobody at all.
FreshIsUnknown ==
  /\ \A e \in Executions :
       e > handed => state[e] = "none" /\ answers[e] = [finished |-> 0, error |-> 0]
  /\ rmf # "idle" => handed # 0 /\ current.execution # handed /\ polled # handed
  /\ rmf = "execute" => state[handed] = "none"
  /\ rmf # "idle" => answers[handed] = [finished |-> 0, error |-> 0]

\* What is stored has not been answered.
StoredIsUnanswered ==
  current.execution # 0 =>
    answers[current.execution] = [finished |-> 0, error |-> 0]

IInv ==
  /\ TypeOK
  /\ FreshIsUnknown
  /\ StoredIsUnanswered
  /\ AnsweredAtMostOnce
  /\ AwaitedIsPolled

LEMMA InitIInv == Init => IInv
<1> SUFFICES ASSUME Init PROVE IInv OBVIOUS
<1>1. shared \in BOOLEAN /\ loaded \in BOOLEAN /\ stray \in BOOLEAN
  BY Zenon DEF Init
<1>2. /\ current \in [action : 0..handed, execution : 0..handed]
      /\ current.action = 0 /\ current.execution = 0
  BY DEF Init, None
<1>3. answers \in [Executions -> [finished : Nat, error : Nat]]
  BY DEF Init
<1>4. TypeOK
  BY <1>1, <1>2, <1>3, ActionsAssumption DEF Init, TypeOK, Executions
<1>5. FreshIsUnknown /\ StoredIsUnanswered /\ AnsweredAtMostOnce /\ AwaitedIsPolled
  BY <1>2, ActionsAssumption
  DEF Init, FreshIsUnknown, StoredIsUnanswered, AnsweredAtMostOnce,
      AwaitedIsPolled, Executions
<1> QED BY <1>4, <1>5 DEF IInv

LEMMA HandOverIInv ==
  ASSUME IInv, NEW c \in Categories, HandOver(c)
  PROVE  IInv'
<1>1. handed' \in Executions /\ handed' = handed + 1 /\ handed \in Nat
  BY ActionsAssumption DEF IInv, TypeOK, HandOver, Executions
<1>2. UNCHANGED <<current, polled, state, answers, shared, timer, result, loaded,
                  arrived, expired, callback, stray>>
  BY DEF HandOver, action
<1>3. TypeOK'
  BY <1>1, <1>2, ActionsAssumption DEF IInv, TypeOK, HandOver, Executions
<1>4. FreshIsUnknown'
  BY <1>1, <1>2, ActionsAssumption
  DEF IInv, TypeOK, HandOver, Executions, FreshIsUnknown
<1>5. StoredIsUnanswered'
  BY <1>2 DEF IInv, StoredIsUnanswered
<1>6. AnsweredAtMostOnce'
  BY <1>2 DEF IInv, AnsweredAtMostOnce, Executions
<1>7. state'[handed'] = "none"
  BY <1>1, <1>2 DEF IInv, FreshIsUnknown
<1>8. AwaitedIsPolled'
  BY <1>1, <1>7 DEF HandOver, AwaitedIsPolled
<1> QED BY <1>3, <1>4, <1>5, <1>6, <1>8 DEF IInv

LEMMA ExecuteIInv ==
  ASSUME IInv, ExecuteStep
  PROVE  IInv'
<1>1. handed \in Executions /\ handed # 0 /\ rmf # "idle"
  BY ActionsAssumption
  DEF IInv, TypeOK, FreshIsUnknown, ExecuteStep, NoPlugin, LoadFails,
      PerformAction, StoreAction, Executions
<1>2. CASE NoPlugin \/ LoadFails
  <2>1. UNCHANGED <<shared, wanted, handed, category, timer, polled, result, loaded,
                    current, state, arrived, expired, callback, stray, answers>>
        /\ rmf = "execute" /\ rmf' = "idle"
    BY <1>2 DEF NoPlugin, LoadFails, request, action
  <2> QED
    BY <2>1, <1>1
    DEF IInv, TypeOK, FreshIsUnknown, StoredIsUnanswered, AnsweredAtMostOnce,
        AwaitedIsPolled, Executions
<1>3. CASE PerformAction
  <2>1. UNCHANGED <<shared, wanted, handed, category, timer, polled, result, current,
                    arrived, expired, callback, stray, answers>>
        /\ loaded' = TRUE /\ rmf' = "store"
        /\ state' = [state EXCEPT ![handed] = "planning"]
    BY <1>3 DEF PerformAction, request
  <2> QED
    BY <2>1, <1>1
    DEF IInv, TypeOK, FreshIsUnknown, StoredIsUnanswered, AnsweredAtMostOnce,
        AwaitedIsPolled, Executions
<1>4. CASE StoreAction
  <2>1. UNCHANGED <<shared, wanted, handed, category, timer, polled, result, loaded,
                    state, arrived, expired, callback, stray, answers>>
        /\ rmf' = "idle" /\ current' = [action |-> handed, execution |-> handed]
    BY <1>4 DEF StoreAction, request, action
  <2> QED
    BY <2>1, <1>1
    DEF IInv, TypeOK, FreshIsUnknown, StoredIsUnanswered, AnsweredAtMostOnce,
        AwaitedIsPolled, Executions
<1> QED BY <1>2, <1>3, <1>4 DEF ExecuteStep

\* The steps of the action under way: they change the state of an action that
\* was created, and neither RMF's side nor what is stored.
LEMMA PollIInv ==
  ASSUME IInv,
         \/ Snapshot \/ PlanningFails \/ StartNavigation
         \/ Completed \/ Failed \/ Navigating
  PROVE  IInv'
<1>1. UNCHANGED <<shared, wanted, handed, category, rmf, loaded, current, answers>>
  BY DEF Snapshot, PlanningFails, StartNavigation, Completed, Failed, Navigating,
         request
<1>2. CASE Snapshot
  <2>1. UNCHANGED <<result, state, arrived, expired, callback, stray>>
        /\ polled' = current.action /\ timer' = "update" /\ current.action # 0
    BY <1>2 DEF Snapshot, action
  <2> QED
    BY <1>1, <2>1
    DEF IInv, TypeOK, FreshIsUnknown, StoredIsUnanswered, AnsweredAtMostOnce,
        AwaitedIsPolled, Executions
<1>3. CASE \/ PlanningFails \/ StartNavigation \/ Completed \/ Failed \/ Navigating
  <2>1. /\ timer = "update" /\ polled \in Executions /\ polled # 0
        /\ state[polled] # "none"
    BY <1>3, ActionsAssumption
    DEF PlanningFails, StartNavigation, Completed, Failed, Navigating,
        IInv, TypeOK, Executions
  <2>2. PICK s \in {"planning", "navigating", "completed", "failed"} :
          state' = [state EXCEPT ![polled] = s]
    <3>1. CASE Navigating
      BY <3>1, <2>1 DEF Navigating, action, IInv, TypeOK
    <3>2. CASE \/ PlanningFails \/ StartNavigation \/ Completed \/ Failed
      BY <3>2 DEF PlanningFails, StartNavigation, Completed, Failed, Report
    <3> QED BY <1>3, <3>1, <3>2
  <2>3. /\ polled' \in {0, polled} /\ (polled' = 0 <=> timer' = "idle")
        /\ timer' \in {"idle", "settle"}
        /\ result' \in {"in_progress", "completed", "failed"}
        /\ arrived' \in {arrived, arrived \union {polled}} /\ expired' = expired
        /\ callback' \in {0, polled, callback} /\ stray' = stray
    BY <1>3, <2>1
    DEF PlanningFails, StartNavigation, Completed, Failed, Navigating,
        InProgress, Report, action
  <2>4. TypeOK'
    BY <1>1, <2>1, <2>2, <2>3 DEF IInv, TypeOK, Executions
  <2>5. FreshIsUnknown'
    BY <1>1, <2>1, <2>2, <2>3 DEF IInv, TypeOK, FreshIsUnknown, Executions
  <2>6. AwaitedIsPolled'
    BY <1>1, <2>1, <2>2 DEF IInv, TypeOK, AwaitedIsPolled, Executions
  <2> QED
    BY <1>1, <2>4, <2>5, <2>6
    DEF IInv, StoredIsUnanswered, AnsweredAtMostOnce
<1> QED BY <1>2, <1>3

LEMMA SettleIInv ==
  ASSUME IInv, Settle
  PROVE  IInv'
<1>1. /\ UNCHANGED <<shared, handed, category, rmf, result, loaded,
                     state, arrived, expired, callback, stray>>
      /\ current' = None /\ timer' = "idle" /\ polled' = 0
  BY DEF Settle, action
<1>2. CASE current.execution = 0
  <2>1. UNCHANGED <<wanted, answers>>
    BY <1>2 DEF Settle
  <2> QED
    BY <1>1, <1>2, <2>1
    DEF IInv, TypeOK, FreshIsUnknown, StoredIsUnanswered, AnsweredAtMostOnce,
        AwaitedIsPolled, Executions, None
<1>3. CASE current.execution # 0
  <2> DEFINE e == current.execution
  <2>1. e \in Executions /\ e <= handed /\ Answer(e)
        /\ answers[e] = [finished |-> 0, error |-> 0]
    BY <1>3, ActionsAssumption DEF Settle, IInv, TypeOK, StoredIsUnanswered, Executions
  <2>2. PICK n \in 0..1 :
          answers' = [answers EXCEPT ![e] = [finished |-> n, error |-> 1 - n]]
    <3>1. CASE result = "completed"
      <4>1. answers' = [answers EXCEPT ![e].finished = @ + 1]
        BY <2>1, <3>1 DEF Answer
      <4>2. [answers[e] EXCEPT !.finished = @ + 1] = [finished |-> 1, error |-> 1 - 1]
        BY <2>1
      <4>3. answers' = [answers EXCEPT ![e] = [finished |-> 1, error |-> 1 - 1]]
        BY <4>1, <4>2
      <4> QED BY <4>3
    <3>2. CASE result # "completed"
      <4>1. answers' = [answers EXCEPT ![e].error = @ + 1]
        BY <2>1, <3>2 DEF Answer
      <4>2. [answers[e] EXCEPT !.error = @ + 1] = [finished |-> 0, error |-> 1 - 0]
        BY <2>1
      <4>3. answers' = [answers EXCEPT ![e] = [finished |-> 0, error |-> 1 - 0]]
        BY <4>1, <4>2
      <4> QED BY <4>3
    <3> QED BY <3>1, <3>2
  <2>3. wanted' = IF wanted = e THEN 0 ELSE wanted
    BY <2>1 DEF Answer
  <2>4. TypeOK'
    BY <1>1, <2>1, <2>2, <2>3 DEF IInv, TypeOK, Executions, None
  <2>5. FreshIsUnknown'
    BY <1>1, <2>1, <2>2 DEF IInv, TypeOK, FreshIsUnknown, Executions, None
  <2>6. StoredIsUnanswered'
    BY <1>1 DEF StoredIsUnanswered, None
  <2>7. AnsweredAtMostOnce'
    <3> SUFFICES ASSUME NEW f \in Executions
                 PROVE  answers'[f].finished + answers'[f].error <= 1
      BY DEF AnsweredAtMostOnce
    <3>1. CASE f = e
      <4>1. answers'[f] = [finished |-> n, error |-> 1 - n]
        BY <2>1, <2>2, <3>1 DEF IInv, TypeOK
      <4>2. answers'[f].finished = n /\ answers'[f].error = 1 - n
        BY <4>1
      <4> QED BY <4>2
    <3>2. CASE f # e
      <4>1. answers'[f] = answers[f]
        BY <2>1, <2>2, <3>2 DEF IInv, TypeOK
      <4> QED BY <4>1 DEF IInv, AnsweredAtMostOnce
    <3> QED BY <3>1, <3>2
  <2>8. AwaitedIsPolled'
    BY <1>1, <2>3 DEF IInv, TypeOK, AwaitedIsPolled, None
  <2> QED BY <2>4, <2>5, <2>6, <2>7, <2>8 DEF IInv
<1> QED BY <1>2, <1>3

LEMMA EnvironmentIInv ==
  ASSUME IInv,
         \/ Withdraw \/ NavigationCallsBack \/ NavigationForgets
         \/ \E e \in Executions : Expire(e)
  PROVE  IInv'
<1>1. UNCHANGED <<shared, handed, category, rmf, timer, polled, result, loaded,
                  current, state, answers>>
  BY DEF Withdraw, NavigationCallsBack, NavigationForgets, Expire,
         request, threads, action
<1>2. wanted' \in {0, wanted} /\ callback' \in {0, callback}
  BY DEF Withdraw, NavigationCallsBack, NavigationForgets, Expire, request, action
<1>3. stray' \in BOOLEAN
  <2>1. CASE NavigationCallsBack
    BY <2>1, Zenon DEF NavigationCallsBack, IInv, TypeOK
  <2>2. CASE Withdraw \/ NavigationForgets \/ \E e \in Executions : Expire(e)
    <3>1. stray' = stray
      BY <2>2 DEF Withdraw, NavigationForgets, Expire, action
    <3> QED BY <3>1 DEF IInv, TypeOK
  <2> QED BY <2>1, <2>2
<1>4. arrived' \subseteq Executions /\ expired' \subseteq Executions
  <2>1. CASE NavigationCallsBack
    <3>1. callback \in Executions /\ {current.action} \ {0} \subseteq Executions
      BY <2>1, ActionsAssumption DEF NavigationCallsBack, IInv, TypeOK, Executions
    <3>2. CASE Exists(callback)
      BY <2>1, <3>1, <3>2 DEF NavigationCallsBack, IInv, TypeOK
    <3>3. CASE ~Exists(callback)
      BY <2>1, <3>1, <3>3 DEF NavigationCallsBack, IInv, TypeOK
    <3> QED BY <3>2, <3>3
  <2>2. CASE Withdraw \/ NavigationForgets
    BY <2>2 DEF Withdraw, NavigationForgets, action, IInv, TypeOK
  <2>3. CASE \E e \in Executions : Expire(e)
    BY <2>3 DEF Expire, IInv, TypeOK
  <2> QED BY <2>1, <2>2, <2>3
<1>5. TypeOK'
  BY <1>1, <1>2, <1>3, <1>4 DEF IInv, TypeOK
<1>6. FreshIsUnknown' /\ StoredIsUnanswered' /\ AnsweredAtMostOnce' /\ AwaitedIsPolled'
  BY <1>1, <1>2
  DEF IInv, FreshIsUnknown, StoredIsUnanswered, AnsweredAtMostOnce, AwaitedIsPolled,
      Executions
<1> QED BY <1>5, <1>6 DEF IInv

LEMMA Invariance == Spec => []IInv
<1>1. IInv /\ [Next]_vars => IInv'
  <2> SUFFICES ASSUME IInv, [Next]_vars PROVE IInv' OBVIOUS
  <2>1. CASE \E c \in Categories : HandOver(c)
    BY <2>1, HandOverIInv
  <2>2. CASE ExecuteStep
    BY <2>2, ExecuteIInv
  <2>3. CASE TimerStep
    BY <2>3, PollIInv, SettleIInv DEF TimerStep
  <2>4. CASE \/ Withdraw \/ NavigationCallsBack \/ NavigationForgets
             \/ \E e \in Executions : Expire(e)
    BY <2>4, EnvironmentIInv
  <2>5. CASE UNCHANGED vars
    BY <2>5
    DEF vars, request, threads, action, IInv, TypeOK, FreshIsUnknown,
        StoredIsUnanswered, AnsweredAtMostOnce, AwaitedIsPolled
  <2> QED BY <2>1, <2>2, <2>3, <2>4, <2>5 DEF Next
<1> QED BY <1>1, InitIInv, PTL DEF Spec

\* However RMF's calls, the timer and the navigation's callbacks interleave, an
\* execution is answered at most once (update_current_action).
THEOREM AnsweredOnce == Spec => []AnsweredAtMostOnce
  BY Invariance, PTL DEF IInv

\* An execution that RMF waits for and for which execute_action stored an action
\* is the one that the timer polls.
THEOREM StoredIsPolled == Spec => []AwaitedIsPolled
  BY Invariance, PTL DEF IInv

\* The types of the module, for all values of the constants.
THEOREM ActionTypes == Spec => []TypeOK
  BY Invariance, PTL DEF IInv

(***************************************************************************)
(* OwnAnswer.  An action's state does not change any more once it is in    *)
(* the hands of Settle, or once its execution was answered; and where      *)
(* RMF's calls and the timer exclude each other, what the timer polls is   *)
(* what is stored when it answers.                                         *)
(***************************************************************************)
AnswerOfState ==
  \A e \in Executions :
    /\ answers[e].finished > 0 => state[e] = "completed"
    /\ answers[e].error > 0 => state[e] = "failed"

OInv ==
  /\ \A e \in Executions : state[e] = "completed" => e \in arrived
  /\ timer = "settle" => result \in {"completed", "failed"} /\ state[polled] = result
  /\ shared => /\ rmf # "idle" => timer = "idle"
               /\ polled # 0 => polled = current.action
               /\ AnswerOfState

LEMMA InitOInv == Init => OInv
  BY DEF Init, OInv, AnswerOfState

LEMMA RmfOInv ==
  ASSUME IInv, OInv, ExecuteStep \/ \E c \in Categories : HandOver(c)
  PROVE  OInv'
<1>1. UNCHANGED <<shared, timer, polled, result, arrived, answers>>
  BY DEF ExecuteStep, NoPlugin, LoadFails, PerformAction, StoreAction, HandOver, action
<1>2. CASE PerformAction
  <2>1. /\ handed \in Executions /\ polled # handed
        /\ answers[handed] = [finished |-> 0, error |-> 0]
    BY <1>2, ActionsAssumption DEF PerformAction, IInv, TypeOK, FreshIsUnknown, Executions
  <2>2. /\ state' = [state EXCEPT ![handed] = "planning"]
        /\ rmf = "execute" /\ rmf' = "store" /\ current' = current
    BY <1>2 DEF PerformAction
  <2>3. answers[handed].finished = 0 /\ answers[handed].error = 0
    BY <2>1
  <2>4. AnswerOfState => AnswerOfState'
    BY <1>1, <2>1, <2>2, <2>3 DEF AnswerOfState, IInv, TypeOK
  <2>5. timer = "settle" => state'[polled] = state[polled]
    BY <2>1, <2>2 DEF IInv, TypeOK
  <2>6. \A e \in Executions : state'[e] = "completed" => state[e] = "completed"
    BY <2>2 DEF IInv, TypeOK
  <2> QED BY <1>1, <2>2, <2>4, <2>5, <2>6 DEF OInv
<1>3. CASE StoreAction
  <2>1. state' = state /\ rmf = "store" /\ rmf' = "idle"
    BY <1>3 DEF StoreAction, action
  <2>2. shared => polled = 0
    BY <2>1 DEF IInv, TypeOK, OInv
  <2> QED BY <1>1, <2>1, <2>2 DEF OInv, AnswerOfState
<1>4. CASE NoPlugin \/ LoadFails \/ \E c \in Categories : HandOver(c)
  <2>1. UNCHANGED <<state, current>> /\ (shared => timer = "idle" \/ rmf' = "idle")
    BY <1>4 DEF NoPlugin, LoadFails, HandOver, action
  <2> QED BY <1>1, <2>1 DEF OInv, AnswerOfState
<1> QED BY <1>2, <1>3, <1>4 DEF ExecuteStep

LEMMA PollOInv ==
  ASSUME IInv, OInv,
         \/ Snapshot \/ PlanningFails \/ StartNavigation
         \/ Completed \/ Failed \/ Navigating
  PROVE  OInv'
<1>1. UNCHANGED <<shared, rmf, current, answers>>
  BY DEF Snapshot, PlanningFails, StartNavigation, Completed, Failed, Navigating, request
<1>2. CASE Snapshot \/ Navigating
  <2>1. UNCHANGED <<state, arrived>> /\ timer' # "settle"
    BY <1>2 DEF Snapshot, Navigating, InProgress, action
  <2>2. shared => /\ rmf' # "idle" => timer' = "idle"
                  /\ polled' # 0 => polled' = current'.action
    BY <1>1, <1>2 DEF Snapshot, Navigating, InProgress, OInv
  <2> QED BY <1>1, <2>1, <2>2 DEF OInv, AnswerOfState
<1>3. CASE PlanningFails \/ StartNavigation \/ Completed \/ Failed
  <2>1. timer = "update" /\ polled \in Executions /\ polled # 0 /\ polled' \in {0, polled}
    BY <1>3, ActionsAssumption
    DEF PlanningFails, StartNavigation, Completed, Failed, InProgress, Report,
        IInv, TypeOK, Executions
  <2>2. PICK s \in {"navigating", "completed", "failed"} :
          /\ state' = [state EXCEPT ![polled] = s]
          /\ timer' = "settle" => result' = s /\ s # "navigating" /\ polled' = polled
          /\ s = "completed" => polled \in arrived'
          /\ arrived \subseteq arrived'
    <3>1. CASE StartNavigation
      BY <3>1 DEF StartNavigation, InProgress
    <3>2. CASE Completed
      BY <3>2, <2>1 DEF Completed, Report, OInv
    <3>3. CASE PlanningFails \/ Failed
      BY <3>3 DEF PlanningFails, Failed, Report
    <3> QED BY <1>3, <3>1, <3>2, <3>3
  <2>3. shared => answers[polled].finished = 0 /\ answers[polled].error = 0
    <3>1. shared => answers[polled] = [finished |-> 0, error |-> 0]
      BY <2>1 DEF IInv, TypeOK, OInv, StoredIsUnanswered
    <3> QED BY <3>1
  <2>4. shared /\ AnswerOfState => AnswerOfState'
    BY <1>1, <2>1, <2>2, <2>3 DEF AnswerOfState, IInv, TypeOK
  <2>5. \A e \in Executions : state'[e] = "completed" => e \in arrived'
    BY <2>1, <2>2 DEF OInv, IInv, TypeOK
  <2>6. timer' = "settle" =>
          result' \in {"completed", "failed"} /\ state'[polled'] = result'
    BY <2>1, <2>2 DEF IInv, TypeOK
  <2>7. shared => /\ rmf' # "idle" => timer' = "idle"
                  /\ polled' # 0 => polled' = current'.action
    BY <1>1, <2>1 DEF OInv
  <2> QED BY <1>1, <2>4, <2>5, <2>6, <2>7 DEF OInv
<1> QED BY <1>2, <1>3

LEMMA SettleOInv ==
  ASSUME IInv, OInv, Settle
  PROVE  OInv'
<1>1. /\ UNCHANGED <<shared, rmf, state, arrived>>
      /\ timer = "settle" /\ timer' = "idle" /\ polled' = 0
  BY DEF Settle, action
<1>2. ASSUME shared, AnswerOfState PROVE AnswerOfState'
  <2>1. CASE current.execution = 0
    BY <1>1, <1>2, <2>1 DEF Settle, AnswerOfState
  <2>2. CASE current.execution # 0
    <3> DEFINE e == current.execution
    <3>1. e \in Executions /\ polled = e /\ state[e] = result
          /\ answers[e] = [finished |-> 0, error |-> 0]
      BY <1>1, <1>2, <2>2, ActionsAssumption
      DEF IInv, TypeOK, OInv, StoredIsUnanswered, Executions
    <3>2. result \in {"completed", "failed"} /\ Answer(e)
      BY <1>1, <2>2 DEF OInv, Settle
    <3>3. \A f \in Executions : f # e => answers'[f] = answers[f]
      BY <3>1, <3>2 DEF Answer, IInv, TypeOK
    <3>4. CASE result = "completed"
      <4>1. answers' = [answers EXCEPT ![e].finished = @ + 1]
        BY <3>2, <3>4 DEF Answer
      <4>2. answers'[e] = [answers[e] EXCEPT !.finished = @ + 1]
        BY <3>1, <4>1 DEF IInv, TypeOK
      <4>3. answers'[e].error = 0
        BY <3>1, <4>2
      <4> QED BY <1>1, <1>2, <3>1, <3>3, <3>4, <4>3 DEF AnswerOfState
    <3>5. CASE result = "failed"
      <4>1. answers' = [answers EXCEPT ![e].error = @ + 1]
        BY <3>2, <3>5 DEF Answer
      <4>2. answers'[e] = [answers[e] EXCEPT !.error = @ + 1]
        BY <3>1, <4>1 DEF IInv, TypeOK
      <4>3. answers'[e].finished = 0
        BY <3>1, <4>2
      <4> QED BY <1>1, <1>2, <3>1, <3>3, <3>5, <4>3 DEF AnswerOfState
    <3> QED BY <3>2, <3>4, <3>5
  <2> QED BY <2>1, <2>2
<1> QED BY <1>1, <1>2 DEF OInv

LEMMA EnvironmentOInv ==
  ASSUME IInv, OInv,
         \/ Withdraw \/ NavigationCallsBack \/ NavigationForgets
         \/ \E e \in Executions : Expire(e)
  PROVE  OInv'
<1>1. UNCHANGED <<shared, rmf, timer, polled, result, current, state, answers>>
  BY DEF Withdraw, NavigationCallsBack, NavigationForgets, Expire, threads, action
<1>2. arrived \subseteq arrived'
  <2>1. CASE NavigationCallsBack
    BY <2>1, Zenon DEF NavigationCallsBack
  <2>2. CASE Withdraw \/ NavigationForgets \/ \E e \in Executions : Expire(e)
    BY <2>2 DEF Withdraw, NavigationForgets, Expire, action
  <2> QED BY <2>1, <2>2
<1> QED BY <1>1, <1>2 DEF OInv, AnswerOfState

\* On one executor an execution is told finished only when its own action was
\* completed by the navigation's callback, and error only when its own action
\* failed (update_current_action against execute_action).
THEOREM AnswerIsOwn == Spec => []OwnAnswer
<1>1. IInv /\ OInv /\ [Next]_vars => OInv'
  <2> SUFFICES ASSUME IInv, OInv, [Next]_vars PROVE OInv' OBVIOUS
  <2>1. CASE ExecuteStep \/ \E c \in Categories : HandOver(c)
    BY <2>1, RmfOInv
  <2>2. CASE TimerStep
    BY <2>2, PollOInv, SettleOInv DEF TimerStep
  <2>3. CASE \/ Withdraw \/ NavigationCallsBack \/ NavigationForgets
             \/ \E e \in Executions : Expire(e)
    BY <2>3, EnvironmentOInv
  <2>4. CASE UNCHANGED vars
    BY <2>4 DEF vars, threads, action, OInv, AnswerOfState
  <2> QED BY <2>1, <2>2, <2>3, <2>4 DEF Next
<1>2. OInv => OwnAnswer
  BY DEF OInv, AnswerOfState, OwnAnswer
<1> QED BY <1>1, <1>2, Invariance, InitOInv, PTL DEF Spec

-----------------------------------------------------------------------------
(***************************************************************************)
(* What keeps StoredIsAnswered, apart from the clock and the timer going   *)
(* on: an action that is late is a bounded number of turns of the timer    *)
(* from the answer, and nothing gives it another chance.                   *)
(***************************************************************************)
\* What is stored, polled or about to be stored has been created.
KnownIsCreated ==
  /\ current.action # 0 => state[current.action] # "none"
  /\ polled # 0 => state[polled] # "none"
  /\ rmf = "store" => state[handed] # "none"

\* An action that ended while RMF waits for it is about to be answered.
EndedIsSettled ==
  (wanted # 0 /\ state[wanted] \in {"completed", "failed"}) =>
    timer = "settle" /\ polled = wanted

LInv == IInv /\ KnownIsCreated /\ EndedIsSettled

Awaited(e) == wanted = e /\ current.execution = e
Overdue(e) == e \in expired \/ state[e] \in {"completed", "failed"}

\* The timer may be in the middle of polling an older action.
TurnsLeft(e) ==
  IF timer = "settle" THEN 1
  ELSE IF timer = "idle" THEN 3
  ELSE IF polled = e THEN 2 ELSE 4

\* The clock can make an awaited action late, and the timer can always go on.
AnswerIsOpen ==
  \A e \in Executions : Awaited(e) =>
    /\ ~Overdue(e) => state[e] \in {"planning", "navigating"}
    /\ timer = "idle" => rmf = "idle" /\ current.action = e
    /\ timer = "update" => state[polled] # "none"

AnswerNears ==
  \A e \in Executions : (Awaited(e) /\ Awaited(e)' /\ Overdue(e)) =>
    /\ Overdue(e)'
    /\ TurnsLeft(e)' <= TurnsLeft(e)
    /\ TimerStep => TurnsLeft(e)' < TurnsLeft(e)

\* RMF does not wait for an execution that the timer's answer goes past.
LEMMA SettleAnswers ==
  ASSUME LInv, Settle
  PROVE  \/ wanted' = 0
         \/ wanted' = wanted /\ state[wanted] \notin {"completed", "failed"}
<1>1. CASE wanted # 0 /\ state[wanted] \in {"completed", "failed"}
  <2>1. polled = wanted
    BY <1>1 DEF LInv, EndedIsSettled
  <2>2. wanted = handed
    BY <1>1 DEF LInv, IInv, TypeOK
  <2>3. rmf = "idle"
    BY <2>1, <2>2 DEF LInv, IInv, FreshIsUnknown
  <2>4. current.execution = wanted
    BY <1>1, <2>3 DEF LInv, IInv, AwaitedIsPolled
  <2> QED BY <1>1, <2>4 DEF Settle, Answer
<1>2. CASE ~(wanted # 0 /\ state[wanted] \in {"completed", "failed"})
  BY <1>2 DEF Settle, Answer
<1> QED BY <1>1, <1>2

LEMMA PollLInv ==
  ASSUME LInv, PlanningFails \/ StartNavigation \/ Completed \/ Failed \/ Navigating
  PROVE  KnownIsCreated' /\ EndedIsSettled'
<1>1. /\ UNCHANGED <<wanted, handed, rmf, current>>
      /\ timer = "update" /\ polled \in Executions
      /\ polled' = polled \/ polled' = 0
  BY ActionsAssumption
  DEF PlanningFails, StartNavigation, Completed, Failed, Navigating, Report,
      InProgress, request, LInv, IInv, TypeOK, Executions
<1>2. /\ wanted \in {0} \union Executions
      /\ state \in [Executions -> {"none", "planning", "navigating", "completed", "failed"}]
      /\ current.action \in {0} \union Executions
      /\ rmf = "store" => handed \in Executions
  BY ActionsAssumption DEF LInv, IInv, TypeOK, FreshIsUnknown, Executions
<1>3. wanted # 0 => state[wanted] \notin {"completed", "failed"}
  BY <1>1 DEF LInv, EndedIsSettled
<1>4. PICK s \in {"planning", "navigating", "completed", "failed"} :
        /\ state' = [state EXCEPT ![polled] = s]
        /\ s \in {"planning", "navigating"} \/ s = state[polled]
             \/ (timer' = "settle" /\ polled' = polled)
  <2>1. CASE Navigating
    BY <1>1, <1>2, <2>1 DEF Navigating, action
  <2>2. CASE StartNavigation
    BY <2>2 DEF StartNavigation
  <2>3. CASE PlanningFails \/ Failed
    BY <2>3 DEF PlanningFails, Failed, Report
  <2>4. CASE Completed
    BY <2>4 DEF Completed, Report
  <2> QED BY <2>1, <2>2, <2>3, <2>4
<1>5. state'[polled] = s /\ \A f \in Executions : f # polled => state'[f] = state[f]
  BY <1>1, <1>2, <1>4
<1>6. state'[polled] # "none"
  BY <1>5
<1>7. state'[polled] \in {"completed", "failed"} /\ wanted = polled
        => timer' = "settle" /\ polled' = polled
  <2> SUFFICES ASSUME s \in {"completed", "failed"}, wanted = polled
               PROVE  timer' = "settle" /\ polled' = polled
    BY <1>5
  <2>1. polled # 0
    BY <1>1, ActionsAssumption DEF Executions
  <2> QED BY <1>3, <1>4, <2>1
<1>8. KnownIsCreated'
  BY <1>1, <1>2, <1>5, <1>6 DEF LInv, KnownIsCreated
<1>9. EndedIsSettled'
  BY <1>1, <1>2, <1>3, <1>5, <1>7 DEF EndedIsSettled
<1> QED BY <1>8, <1>9

LEMMA StepLInv ==
  ASSUME LInv, [Next]_vars
  PROVE  KnownIsCreated' /\ EndedIsSettled'
<1>1. /\ wanted \in {0, handed} /\ handed \in Nat
      /\ handed # 0 => handed \in Executions
      /\ state \in [Executions -> {"none", "planning", "navigating", "completed", "failed"}]
      /\ current.action \in {0} \union Executions
      /\ polled \in {0} \union Executions
      /\ rmf # "idle" => handed # 0
  BY ActionsAssumption DEF LInv, IInv, TypeOK, FreshIsUnknown, Executions
<1>2. ASSUME NEW c \in Categories, HandOver(c) PROVE KnownIsCreated' /\ EndedIsSettled'
  <2>1. /\ UNCHANGED <<current, polled, state>>
        /\ wanted' = handed + 1 /\ rmf' = "execute" /\ handed + 1 \in Executions
    BY <1>1, <1>2, ActionsAssumption DEF HandOver, action, Executions
  <2>2. state[handed + 1] = "none"
    BY <1>1, <2>1 DEF LInv, IInv, FreshIsUnknown
  <2> QED BY <2>1, <2>2 DEF LInv, KnownIsCreated, EndedIsSettled
<1>3. CASE NoPlugin \/ LoadFails
  <2>1. UNCHANGED <<wanted, handed, timer, polled, current, state>> /\ rmf' = "idle"
    BY <1>3 DEF NoPlugin, LoadFails, request, action
  <2> QED BY <2>1 DEF LInv, KnownIsCreated, EndedIsSettled
<1>4. CASE PerformAction
  <2>1. /\ UNCHANGED <<wanted, handed, timer, polled, current>>
        /\ rmf = "execute" /\ rmf' = "store"
        /\ state' = [state EXCEPT ![handed] = "planning"]
    BY <1>4 DEF PerformAction, request
  <2>2. /\ state'[handed] = "planning"
        /\ \A f \in Executions : f # handed => state'[f] = state[f]
    BY <1>1, <2>1
  <2>3. KnownIsCreated'
    BY <1>1, <2>1, <2>2 DEF LInv, KnownIsCreated
  <2>4. EndedIsSettled'
    BY <1>1, <2>1, <2>2 DEF EndedIsSettled
  <2> QED BY <2>3, <2>4
<1>5. CASE StoreAction
  <2>1. /\ UNCHANGED <<wanted, handed, timer, polled, state>>
        /\ rmf = "store" /\ rmf' = "idle"
        /\ current' = [action |-> handed, execution |-> handed]
    BY <1>5 DEF StoreAction, request, action
  <2> QED BY <2>1 DEF LInv, KnownIsCreated, EndedIsSettled
<1>6. CASE Snapshot
  <2>1. UNCHANGED <<wanted, handed, rmf, current, state>> /\ polled' = current.action
        /\ timer = "idle"
    BY <1>6 DEF Snapshot, request, action
  <2> QED BY <2>1 DEF LInv, KnownIsCreated, EndedIsSettled
<1>7. CASE Settle
  <2>1. /\ UNCHANGED <<handed, rmf, state>>
        /\ current'.action = 0 /\ polled' = 0
    BY <1>7 DEF Settle, None, action
  <2>2. KnownIsCreated'
    BY <2>1 DEF LInv, KnownIsCreated
  <2>3. EndedIsSettled'
    BY <1>7, <2>1, SettleAnswers DEF EndedIsSettled
  <2> QED BY <2>2, <2>3
<1>8. CASE PlanningFails \/ StartNavigation \/ Completed \/ Failed \/ Navigating
  BY <1>8, PollLInv
<1>9. CASE \/ Withdraw \/ NavigationCallsBack \/ NavigationForgets
           \/ \E e \in Executions : Expire(e)
           \/ UNCHANGED vars
  <2>1. UNCHANGED <<handed, rmf, timer, polled, current, state>> /\ wanted' \in {0, wanted}
    BY <1>9 DEF Withdraw, NavigationCallsBack, NavigationForgets, Expire, vars,
                request, threads, action
  <2> QED BY <2>1 DEF LInv, KnownIsCreated, EndedIsSettled
<1> QED
  BY <1>2, <1>3, <1>4, <1>5, <1>6, <1>7, <1>8, <1>9 DEF Next, ExecuteStep, TimerStep

LEMMA AnswerInvariance == Spec => []LInv
<1>1. Init => KnownIsCreated /\ EndedIsSettled
  BY DEF Init, KnownIsCreated, EndedIsSettled, None
<1>2. LInv /\ [Next]_vars => (KnownIsCreated /\ EndedIsSettled)'
  BY StepLInv
<1> QED BY <1>1, <1>2, Invariance, PTL DEF Spec, LInv

\* RMF's side has finished with an execution that is stored and awaited.
LEMMA AwaitedIsIdle ==
  ASSUME LInv, NEW e \in Executions, Awaited(e)
  PROVE  rmf = "idle" /\ current.action = e /\ e = handed
<1>1. wanted = handed /\ e # 0 /\ current.action = current.execution
  BY ActionsAssumption DEF LInv, IInv, TypeOK, Awaited, Executions
<1> QED BY <1>1 DEF LInv, IInv, TypeOK, FreshIsUnknown, Awaited

LEMMA StepNears ==
  ASSUME LInv, NEW e \in Executions, Awaited(e), Awaited(e)', Overdue(e), Next
  PROVE  /\ Overdue(e)'
         /\ TurnsLeft(e)' <= TurnsLeft(e)
         /\ TimerStep => TurnsLeft(e)' < TurnsLeft(e)
<1>1. /\ rmf = "idle" /\ current.action = e /\ wanted = e /\ current.execution = e
      /\ wanted' = e /\ current'.execution = e /\ e # 0
  BY AwaitedIsIdle, ActionsAssumption DEF Awaited, Executions
<1>2. /\ state \in [Executions -> {"none", "planning", "navigating", "completed", "failed"}]
      /\ timer \in {"idle", "update", "settle"}
      /\ timer = "update" => polled \in Executions
  BY ActionsAssumption DEF LInv, IInv, TypeOK, Executions
<1>3. ASSUME Snapshot PROVE Overdue(e)' /\ TurnsLeft(e)' < TurnsLeft(e)
  BY <1>1, <1>3 DEF Snapshot, action, Overdue, TurnsLeft
<1>4. ~Settle
  <2>1. Settle => wanted' # e
    BY <1>1 DEF Settle, Answer
  <2> QED BY <1>1, <2>1
<1>5. ASSUME PlanningFails \/ Completed \/ Failed
      PROVE  Overdue(e)' /\ TurnsLeft(e)' < TurnsLeft(e)
  <2>1. /\ timer = "update" /\ timer' = "settle" /\ expired' = expired
        /\ \E s \in {"completed", "failed"} : state' = [state EXCEPT ![polled] = s]
    BY <1>5 DEF PlanningFails, Completed, Failed, Report
  <2>2. state'[e] \in {"completed", "failed"} \/ state'[e] = state[e]
    BY <1>2, <2>1
  <2> QED BY <2>1, <2>2 DEF Overdue, TurnsLeft
<1>6. ASSUME StartNavigation \/ Navigating
      PROVE  Overdue(e)' /\ TurnsLeft(e)' < TurnsLeft(e)
  <2>1. /\ timer = "update" /\ timer' = "idle" /\ expired' = expired
        /\ polled \notin expired /\ state[polled] \in {"planning", "navigating"}
        /\ state' = state \/ state' = [state EXCEPT ![polled] = "navigating"]
    BY <1>6 DEF StartNavigation, Navigating, InProgress, action
  <2>2. polled # e
    BY <2>1 DEF Overdue
  <2>3. state'[e] = state[e]
    BY <1>2, <2>1, <2>2
  <2> QED BY <2>1, <2>2, <2>3 DEF Overdue, TurnsLeft
<1>7. TimerStep => Overdue(e)' /\ TurnsLeft(e)' < TurnsLeft(e)
  BY <1>3, <1>4, <1>5, <1>6 DEF TimerStep
<1>8. TurnsLeft(e) \in 1..4 /\ TurnsLeft(e)' \in 1..4
  BY DEF TurnsLeft
<1>9. CASE TimerStep
  BY <1>7, <1>8, <1>9
<1>10. CASE ~TimerStep
  <2>1. NavigationCallsBack \/ NavigationForgets \/ \E f \in Executions : Expire(f)
    BY <1>1, <1>10
    DEF Next, HandOver, Withdraw, ExecuteStep, NoPlugin, LoadFails, PerformAction,
        StoreAction
  <2>2. UNCHANGED <<timer, polled, state>> /\ expired \subseteq expired'
    BY <2>1 DEF NavigationCallsBack, NavigationForgets, Expire, threads
  <2>3. Overdue(e)' /\ TurnsLeft(e)' = TurnsLeft(e)
    BY <2>2 DEF Overdue, TurnsLeft
  <2> QED BY <1>8, <1>10, <2>3
<1> QED BY <1>9, <1>10

\* An awaited action is answered although the navigation may never call back: the
\* clock can always make it late, and from then on each turn of the timer is one
\* of at most four left, whatever RMF's calls and the navigation do in between
\* (UndockAction's TIMEOUT, update_current_action).
THEOREM LateIsAnswered == Spec => []AnswerIsOpen /\ [][AnswerNears]_vars
<1>1. LInv => AnswerIsOpen
  <2> SUFFICES ASSUME LInv, NEW e \in Executions, Awaited(e)
               PROVE  /\ ~Overdue(e) => state[e] \in {"planning", "navigating"}
                      /\ timer = "idle" => rmf = "idle" /\ current.action = e
                      /\ timer = "update" => state[polled] # "none"
    BY DEF AnswerIsOpen
  <2>1. rmf = "idle" /\ current.action = e /\ e # 0
    BY AwaitedIsIdle, ActionsAssumption DEF Executions
  <2>2. state[e] \in {"planning", "navigating", "completed", "failed"}
    BY <2>1 DEF LInv, IInv, TypeOK, KnownIsCreated
  <2>3. timer = "update" => state[polled] # "none"
    BY DEF LInv, IInv, TypeOK, KnownIsCreated
  <2> QED BY <2>1, <2>2, <2>3 DEF Overdue
<1>2. LInv /\ [Next]_vars => [AnswerNears]_vars
  BY StepNears DEF AnswerNears
<1> QED BY <1>1, <1>2, AnswerInvariance, PTL DEF Spec
=============================================================================
