------------------------- MODULE FleetSpawnerProofs -------------------------
(***************************************************************************)
(* Proofs about FleetSpawner, for any fleets, requests and signals.        *)
(***************************************************************************)
EXTENDS FleetSpawner, FiniteSetTheorems, SequenceTheorems, TLAPS

Kinds == {"none", "start", "stop", "status", "cleanup"}

\* What TypeOK leaves open of a call.
Calls == [kind : Kinds, asked : Batches \union {<<>>}, answers : Seq(BOOLEAN)]

\* Adapters that are still to be created have no process; active_adapters holds
\* adapters that were created, under their own names.
Created ==
  /\ \A m \in Adapters :
       IF m > made THEN process[m] = "none" /\ m \notin dropped ELSE fleet[m] \in Fleets
  /\ \A f \in Fleets :
       active[f] # None => active[f] <= made /\ fleet[active[f]] = f

\* What the main thread is doing, and for which call.
KindOfStep ==
  /\ pc \in {"next", "respond"} => call.kind \in {"start", "stop"}
  /\ pc \in {"sweep", "forget"} => call.kind = "status"
  /\ pc = "cleanup" => call.kind = "cleanup"
  /\ pc \in {"idle", "down"} => call.kind = "none"

\* The adapter that is being started is the newest and not active yet.
StartInHand ==
  pc \in Starting =>
    /\ call.kind = "start" /\ ~Answered
    /\ mgr \in Adapters /\ mgr <= made
    /\ fleet[mgr] = Current /\ active[Current] = None
    /\ pc = "spawn" => process[mgr] = "none" /\ config[mgr]

\* The adapter that is being stopped stays active until its process is gone, or
\* is being killed.
StopInHand ==
  pc \in Stopping =>
    /\ call.kind \in {"stop", "cleanup"}
    /\ mgr \in Adapters /\ mgr <= made
    /\ active[fleet[mgr]] = mgr
    /\ call.kind = "stop" => ~Answered /\ fleet[mgr] = Current
    /\ pc \notin {"term", "wait"} => process[mgr] \in {"killed", "zombie", "reaped"}

\* The fleets still to be visited are active, and the dead ones are dead.
VisitsAreActive ==
  /\ todo \subseteq ActiveFleets
  /\ call.kind \notin {"status", "cleanup"} \/ pc = "forget" => todo = {}
  /\ call.kind # "status" => dead = {}
  /\ \A f \in dead : active[f] # None /\ process[active[f]] \in {"zombie", "reaped"}

\* A signal is the end of everything but the cleanup.
SignalEndsService == signals # 0 => pc = "down" \/ call.kind = "cleanup"

\* At most one adapter runs that the spawner does not know, and its fleet has
\* no other.
Stray(m) == Running(m) /\ ~Known(m)
AtMostOneStray ==
  \A m \in Adapters : Stray(m) =>
    /\ signals # 0
    /\ active[fleet[m]] = None
    /\ \A n \in Adapters : Stray(n) => n = m

\* AnswersTruthful, for the answers given so far.
AnswersHold ==
  /\ call.kind = "start" =>
       \A i \in DOMAIN call.answers : call.answers[i] => active[call.asked[i]] # None
  /\ call.kind = "stop" =>
       \A i \in DOMAIN call.answers : call.answers[i] =>
         /\ active[call.asked[i]] = None
         /\ \A m \in Adapters : fleet[m] = call.asked[i] => ~Running(m)

IInv ==
  /\ TypeOK /\ call \in Calls
  /\ Created
  /\ KindOfStep
  /\ StartInHand
  /\ StopInHand
  /\ VisitsAreActive
  /\ SignalEndsService
  /\ AtMostOneStray
  /\ RunningHasConfig
  /\ AnswersHold

\* One answer more.
LEMMA AnswerTyped ==
  ASSUME NEW b \in BOOLEAN,
         call \in Calls, Len(call.answers) <= Len(call.asked), ~Answered,
         Answer(b)
  PROVE  /\ call' \in Calls
         /\ call'.kind = call.kind /\ call'.asked = call.asked
         /\ Len(call'.answers) = Len(call.answers) + 1
         /\ Len(call'.answers) <= Len(call'.asked)
         /\ \A i \in 1..Len(call.answers) : call'.answers[i] = call.answers[i]
         /\ call'.answers[Len(call.answers) + 1] = b
<1>1. call.answers \in Seq(BOOLEAN) /\ Len(call.answers) \in Nat
  BY DEF Calls
<1>2. Len(call.asked) \in Nat
  BY BoundsAssumption DEF Calls, Batches
<1>3. /\ Append(call.answers, b) \in Seq(BOOLEAN)
      /\ Len(Append(call.answers, b)) = Len(call.answers) + 1
      /\ \A i \in 1..Len(call.answers) : Append(call.answers, b)[i] = call.answers[i]
      /\ Append(call.answers, b)[Len(call.answers) + 1] = b
  BY <1>1
<1>4. call' = [call EXCEPT !.answers = Append(@, b)]
  BY DEF Answer
<1>5. /\ call' \in Calls /\ call'.answers = Append(call.answers, b)
      /\ call'.kind = call.kind /\ call'.asked = call.asked
  BY <1>3, <1>4 DEF Calls
<1> QED BY <1>1, <1>2, <1>3, <1>5 DEF Answered

\* What is asked for is a sequence of fleets, and the loop stays in it.
LEMMA AskedFleets ==
  ASSUME call \in Calls, Len(call.answers) <= Len(call.asked)
  PROVE  /\ call.asked \in Seq(Fleets)
         /\ ~Answered => Current \in Fleets
<1>1. call.asked \in Seq(Fleets)
  BY BoundsAssumption DEF Calls, Batches
<1>2. Len(call.answers) \in Nat
  BY DEF Calls
<1> QED BY <1>1, <1>2 DEF Answered, Current

LEMMA AllFalseTyped ==
  ASSUME call.asked \in Seq(Fleets)
  PROVE  /\ AllFalse \in Seq(BOOLEAN) /\ Len(AllFalse) = Len(call.asked)
         /\ \A i \in DOMAIN AllFalse : AllFalse[i] = FALSE
<1>1. AllFalse = [i \in 1..Len(call.asked) |-> FALSE] /\ Len(call.asked) \in Nat
  BY DEF AllFalse
<1> QED BY <1>1

\* Calls come and go, and are answered without a process being touched.
LEMMA ReceiveIInv ==
  ASSUME IInv, NEW kind \in {"start", "stop"}, Receive(kind)
  PROVE  IInv'
<1>1. VisitsAreActive'
  BY DEF IInv, Receive, VisitsAreActive, KindOfStep, Batches, adapters,
      ActiveFleets, None
<1>2. SignalEndsService'
  BY DEF IInv, Receive, SignalEndsService, KindOfStep, Batches, adapters
<1>3. TypeOK' /\ (call \in Calls)' /\ Created' /\ KindOfStep' /\ StartInHand' /\
      StopInHand' /\ AtMostOneStray' /\ RunningHasConfig' /\ AnswersHold'
  BY DEF IInv, Receive, TypeOK, Batches, adapters, Adapters, Locations,
      ProcessState, Starting, Stopping, Calls, Kinds, Created, None, KindOfStep,
      StartInHand, Answered, Current, StopInHand, AtMostOneStray, Stray, Known,
      Running, RunningHasConfig, AnswersHold
<1> QED BY <1>1, <1>2, <1>3 DEF IInv

LEMMA RespondIInv ==
  ASSUME IInv, Respond
  PROVE  IInv'
<1>1. VisitsAreActive'
  BY DEF IInv, Respond, VisitsAreActive, KindOfStep, NoCall, Responding, adapters,
      ActiveFleets, None, Answered
<1>2. SignalEndsService'
  BY DEF IInv, Respond, SignalEndsService, KindOfStep, NoCall, Responding, adapters,
      Answered
<1>3. TypeOK' /\ (call \in Calls)' /\ Created' /\ KindOfStep' /\ StartInHand' /\
      StopInHand' /\ AtMostOneStray' /\ RunningHasConfig' /\ AnswersHold'
  BY DEF IInv, Respond, TypeOK, NoCall, Responding, adapters, Adapters, Batches,
      Locations, ProcessState, Answered, Starting, Stopping, Calls, Kinds, Created,
      None, KindOfStep, StartInHand, Current, StopInHand, AtMostOneStray, Stray,
      Known, Running, RunningHasConfig, AnswersHold
<1> QED BY <1>1, <1>2, <1>3 DEF IInv

LEMMA AlreadyRunningIInv ==
  ASSUME IInv, AlreadyRunning
  PROVE  IInv'
<1>1. TypeOK'
  <2>1. Answer(FALSE) /\ ~Answered
    BY DEF AlreadyRunning, AtNext
  <2>2. Len(call'.answers) <= Len(call'.asked) /\ call'.kind = call.kind /\ call'.asked = call.asked
    BY <2>1, AnswerTyped DEF IInv, TypeOK
  <2>3. pc' = "next" /\ mgr' = 0
    BY <2>1 DEF Answer, None
  <2> QED BY <2>2, <2>3, BoundsAssumption DEF IInv, TypeOK, AlreadyRunning, Locations, adapters
<1>2. (call \in Calls)'
  BY AnswerTyped DEF IInv, TypeOK, AlreadyRunning, AtNext, StartInHand, Starting
<1>3. Created' /\ KindOfStep' /\ StartInHand' /\ StopInHand' /\ VisitsAreActive' /\
      SignalEndsService' /\ AtMostOneStray' /\ RunningHasConfig' /\ AnswersHold'
  BY DEF IInv, AlreadyRunning, Created, Answer, AtNext, Current, None, adapters,
      Adapters, Answered, KindOfStep, StartInHand, Starting, StopInHand, Stopping,
      VisitsAreActive, ActiveFleets, SignalEndsService, AtMostOneStray, Stray,
      Known, Running, RunningHasConfig, AnswersHold
<1> QED BY <1>1, <1>2, <1>3 DEF IInv

\* An adapter is created, started, checked and registered.
LEMMA CreateManagerIInv ==
  ASSUME IInv, CreateManager
  PROVE  IInv'
<1>1. TypeOK'
  <2>1. Current \in Fleets
    BY AskedFleets DEF CreateManager, AtNext, IInv, TypeOK
  <2>2. made + 1 \in Adapters
    BY BoundsAssumption DEF CreateManager, IInv, TypeOK, Adapters
  <2> QED BY <2>1, <2>2, BoundsAssumption
          DEF CreateManager, IInv, TypeOK, Adapters, Locations, Starting
<1>2. Created'
  <2>1. Current \in Fleets /\ made \in Nat /\ made + 1 \in Adapters
    BY AskedFleets, BoundsAssumption DEF CreateManager, AtNext, IInv, TypeOK, Adapters
  <2>2. \A m \in Adapters : IF m > made' THEN process'[m] = "none" /\ m \notin dropped'
                                          ELSE fleet'[m] \in Fleets
    BY <2>1 DEF CreateManager, IInv, TypeOK, Created, Adapters
  <2>3. \A f \in Fleets : active'[f] # None => active'[f] <= made' /\ fleet'[active'[f]] = f
    <3> SUFFICES ASSUME NEW f \in Fleets, active[f] # None
                 PROVE  active[f] <= made + 1 /\ fleet'[active[f]] = f
      BY DEF CreateManager
    <3>1. active[f] \in Adapters /\ active[f] <= made /\ fleet[active[f]] = f
      BY BoundsAssumption DEF IInv, TypeOK, Created, Adapters, None
    <3>2. active[f] # made + 1
      BY <2>1, <3>1 DEF Adapters
    <3> QED BY <2>1, <3>1, <3>2 DEF CreateManager, IInv, TypeOK, Adapters
  <2> QED BY <2>2, <2>3 DEF Created
<1>3. StartInHand'
  <2>1. Current \in Fleets /\ made + 1 \in Adapters
    BY AskedFleets, BoundsAssumption DEF CreateManager, AtNext, IInv, TypeOK, Adapters
  <2> QED BY <2>1 DEF CreateManager, AtNext, StartInHand, Starting, Answered, Current,
                     IInv, TypeOK, Created, Adapters
<1>4. (call \in Calls)' /\ KindOfStep' /\ StopInHand' /\ VisitsAreActive' /\
      SignalEndsService' /\ AtMostOneStray' /\ RunningHasConfig' /\ AnswersHold'
  BY DEF IInv, CreateManager, Calls, AtNext, Current, None, Batches, Kinds,
      Answered, KindOfStep, StopInHand, Adapters, Stopping, VisitsAreActive,
      ActiveFleets, SignalEndsService, AtMostOneStray, Stray, Known, Running,
      Starting, RunningHasConfig, AnswersHold
<1> QED BY <1>1, <1>2, <1>3, <1>4 DEF IInv

LEMMA CreateFailsIInv ==
  ASSUME IInv, CreateFails
  PROVE  IInv'
<1>1. TypeOK'
  <2>1. AllFalse \in Seq(BOOLEAN) /\ Len(AllFalse) = Len(call.asked)
    BY AskedFleets, AllFalseTyped DEF IInv, TypeOK
  <2>2. /\ call'.kind = call.kind /\ call'.asked = call.asked
        /\ call'.answers \in {call.answers, AllFalse}
    BY DEF IInv, Calls, CreateFails
  <2>3. Len(call'.answers) <= Len(call'.asked)
    <3>1. Len(call.asked) \in Nat
      BY AskedFleets DEF IInv, TypeOK
    <3> QED BY <2>1, <2>2, <3>1 DEF IInv, TypeOK
  <2> QED BY <2>2, <2>3 DEF IInv, TypeOK, CreateFails, Locations, adapters
<1>2. (call \in Calls)'
  <2>1. AllFalse \in Seq(BOOLEAN)
    BY AskedFleets, AllFalseTyped DEF IInv, TypeOK
  <2> QED BY <2>1 DEF IInv, Calls, CreateFails
<1>3. Created' /\ KindOfStep' /\ StartInHand' /\ StopInHand' /\ VisitsAreActive' /\
      SignalEndsService' /\ AtMostOneStray' /\ RunningHasConfig' /\ AnswersHold'
  BY DEF IInv, CreateFails, Created, AllFalse, AtNext, Current, None, adapters,
      Adapters, Answered, KindOfStep, StartInHand, Starting, StopInHand, Stopping,
      VisitsAreActive, ActiveFleets, SignalEndsService, AtMostOneStray, Stray,
      Known, Running, RunningHasConfig, AnswersHold
<1> QED BY <1>1, <1>2, <1>3 DEF IInv

LEMMA SpawnIInv ==
  ASSUME IInv, Spawn
  PROVE  IInv'
<1>1. Created'
  BY DEF IInv, Spawn, Created, StartInHand, TypeOK, Adapters, None, Answered,
      Current, Starting, Batches, Locations, ProcessState, Stopping
<1>2. VisitsAreActive'
  BY DEF IInv, Spawn, VisitsAreActive, StartInHand, ActiveFleets, None, Adapters,
      Answered, Current, Starting
<1>3. RunningHasConfig'
  BY DEF IInv, Spawn, RunningHasConfig, StartInHand, Adapters, Running, Answered,
      Current, None, Starting
<1>4. AnswersHold'
  BY DEF IInv, Spawn, AnswersHold, StartInHand, Adapters, None, Running, Answered,
      Current, Starting
<1>5. TypeOK' /\ (call \in Calls)' /\ KindOfStep' /\ StartInHand' /\ StopInHand' /\
      SignalEndsService' /\ AtMostOneStray'
  BY DEF IInv, Spawn, TypeOK, Adapters, Batches, Locations, ProcessState, Starting,
      Stopping, Calls, Kinds, KindOfStep, StartInHand, Answered, Current, None,
      StopInHand, SignalEndsService, AtMostOneStray, Stray, Known, Running
<1> QED BY <1>1, <1>2, <1>3, <1>4, <1>5 DEF IInv

LEMMA SpawnFailsIInv ==
  ASSUME IInv, SpawnFails
  PROVE  IInv'
<1>1. TypeOK'
  <2>1. Answer(FALSE) /\ ~Answered
    BY DEF SpawnFails, IInv, StartInHand, Starting
  <2>2. Len(call'.answers) <= Len(call'.asked) /\ call'.kind = call.kind /\ call'.asked = call.asked
    BY <2>1, AnswerTyped DEF IInv, TypeOK
  <2>3. pc' = "next" /\ mgr' = 0
    BY <2>1 DEF Answer, None
  <2> QED BY <2>2, <2>3, BoundsAssumption DEF IInv, TypeOK, SpawnFails, Locations, adapters
<1>2. (call \in Calls)'
  BY AnswerTyped DEF IInv, TypeOK, SpawnFails, AtNext, StartInHand, Starting
<1>3. KindOfStep'
  BY DEF IInv, SpawnFails, KindOfStep, StartInHand, Answer, adapters, Adapters,
      Answered, Current, None, Starting
<1>4. AtMostOneStray'
  BY DEF IInv, SpawnFails, AtMostOneStray, StartInHand, Answer, adapters, Adapters,
      None, Stray, Answered, Current, Starting, Known, Running
<1>5. Created' /\ StartInHand' /\ StopInHand' /\ VisitsAreActive' /\
      SignalEndsService' /\ RunningHasConfig' /\ AnswersHold'
  BY DEF IInv, SpawnFails, Created, Answer, adapters, Adapters, None, StartInHand,
      Answered, Current, Starting, StopInHand, Stopping, VisitsAreActive,
      ActiveFleets, SignalEndsService, RunningHasConfig, Running, AnswersHold
<1> QED BY <1>1, <1>2, <1>3, <1>4, <1>5 DEF IInv

LEMMA SpawnHalfFailsIInv ==
  ASSUME IInv, SpawnHalfFails
  PROVE  IInv'
<1>1. TypeOK'
  <2>1. Answer(FALSE) /\ ~Answered
    BY DEF SpawnHalfFails, IInv, StartInHand, Starting
  <2>2. Len(call'.answers) <= Len(call'.asked) /\ call'.kind = call.kind /\ call'.asked = call.asked
    BY <2>1, AnswerTyped DEF IInv, TypeOK
  <2>3. pc' = "next" /\ mgr' = 0
    BY <2>1 DEF Answer, None
  <2>4. process' \in [Adapters -> ProcessState] /\ dropped' \subseteq Adapters
    BY DEF SpawnHalfFails, StartInHand, Starting, IInv, TypeOK, ProcessState
  <2> QED BY <2>2, <2>3, <2>4, BoundsAssumption DEF IInv, TypeOK, SpawnHalfFails, Locations
<1>2. (call \in Calls)'
  BY AnswerTyped DEF IInv, TypeOK, SpawnHalfFails, AtNext, StartInHand, Starting
<1>3. Created'
  BY DEF IInv, SpawnHalfFails, Created, StartInHand, TypeOK, Answer, Adapters, None,
      Answered, Current, Starting, Batches, Locations, ProcessState, Stopping
<1>4. KindOfStep'
  BY DEF IInv, SpawnHalfFails, KindOfStep, StartInHand, Answer, Adapters, Answered,
      Current, None, Starting
<1>5. VisitsAreActive'
  BY DEF IInv, SpawnHalfFails, VisitsAreActive, StartInHand, Answer, ActiveFleets,
      None, Adapters, Answered, Current, Starting
<1>6. StartInHand' /\ StopInHand' /\ SignalEndsService' /\ AtMostOneStray' /\
      RunningHasConfig' /\ AnswersHold'
  BY DEF IInv, SpawnHalfFails, StartInHand, Answer, Adapters, Answered, Current,
      None, Starting, StopInHand, Stopping, SignalEndsService, AtMostOneStray,
      Stray, Known, Running, RunningHasConfig, AnswersHold
<1> QED BY <1>1, <1>2, <1>3, <1>4, <1>5, <1>6 DEF IInv

LEMMA CheckAliveIInv ==
  ASSUME IInv, CheckAlive
  PROVE  IInv'
<1>1. TypeOK'
  <2>1. process' \in [Adapters -> ProcessState] /\ UNCHANGED <<active, made, fleet, config, dropped, todo, dead, signals>>
    BY DEF CheckAlive, Poll, IInv, TypeOK, ProcessState
  <2>2. /\ pc' \in {"next", "register"} /\ mgr' \in {0, mgr}
        /\ call'.kind = call.kind /\ call'.asked = call.asked /\ Len(call'.answers) <= Len(call'.asked)
    <3>1. CASE process[mgr] = "zombie"
      <4>1. Answer(FALSE)
        BY <3>1 DEF CheckAlive
      <4>2. ~Answered
        BY DEF IInv, CheckAlive, StartInHand, Starting
      <4> QED BY <4>1, <4>2, AnswerTyped DEF IInv, TypeOK, Answer, None
    <3>2. CASE process[mgr] # "zombie"
      BY <3>2 DEF CheckAlive, IInv, TypeOK
    <3> QED BY <3>1, <3>2
  <2> QED BY <2>1, <2>2, BoundsAssumption DEF IInv, TypeOK, Locations, Starting
<1>2. (call \in Calls)'
  <2>1. CASE process[mgr] = "zombie"
    BY <2>1, AnswerTyped DEF IInv, TypeOK, CheckAlive, StartInHand, Starting
  <2>2. CASE process[mgr] # "zombie"
    BY <2>2 DEF IInv, CheckAlive
  <2> QED BY <2>1, <2>2
<1>3. KindOfStep'
  <2>1. pc' \in {"next", "register"} /\ call'.kind = call.kind /\ call.kind = "start"
    <3>1. ~Answered /\ call.kind = "start"
      BY DEF CheckAlive, IInv, StartInHand, Starting
    <3>2. process[mgr] = "zombie" => Answer(FALSE)
      BY DEF CheckAlive
    <3>3. process[mgr] # "zombie" => pc' = "register" /\ call' = call
      BY DEF CheckAlive
    <3> QED BY <3>1, <3>2, <3>3, AnswerTyped DEF IInv, TypeOK, Answer
  <2> QED BY <2>1 DEF KindOfStep
<1>4. VisitsAreActive'
  BY DEF IInv, CheckAlive, VisitsAreActive, StartInHand, Answer, Poll, ActiveFleets,
      None, Adapters, Answered, Current, Starting
<1>5. SignalEndsService'
  BY DEF IInv, CheckAlive, SignalEndsService, StartInHand, Answer, Poll, Adapters,
      Answered, Current, None, Starting
<1>6. AtMostOneStray'
  <2>1. CASE process[mgr] = "zombie"
    BY <2>1, AnswerTyped, BoundsAssumption DEF CheckAlive, Poll, Answer, IInv, TypeOK, ProcessState, AtMostOneStray, Stray, Known, Running, StartInHand, Starting, SignalEndsService, Created, Adapters, Answer, Calls, Kinds
  <2>2. CASE process[mgr] # "zombie"
    BY <2>2, BoundsAssumption DEF CheckAlive, Poll, Answer, IInv, TypeOK, ProcessState, AtMostOneStray, Stray, Known, Running, StartInHand, Starting, SignalEndsService, Created, Adapters
  <2> QED BY <2>1, <2>2
<1>7. AnswersHold'
  <2>1. call.kind = "start" /\ ~Answered /\ UNCHANGED active
    BY DEF IInv, CheckAlive, StartInHand, Starting
  <2>2. CASE process[mgr] = "zombie"
    <3>1. Answer(FALSE)
      BY <2>2 DEF CheckAlive
    <3>2. /\ call'.kind = "start" /\ call'.asked = call.asked
          /\ \A i \in 1..Len(call.answers) : call'.answers[i] = call.answers[i]
          /\ call'.answers[Len(call.answers) + 1] = FALSE
          /\ call'.answers \in Seq(BOOLEAN) /\ Len(call'.answers) = Len(call.answers) + 1
      BY <2>1, <3>1, AnswerTyped DEF IInv, TypeOK, Calls
    <3>3. /\ DOMAIN call.answers = 1..Len(call.answers) /\ Len(call.answers) \in Nat
          /\ DOMAIN call'.answers = 1..(Len(call.answers) + 1)
      BY <3>2 DEF IInv, Calls
    <3>4. \A i \in DOMAIN call'.answers : call'.answers[i] => i \in DOMAIN call.answers /\ call.answers[i]
      BY <3>2, <3>3
    <3> QED BY <2>1, <3>2, <3>4 DEF IInv, AnswersHold
  <2>3. CASE process[mgr] # "zombie"
    <3>1. UNCHANGED <<active, call>>
      BY <2>3 DEF CheckAlive
    <3> QED BY <2>1, <3>1 DEF IInv, AnswersHold
  <2> QED BY <2>2, <2>3
<1>8. Created'
  BY DEF IInv, CheckAlive, Created, Answer, Poll, Adapters, None
<1>9. StartInHand'
  BY DEF IInv, CheckAlive, StartInHand, Answer, Poll, Adapters, Answered, Current,
      None, Starting
<1>10. StopInHand'
  BY DEF IInv, CheckAlive, StopInHand, Answer, Poll, Adapters, Answered, Current,
      Stopping, None
<1>11. RunningHasConfig'
  BY DEF IInv, CheckAlive, RunningHasConfig, Answer, Poll, Adapters, Running, None
<1> QED BY <1>1, <1>2, <1>3, <1>4, <1>5, <1>6, <1>7, <1>8, <1>9, <1>10, <1>11 DEF IInv

LEMMA RegisterIInv ==
  ASSUME IInv, Register
  PROVE  IInv'
<1>1. TypeOK'
  <2>1. Answer(TRUE) /\ ~Answered
    BY DEF Register, IInv, StartInHand, Starting
  <2>2. Len(call'.answers) <= Len(call'.asked) /\ call'.kind = call.kind /\ call'.asked = call.asked
    BY <2>1, AnswerTyped DEF IInv, TypeOK
  <2>3. pc' = "next" /\ mgr' = 0
    BY <2>1 DEF Answer, None
  <2>4. active' \in [Fleets -> 0..MaxAdapters]
    BY DEF Register, IInv, TypeOK
  <2> QED BY <2>2, <2>3, <2>4, BoundsAssumption DEF IInv, TypeOK, Register, Locations, adapters
<1>2. (call \in Calls)'
  BY AnswerTyped DEF IInv, TypeOK, Register, AtNext, StartInHand, Starting
<1>3. Created'
  BY DEF IInv, Register, Created, StartInHand, Answer, Current, adapters, Adapters,
      None, Answered, Starting
<1>4. KindOfStep'
  BY DEF IInv, Register, KindOfStep, StartInHand, Answer, Current, adapters,
      Adapters, Answered, None, Starting
<1>5. VisitsAreActive'
  BY DEF IInv, Register, VisitsAreActive, StartInHand, Answer, Current, adapters,
      ActiveFleets, None, Adapters, Answered, Starting
<1>6. AtMostOneStray'
  <2>1. /\ signals = 0 /\ mgr \in Adapters /\ fleet[mgr] = Current /\ Current \in Fleets
        /\ active[Current] = None
    BY AskedFleets DEF IInv, TypeOK, Register, StartInHand, Starting, SignalEndsService
  <2>2. \A m \in Adapters : Stray(m)' => Stray(m)
    BY <2>1 DEF Register, Stray, Known, Running, adapters, IInv, TypeOK, Created, Adapters, None
  <2> QED BY <2>1, <2>2 DEF IInv, AtMostOneStray
<1>7. AnswersHold'
  <2>1. call.kind = "start" /\ ~Answered /\ Answer(TRUE)
    BY DEF IInv, Register, StartInHand, Starting
  <2>2. /\ call'.kind = "start" /\ call'.asked = call.asked
        /\ \A i \in 1..Len(call.answers) : call'.answers[i] = call.answers[i]
        /\ call'.answers \in Seq(BOOLEAN) /\ Len(call'.answers) = Len(call.answers) + 1
    BY <2>1, AnswerTyped DEF IInv, TypeOK, Calls
  <2>3. /\ DOMAIN call.answers = 1..Len(call.answers) /\ Len(call.answers) \in Nat
        /\ DOMAIN call'.answers = 1..(Len(call.answers) + 1)
        /\ \A i \in DOMAIN call'.answers :
             call.asked[i] \in Fleets /\ (i \in DOMAIN call.answers \/ call.asked[i] = Current)
    BY <2>1, <2>2, AskedFleets DEF IInv, TypeOK, Calls, Answered, Current
  <2>4. mgr # None /\ active' = [active EXCEPT ![Current] = mgr]
    BY DEF IInv, Register, StartInHand, Starting, Adapters, None
  <2> QED BY <2>1, <2>2, <2>3, <2>4 DEF IInv, TypeOK, AnswersHold
<1>8. StartInHand' /\ StopInHand' /\ SignalEndsService' /\ RunningHasConfig'
  BY DEF IInv, Register, StartInHand, Answer, Current, adapters, Adapters, Answered,
      None, Starting, StopInHand, Stopping, SignalEndsService, RunningHasConfig,
      Running
<1> QED BY <1>1, <1>2, <1>3, <1>4, <1>5, <1>6, <1>7, <1>8 DEF IInv

\* The service that stops adapters, and the stop of one adapter.
LEMMA NotFoundIInv ==
  ASSUME IInv, NotFound
  PROVE  IInv'
<1>1. TypeOK'
  <2>1. Answer(FALSE) /\ ~Answered
    BY DEF NotFound, AtNext
  <2>2. Len(call'.answers) <= Len(call'.asked) /\ call'.kind = call.kind /\ call'.asked = call.asked
    BY <2>1, AnswerTyped DEF IInv, TypeOK
  <2>3. pc' = "next" /\ mgr' = 0
    BY <2>1 DEF Answer, None
  <2> QED BY <2>2, <2>3, BoundsAssumption DEF IInv, TypeOK, NotFound, Locations, adapters
<1>2. (call \in Calls)'
  BY AnswerTyped DEF IInv, TypeOK, NotFound, AtNext, StartInHand, Starting
<1>3. Created' /\ KindOfStep' /\ StartInHand' /\ StopInHand' /\ VisitsAreActive' /\
      SignalEndsService' /\ AtMostOneStray' /\ RunningHasConfig' /\ AnswersHold'
  BY DEF IInv, NotFound, Created, Answer, AtNext, Current, None, adapters, Adapters,
      Answered, KindOfStep, StartInHand, Starting, StopInHand, Stopping,
      VisitsAreActive, ActiveFleets, SignalEndsService, AtMostOneStray, Stray,
      Known, Running, RunningHasConfig, AnswersHold
<1> QED BY <1>1, <1>2, <1>3 DEF IInv

LEMMA StopManagerIInv ==
  ASSUME IInv, StopManager
  PROVE  IInv'
<1>1. TypeOK'
  <2>1. Current \in Fleets
    BY AskedFleets DEF StopManager, AtNext, IInv, TypeOK
  <2> QED BY <2>1 DEF IInv, TypeOK, StopManager, Locations, Stopping, adapters
<1>2. StopInHand'
  <2>1. Current \in Fleets
    BY AskedFleets DEF StopManager, AtNext, IInv, TypeOK
  <2>2. mgr' \in Adapters /\ mgr' <= made /\ fleet[mgr'] = Current
    BY <2>1, BoundsAssumption DEF StopManager, IInv, TypeOK, Created, Adapters, None
  <2> QED BY <2>2 DEF StopManager, StopInHand, AtNext, Answered, Current, adapters
<1>3. (call \in Calls)' /\ Created' /\ KindOfStep' /\ StartInHand' /\
      VisitsAreActive' /\ SignalEndsService' /\ AtMostOneStray' /\ RunningHasConfig'
      /\ AnswersHold'
  BY DEF IInv, StopManager, Calls, AtNext, Current, None, adapters, Batches, Kinds,
      Answered, Created, Adapters, KindOfStep, StartInHand, Starting,
      VisitsAreActive, ActiveFleets, SignalEndsService, AtMostOneStray, Stray,
      Known, Running, RunningHasConfig, AnswersHold
<1> QED BY <1>1, <1>2, <1>3 DEF IInv

LEMMA TerminateIInv ==
  ASSUME IInv, Terminate
  PROVE  IInv'
<1>1. TypeOK' /\ (call \in Calls)' /\ Created' /\ KindOfStep' /\ StartInHand' /\
      StopInHand' /\ VisitsAreActive' /\ SignalEndsService' /\ AtMostOneStray' /\
      RunningHasConfig' /\ AnswersHold'
  BY DEF IInv, Terminate, TypeOK, Adapters, Batches, Locations, ProcessState,
      Starting, Stopping, Calls, Kinds, Created, None, KindOfStep, StartInHand,
      Answered, Current, StopInHand, VisitsAreActive, ActiveFleets,
      SignalEndsService, AtMostOneStray, Stray, Known, Running, RunningHasConfig,
      AnswersHold
<1> QED BY <1>1 DEF IInv

LEMMA WaitEndsIInv ==
  ASSUME IInv, WaitEnds
  PROVE  IInv'
<1>1. TypeOK' /\ (call \in Calls)' /\ Created' /\ KindOfStep' /\ StartInHand' /\
      StopInHand' /\ VisitsAreActive' /\ SignalEndsService' /\ AtMostOneStray' /\
      RunningHasConfig' /\ AnswersHold'
  BY DEF IInv, WaitEnds, TypeOK, Poll, Adapters, Batches, Locations, ProcessState,
      Starting, Stopping, Calls, Kinds, Created, None, KindOfStep, StartInHand,
      Answered, Current, StopInHand, VisitsAreActive, ActiveFleets,
      SignalEndsService, AtMostOneStray, Stray, Known, Running, RunningHasConfig,
      AnswersHold
<1> QED BY <1>1 DEF IInv

LEMMA WaitTimesOutIInv ==
  ASSUME IInv, WaitTimesOut
  PROVE  IInv'
<1>1. StopInHand'
  BY DEF IInv, WaitTimesOut, StopInHand, TypeOK, Alive, Adapters, Answered, Current,
      Stopping, Batches, Locations, ProcessState, Starting
<1>2. TypeOK' /\ (call \in Calls)'
  BY DEF IInv, WaitTimesOut, TypeOK, Alive, Adapters, Batches, Locations,
      ProcessState, Starting, Stopping, Calls, Kinds
<1>3. Created' /\ KindOfStep' /\ StartInHand' /\ VisitsAreActive' /\
      SignalEndsService'
  BY DEF IInv, WaitTimesOut, Created, Alive, Adapters, None, KindOfStep,
      StartInHand, Answered, Current, Starting, VisitsAreActive, ActiveFleets,
      SignalEndsService
<1>4. AtMostOneStray' /\ RunningHasConfig' /\ AnswersHold'
  BY DEF IInv, WaitTimesOut, AtMostOneStray, Alive, Adapters, None, Stray, Known,
      Running, Starting, RunningHasConfig, AnswersHold
<1> QED BY <1>1, <1>2, <1>3, <1>4 DEF IInv

LEMMA KillTimesOutIInv ==
  ASSUME IInv, KillTimesOut
  PROVE  IInv'
<1>1. TypeOK' /\ (call \in Calls)' /\ Created' /\ KindOfStep' /\ StartInHand' /\
      StopInHand' /\ VisitsAreActive' /\ SignalEndsService' /\ AtMostOneStray' /\
      RunningHasConfig' /\ AnswersHold'
  BY DEF IInv, KillTimesOut, TypeOK, Alive, adapters, Adapters, Batches, Locations,
      ProcessState, Starting, Stopping, Calls, Kinds, Created, None, KindOfStep,
      StartInHand, Answered, Current, StopInHand, VisitsAreActive, ActiveFleets,
      SignalEndsService, AtMostOneStray, Stray, Known, Running, RunningHasConfig,
      AnswersHold
<1> QED BY <1>1 DEF IInv

LEMMA UnlinkFailsIInv ==
  ASSUME IInv, UnlinkFails
  PROVE  IInv'
<1>1. TypeOK' /\ (call \in Calls)' /\ Created' /\ KindOfStep' /\ StartInHand' /\
      StopInHand' /\ VisitsAreActive' /\ SignalEndsService' /\ AtMostOneStray' /\
      RunningHasConfig' /\ AnswersHold'
  BY DEF IInv, UnlinkFails, TypeOK, Alive, adapters, Adapters, Batches, Locations,
      ProcessState, Starting, Stopping, Calls, Kinds, Created, None, KindOfStep,
      StartInHand, Answered, Current, StopInHand, VisitsAreActive, ActiveFleets,
      SignalEndsService, AtMostOneStray, Stray, Known, Running, RunningHasConfig,
      AnswersHold
<1> QED BY <1>1 DEF IInv

LEMMA UnlinkConfigIInv ==
  ASSUME IInv, UnlinkConfig
  PROVE  IInv'
<1>1. RunningHasConfig'
  BY DEF IInv, UnlinkConfig, RunningHasConfig, StopInHand, Adapters, Running,
      Answered, Current, Stopping
<1>2. TypeOK' /\ (call \in Calls)' /\ Created' /\ KindOfStep' /\ StartInHand' /\
      StopInHand' /\ VisitsAreActive' /\ SignalEndsService' /\ AtMostOneStray' /\
      AnswersHold'
  BY DEF IInv, UnlinkConfig, TypeOK, Adapters, Batches, Locations, ProcessState,
      Starting, Stopping, Calls, Kinds, Created, None, KindOfStep, StartInHand,
      Answered, Current, StopInHand, VisitsAreActive, ActiveFleets,
      SignalEndsService, AtMostOneStray, Stray, Known, Running, AnswersHold
<1> QED BY <1>1, <1>2 DEF IInv

LEMMA ServiceStoppedIInv ==
  ASSUME IInv, ServiceStopped
  PROVE  IInv'
<1>1. TypeOK'
  <2>1. /\ Len(call'.answers) <= Len(call'.asked) /\ call'.kind = call.kind /\ call'.asked = call.asked
        /\ pc' = "next" /\ mgr' = None
    BY AnswerTyped DEF IInv, TypeOK, ServiceStopped, StopInHand, Stopping, Answer
  <2>2. active' = active \/ active' = [active EXCEPT ![Current] = None]
    BY DEF ServiceStopped, Forget
  <2>3. active' \in [Fleets -> 0..MaxAdapters]
    BY <2>2, BoundsAssumption DEF IInv, TypeOK, None
  <2>4. UNCHANGED <<made, adapters, todo, dead, signals>>
    BY DEF ServiceStopped
  <2> QED BY <2>1, <2>3, <2>4, BoundsAssumption DEF IInv, TypeOK, adapters, Locations, None
<1>2. (call \in Calls)'
  BY AnswerTyped DEF IInv, TypeOK, ServiceStopped, StopInHand, Stopping
<1>3. Created'
  BY DEF IInv, ServiceStopped, Created, TypeOK, Answer, Current, Forget, adapters,
      Adapters, None, Batches, Locations, ProcessState, Starting, Stopping
<1>4. KindOfStep'
  <2>1. pc' = "next" /\ call'.kind = call.kind /\ call.kind = "stop"
    BY AnswerTyped DEF ServiceStopped, IInv, TypeOK, StopInHand, Stopping, Answer
  <2> QED BY <2>1 DEF KindOfStep
<1>5. AtMostOneStray'
  <2>1. /\ pc \notin Starting /\ pc' \notin Starting /\ fleet[mgr] = Current /\ Current \in Fleets
        /\ process[mgr] \in {"killed", "zombie", "reaped"} /\ active[Current] = mgr
    BY AskedFleets DEF IInv, TypeOK, ServiceStopped, StopInHand, Stopping, Starting, Answer
  <2>2. active' = active \/ active' = [active EXCEPT ![Current] = None]
    BY DEF ServiceStopped, Forget
  <2>3. \A m \in Adapters : Stray(m)' => Stray(m) /\ fleet[m] \in Fleets
    BY <2>1, <2>2 DEF ServiceStopped, Stray, Known, Running, adapters, IInv, TypeOK, Created
  <2>4. \A f \in Fleets : active[f] = None => active'[f] = None
    BY <2>2 DEF IInv, TypeOK
  <2> QED BY <2>3, <2>4 DEF IInv, AtMostOneStray, ServiceStopped, adapters
<1>6. AnswersHold'
  <2>1. PICK b \in BOOLEAN :
          /\ Answer(b)
          /\ active' = IF b THEN [active EXCEPT ![Current] = None] ELSE active
    BY DEF ServiceStopped, Forget
  <2>2. call.kind = "stop" /\ ~Answered /\ UNCHANGED adapters
    BY DEF ServiceStopped, IInv, StopInHand, Stopping
  <2>3. /\ call'.kind = "stop" /\ call'.asked = call.asked
        /\ \A i \in 1..Len(call.answers) : call'.answers[i] = call.answers[i]
        /\ call'.answers[Len(call.answers) + 1] = b
    BY <2>1, <2>2, AnswerTyped DEF IInv, TypeOK
  <2>4. Len(call.answers) \in Nat /\ DOMAIN call'.answers = 1..(Len(call.answers) + 1)
    <3>1. call'.answers \in Seq(BOOLEAN) /\ Len(call'.answers) = Len(call.answers) + 1
      BY <2>1, <2>2, AnswerTyped DEF IInv, TypeOK, Calls
    <3> QED BY <3>1 DEF IInv, Calls
  <2>5. DOMAIN call.answers = 1..Len(call.answers) /\ \A i \in DOMAIN call.answers : call.asked[i] \in Fleets
    BY AskedFleets DEF IInv, TypeOK, Calls
  <2>6. /\ mgr \in Adapters /\ active[Current] = mgr /\ Current \in Fleets /\ ~Running(mgr)
    BY <2>2, AskedFleets DEF IInv, TypeOK, ServiceStopped, StopInHand, Stopping, Running
  <2>7. \A m \in Adapters : fleet[m] = Current => ~Running(m)
    BY <2>6 DEF IInv, AtMostOneStray, Stray, Known, SignalEndsService, ServiceStopped, Stopping, Starting
  <2>8. ASSUME NEW i \in DOMAIN call'.answers, call'.answers[i]
        PROVE  /\ active'[call.asked[i]] = None
               /\ \A m \in Adapters : fleet[m] = call.asked[i] => ~Running(m)
    <3>1. CASE i \in 1..Len(call.answers)
      <4>1. active[call.asked[i]] = None /\ call.asked[i] \in Fleets
        BY <2>2, <2>3, <2>5, <2>8, <3>1 DEF IInv, AnswersHold
      <4>2. active'[call.asked[i]] = None
        BY <2>1, <4>1 DEF IInv, TypeOK
      <4> QED BY <2>2, <2>3, <2>5, <2>8, <3>1, <4>2 DEF IInv, AnswersHold
    <3>2. CASE i = Len(call.answers) + 1
      <4>1. call.asked[i] = Current /\ b
        BY <2>3, <2>8, <3>2 DEF Current
      <4> QED BY <2>1, <2>6, <2>7, <4>1 DEF IInv, TypeOK
    <3> QED BY <2>4, <3>1, <3>2
  <2>9. \A m \in Adapters : Running(m)' = Running(m)
    BY <2>2 DEF Running, adapters
  <2> QED BY <2>2, <2>3, <2>8, <2>9 DEF AnswersHold, adapters
<1>7. StartInHand' /\ StopInHand' /\ VisitsAreActive' /\ SignalEndsService' /\
      RunningHasConfig'
  BY DEF IInv, ServiceStopped, StartInHand, Answer, Current, Forget, adapters,
      Adapters, Answered, None, Starting, StopInHand, Stopping, VisitsAreActive,
      ActiveFleets, SignalEndsService, RunningHasConfig, Running
<1> QED BY <1>1, <1>2, <1>3, <1>4, <1>5, <1>6, <1>7 DEF IInv

LEMMA CleanupStoppedIInv ==
  ASSUME IInv, CleanupStopped
  PROVE  IInv'
<1>1. TypeOK'
  <2>1. active' = [active EXCEPT ![fleet[mgr]] = 0] /\ mgr' = 0 /\ pc' = "cleanup"
    BY DEF CleanupStopped, Forget, None
  <2>2. active' \in [Fleets -> 0..MaxAdapters]
    <3>1. fleet[mgr] \in Fleets
      BY DEF CleanupStopped, IInv, TypeOK, Created, StopInHand, Stopping, Adapters
    <3> QED BY <2>1, <3>1, BoundsAssumption DEF IInv, TypeOK
  <2>3. todo' \subseteq Fleets /\ UNCHANGED <<made, adapters, call, dead, signals>>
    BY DEF CleanupStopped, IInv, TypeOK
  <2> QED BY <2>1, <2>2, <2>3, BoundsAssumption DEF IInv, TypeOK, Locations, adapters
<1>2. AtMostOneStray'
  BY DEF IInv, CleanupStopped, AtMostOneStray, StopInHand, Forget, None, adapters,
      Adapters, Stray, Answered, Current, Stopping, Known, Running, Starting
<1>3. (call \in Calls)' /\ Created' /\ KindOfStep' /\ StartInHand' /\ StopInHand' /\
      VisitsAreActive' /\ SignalEndsService' /\ RunningHasConfig' /\ AnswersHold'
  BY DEF IInv, CleanupStopped, Calls, Forget, None, adapters, Batches, Kinds,
      Created, Adapters, KindOfStep, StartInHand, Answered, Current, Starting,
      StopInHand, Stopping, VisitsAreActive, ActiveFleets, SignalEndsService,
      RunningHasConfig, Running, AnswersHold
<1> QED BY <1>1, <1>2, <1>3 DEF IInv

\* The status timer.
LEMMA TickIInv ==
  ASSUME IInv, Tick
  PROVE  IInv'
<1>1. (call \in Calls)'
  <2>1. call' = [kind |-> "status", asked |-> <<>>, answers |-> <<>>]
    BY DEF Tick, NoCall
  <2>2. <<>> \in Seq(BOOLEAN)
    OBVIOUS
  <2> QED BY <2>1, <2>2 DEF Calls, Kinds
<1>2. SignalEndsService'
  BY DEF IInv, Tick, SignalEndsService, KindOfStep, ActiveFleets, NoCall, adapters,
      None
<1>3. TypeOK' /\ Created' /\ KindOfStep' /\ StartInHand' /\ StopInHand' /\
      VisitsAreActive' /\ AtMostOneStray' /\ RunningHasConfig' /\ AnswersHold'
  BY DEF IInv, Tick, TypeOK, ActiveFleets, NoCall, adapters, Adapters, Batches,
      Locations, ProcessState, None, Starting, Stopping, Created, KindOfStep,
      StartInHand, Answered, Current, StopInHand, VisitsAreActive, AtMostOneStray,
      Stray, Known, Running, RunningHasConfig, AnswersHold
<1> QED BY <1>1, <1>2, <1>3 DEF IInv

LEMMA SweepOneIInv ==
  ASSUME IInv, NEW f \in Fleets, SweepOne(f)
  PROVE  IInv'
<1>1. VisitsAreActive'
  BY DEF IInv, SweepOne, VisitsAreActive, KindOfStep, Poll, ActiveFleets, None
<1>2. TypeOK' /\ (call \in Calls)'
  BY DEF IInv, SweepOne, TypeOK, Poll, Adapters, Batches, Locations, ProcessState,
      Starting, Stopping, Calls, Kinds
<1>3. Created' /\ KindOfStep' /\ StartInHand' /\ StopInHand' /\ SignalEndsService'
  BY DEF IInv, SweepOne, Created, Poll, Adapters, None, KindOfStep, StartInHand,
      Answered, Current, Starting, StopInHand, Stopping, SignalEndsService
<1>4. AtMostOneStray' /\ RunningHasConfig' /\ AnswersHold'
  BY DEF IInv, SweepOne, AtMostOneStray, Poll, Adapters, None, Stray, Known,
      Running, Starting, RunningHasConfig, AnswersHold
<1> QED BY <1>1, <1>2, <1>3, <1>4 DEF IInv

LEMMA SweepDoneIInv ==
  ASSUME IInv, SweepDone
  PROVE  IInv'
<1>1. TypeOK' /\ (call \in Calls)' /\ Created' /\ KindOfStep' /\ StartInHand' /\
      StopInHand' /\ VisitsAreActive' /\ SignalEndsService' /\ AtMostOneStray' /\
      RunningHasConfig' /\ AnswersHold'
  BY DEF IInv, SweepDone, TypeOK, adapters, Adapters, Batches, Locations,
      ProcessState, Starting, Stopping, Calls, Kinds, Created, None, KindOfStep,
      StartInHand, Answered, Current, StopInHand, VisitsAreActive, ActiveFleets,
      SignalEndsService, AtMostOneStray, Stray, Known, Running, RunningHasConfig,
      AnswersHold
<1> QED BY <1>1 DEF IInv

LEMMA ForgetDeadIInv ==
  ASSUME IInv, NEW f \in Fleets, ForgetDead(f)
  PROVE  IInv'
<1>1. TypeOK'
  BY BoundsAssumption DEF IInv, ForgetDead, TypeOK, Forget, adapters, Adapters,
      Batches, Locations, ProcessState, None, Starting, Stopping
<1>2. AtMostOneStray'
  BY DEF IInv, ForgetDead, AtMostOneStray, VisitsAreActive, Forget, adapters,
      Adapters, None, Stray, ActiveFleets, Known, Running, Starting
<1>3. AnswersHold'
  BY DEF IInv, ForgetDead, AnswersHold, KindOfStep, Forget, adapters, Adapters,
      None, Running
<1>4. (call \in Calls)' /\ Created' /\ KindOfStep' /\ StartInHand' /\ StopInHand' /\
      VisitsAreActive' /\ SignalEndsService' /\ RunningHasConfig'
  BY DEF IInv, ForgetDead, Calls, Forget, adapters, Batches, Kinds, None, Created,
      Adapters, KindOfStep, StartInHand, Answered, Current, Starting, StopInHand,
      Stopping, VisitsAreActive, ActiveFleets, SignalEndsService, RunningHasConfig,
      Running
<1> QED BY <1>1, <1>2, <1>3, <1>4 DEF IInv

LEMMA PublishIInv ==
  ASSUME IInv, Publish
  PROVE  IInv'
<1>1. SignalEndsService'
  BY DEF IInv, Publish, SignalEndsService, KindOfStep, NoCall, adapters
<1>2. TypeOK' /\ (call \in Calls)' /\ Created' /\ KindOfStep' /\ StartInHand' /\
      StopInHand' /\ VisitsAreActive' /\ AtMostOneStray' /\ RunningHasConfig' /\
      AnswersHold'
  BY DEF IInv, Publish, TypeOK, NoCall, adapters, Adapters, Batches, Locations,
      ProcessState, Starting, Stopping, Calls, Kinds, Created, None, KindOfStep,
      StartInHand, Answered, Current, StopInHand, VisitsAreActive, ActiveFleets,
      AtMostOneStray, Stray, Known, Running, RunningHasConfig, AnswersHold
<1> QED BY <1>1, <1>2 DEF IInv

\* A signal: whatever was being started stays behind, and it is the only one.
LEMMA SignalIInv ==
  ASSUME IInv, Signal
  PROVE  IInv'
<1>1. TypeOK'
  BY BoundsAssumption DEF IInv, Signal, TypeOK, ActiveFleets, NoCall, None,
      adapters, Adapters, Batches, Locations, ProcessState, Starting, Stopping
<1>2. (call \in Calls)'
  <2>1. call' = [kind |-> "cleanup", asked |-> <<>>, answers |-> <<>>]
    BY DEF Signal, NoCall
  <2>2. <<>> \in Seq(BOOLEAN)
    OBVIOUS
  <2> QED BY <2>1, <2>2 DEF Calls, Kinds
<1>3. AtMostOneStray'
  <2>1. \A m \in Adapters : Stray(m)' => Stray(m) \/ (pc \in Starting /\ m = mgr)
    BY DEF Signal, adapters, Stray, Known, Running
  <2>2. pc \in Starting =>
          /\ signals = 0 /\ active[fleet[mgr]] = None
          /\ \A m \in Adapters : ~Stray(m)
    BY DEF IInv, StartInHand, SignalEndsService, AtMostOneStray, Starting
  <2> QED BY <2>1, <2>2 DEF IInv, TypeOK, AtMostOneStray, Signal, adapters
<1>4. Created' /\ KindOfStep' /\ StartInHand' /\ StopInHand' /\ VisitsAreActive' /\
      SignalEndsService' /\ RunningHasConfig' /\ AnswersHold'
  BY DEF IInv, Signal, Created, ActiveFleets, NoCall, None, adapters, Adapters,
      KindOfStep, StartInHand, Answered, Current, Starting, StopInHand, Stopping,
      VisitsAreActive, SignalEndsService, RunningHasConfig, Running, AnswersHold
<1> QED BY <1>1, <1>2, <1>3, <1>4 DEF IInv

LEMMA CleanupOneIInv ==
  ASSUME IInv, NEW f \in Fleets, CleanupOne(f)
  PROVE  IInv'
<1>1. StopInHand'
  <2>1. mgr' \in Adapters /\ mgr' <= made /\ fleet[mgr'] = f /\ active[f] = mgr'
    BY BoundsAssumption DEF CleanupOne, IInv, TypeOK, VisitsAreActive, ActiveFleets, Created, Adapters, None
  <2> QED BY <2>1 DEF CleanupOne, StopInHand, IInv, KindOfStep, adapters
<1>2. TypeOK' /\ (call \in Calls)' /\ Created' /\ KindOfStep' /\ StartInHand' /\
      VisitsAreActive' /\ SignalEndsService' /\ AtMostOneStray' /\ RunningHasConfig'
      /\ AnswersHold'
  BY DEF IInv, CleanupOne, TypeOK, adapters, Adapters, Batches, Locations,
      ProcessState, Starting, Stopping, Calls, Kinds, Created, None, KindOfStep,
      StartInHand, Answered, Current, VisitsAreActive, ActiveFleets,
      SignalEndsService, AtMostOneStray, Stray, Known, Running, RunningHasConfig,
      AnswersHold
<1> QED BY <1>1, <1>2 DEF IInv

LEMMA ExitIInv ==
  ASSUME IInv, Exit
  PROVE  IInv'
<1>1. VisitsAreActive'
  BY DEF IInv, Exit, VisitsAreActive, KindOfStep, NoCall, adapters, ActiveFleets,
      None
<1>2. TypeOK' /\ (call \in Calls)' /\ Created' /\ KindOfStep' /\ StartInHand' /\
      StopInHand' /\ SignalEndsService' /\ AtMostOneStray' /\ RunningHasConfig' /\
      AnswersHold'
  BY DEF IInv, Exit, TypeOK, NoCall, adapters, Adapters, Batches, Locations,
      ProcessState, Starting, Stopping, Calls, Kinds, Created, None, KindOfStep,
      StartInHand, Answered, Current, StopInHand, SignalEndsService, AtMostOneStray,
      Stray, Known, Running, RunningHasConfig, AnswersHold
<1> QED BY <1>1, <1>2 DEF IInv

\* An adapter ends by itself.
LEMMA AdapterEndsIInv ==
  ASSUME IInv, NEW m \in Adapters, AdapterEnds(m)
  PROVE  IInv'
<1>1. StartInHand'
  <2>1. pc = "spawn" => process'[mgr] = process[mgr]
    BY DEF AdapterEnds, IInv, TypeOK, StartInHand, Starting, Alive
  <2> QED BY <2>1 DEF AdapterEnds, IInv, StartInHand, Starting, Answered, Current
<1>2. TypeOK' /\ (call \in Calls)' /\ Created' /\ KindOfStep' /\ StopInHand' /\
      VisitsAreActive' /\ SignalEndsService' /\ AtMostOneStray' /\ RunningHasConfig'
      /\ AnswersHold'
  BY DEF IInv, AdapterEnds, TypeOK, Alive, Adapters, Batches, Locations,
      ProcessState, Starting, Stopping, Calls, Kinds, Created, None, KindOfStep,
      StopInHand, Answered, Current, VisitsAreActive, ActiveFleets,
      SignalEndsService, AtMostOneStray, Stray, Known, Running, RunningHasConfig,
      AnswersHold
<1> QED BY <1>1, <1>2 DEF IInv

-----------------------------------------------------------------------------
LEMMA InitIInv == Init => IInv
<1> SUFFICES ASSUME Init PROVE IInv OBVIOUS
<1>1. TypeOK
  BY BoundsAssumption
  DEF Init, TypeOK, NoCall, None, Adapters, ProcessState, Locations
<1>2. call \in Calls
  <2>1. <<>> \in Seq(BOOLEAN)
    OBVIOUS
  <2> QED BY <2>1 DEF Init, NoCall, Calls, Kinds
<1>3. Created /\ KindOfStep /\ SignalEndsService
  BY DEF Init, Created, KindOfStep, SignalEndsService, NoCall, Adapters, None
<1>4. StartInHand /\ StopInHand
  BY DEF Init, StartInHand, StopInHand, Starting, Stopping
<1>5. VisitsAreActive
  BY DEF Init, VisitsAreActive, NoCall
<1>6. AtMostOneStray /\ RunningHasConfig
  BY DEF Init, AtMostOneStray, Stray, RunningHasConfig, Running
<1>7. AnswersHold
  BY DEF Init, AnswersHold, NoCall
<1> QED BY <1>1, <1>2, <1>3, <1>4, <1>5, <1>6, <1>7 DEF IInv

LEMMA NextIInv == IInv /\ [Next]_vars => IInv'
<1> SUFFICES ASSUME IInv, [Next]_vars PROVE IInv' OBVIOUS
<1>1. CASE UNCHANGED vars
  BY <1>1
  DEF IInv, TypeOK, Calls, Created, KindOfStep, StartInHand, StopInHand,
      VisitsAreActive, SignalEndsService, AtMostOneStray, RunningHasConfig,
      AnswersHold, Stray, Known, Running, ActiveFleets, Answered, Current, vars, adapters
<1>2. CASE Receive("start") \/ Receive("stop") \/ Respond
  BY <1>2, ReceiveIInv, RespondIInv
<1>3. CASE StartStep
  BY <1>3, AlreadyRunningIInv, CreateManagerIInv, CreateFailsIInv, SpawnIInv,
     SpawnFailsIInv, SpawnHalfFailsIInv, CheckAliveIInv, RegisterIInv DEF StartStep
<1>4. CASE StopStep
  BY <1>4, NotFoundIInv, StopManagerIInv, TerminateIInv, WaitEndsIInv,
     WaitTimesOutIInv, KillTimesOutIInv, UnlinkConfigIInv, UnlinkFailsIInv,
     ServiceStoppedIInv, CleanupStoppedIInv DEF StopStep
<1>5. CASE Tick \/ StatusStep
  BY <1>5, TickIInv, SweepOneIInv, SweepDoneIInv, ForgetDeadIInv, PublishIInv
  DEF StatusStep
<1>6. CASE Signal \/ CleanupStep
  BY <1>6, SignalIInv, CleanupOneIInv, ExitIInv DEF CleanupStep
<1>7. CASE \E m \in Adapters : AdapterEnds(m)
  BY <1>7, AdapterEndsIInv
<1> QED BY <1>1, <1>2, <1>3, <1>4, <1>5, <1>6, <1>7 DEF Next, SpawnerStep

THEOREM SpawnerInvariant == Spec => []IInv
<1> QED BY InitIInv, NextIInv, PTL DEF Spec

\* The type invariant (start_fleet_adapters_callback, stop, publish_status).
THEOREM SpawnerTypes == Spec => []TypeOK
<1>1. IInv => TypeOK
  BY DEF IInv
<1> QED BY <1>1, SpawnerInvariant, PTL

\* A running adapter has its config file, in whatever order stop, its repetition
\* and a signal come (FleetAdapterProcessManager.stop, cleanup).
THEOREM ConfigIsKept == Spec => []RunningHasConfig
<1>1. IInv => RunningHasConfig
  BY DEF IInv
<1> QED BY <1>1, SpawnerInvariant, PTL

\* A True in a response holds when it is sent (the service callbacks).
THEOREM AnswersAreTruthful == Spec => []AnswersTruthful
<1>1. IInv => AnswersTruthful
  <2> SUFFICES ASSUME IInv, Responding,
                      NEW i \in DOMAIN call.answers, call.answers[i]
               PROVE  CASE call.kind = "start" -> active[call.asked[i]] # None
                        [] call.kind = "stop" ->
                             /\ active[call.asked[i]] = None
                             /\ \A m \in Adapters :
                                  fleet[m] = call.asked[i] => ~Running(m)
    BY DEF AnswersTruthful
  <2>1. call.kind \in {"start", "stop"}
    BY DEF Responding, IInv, KindOfStep
  <2>2. CASE call.kind = "start"
    BY <2>2 DEF IInv, AnswersHold
  <2>3. CASE call.kind = "stop"
    BY <2>3 DEF IInv, AnswersHold
  <2> QED BY <2>1, <2>2, <2>3
<1> QED BY <1>1, SpawnerInvariant, PTL

\* A set none of whose elements differ has at most one.
LEMMA AtMostOneElement ==
  ASSUME NEW S, \A x, y \in S : x = y
  PROVE  Cardinality(S) \in {0, 1}
<1>1. CASE S = {}
  BY <1>1, FS_EmptySet
<1>2. CASE S # {}
  <2>1. PICK x \in S : S = {x}
    BY <1>2
  <2> QED BY <2>1, FS_Singleton
<1> QED BY <1>1, <1>2

\* All running adapters are known, but for one that a signal may have cut off
\* (start, signal_handler, cleanup).
THEOREM RunningIsKnown == Spec => []RunningAreKnown
<1>1. IInv => RunningAreKnown
  <2> SUFFICES ASSUME IInv PROVE RunningAreKnown OBVIOUS
  <2> DEFINE strays == {m \in Adapters : Running(m) /\ ~Known(m)}
  <2>1. Cardinality(strays) \in {0, 1}
    BY AtMostOneElement DEF IInv, AtMostOneStray, Stray
  <2>2. signals = 0 => strays = {}
    BY DEF IInv, AtMostOneStray, Stray
  <2>3. signals = 0 => Cardinality(strays) = 0
    BY <2>2, FS_EmptySet
  <2> QED BY <2>1, <2>3 DEF RunningAreKnown
<1> QED BY <1>1, SpawnerInvariant, PTL

\* No fleet has two running adapters (active_adapters).
THEOREM OneAdapter == Spec => []OneAdapterPerFleet
<1>1. IInv => OneAdapterPerFleet
  <2> SUFFICES ASSUME IInv, NEW f \in Fleets
               PROVE  Cardinality({m \in Adapters : fleet[m] = f /\ Running(m)}) <= 1
    BY DEF OneAdapterPerFleet
  <2>1. ASSUME NEW m \in Adapters, fleet[m] = f, Running(m),
               NEW n \in Adapters, fleet[n] = f, Running(n)
        PROVE  m = n
    <3>1. CASE Stray(m)
      BY <2>1, <3>1 DEF IInv, AtMostOneStray, SignalEndsService, Stray, Known,
         StartInHand, TypeOK, Adapters, None, Starting
    <3>2. CASE Stray(n)
      BY <2>1, <3>2 DEF IInv, AtMostOneStray, SignalEndsService, Stray, Known,
         StartInHand, TypeOK, Adapters, None, Starting
    <3>3. CASE ~Stray(m) /\ ~Stray(n)
      BY <2>1, <3>3 DEF IInv, Stray, Known, StartInHand, Adapters, None
    <3> QED BY <3>1, <3>2, <3>3
  <2>2. Cardinality({m \in Adapters : fleet[m] = f /\ Running(m)}) \in {0, 1}
    BY <2>1, AtMostOneElement
  <2> QED BY <2>2
<1> QED BY <1>1, SpawnerInvariant, PTL

-----------------------------------------------------------------------------
(***************************************************************************)
(* Why every call returns and every signal ends the spawner: each step of  *)
(* the spawner leaves it less to do, nothing but a signal gives it more,   *)
(* and it never waits for a process that is not there.  What CallsReturn   *)
(* and SignalsEnd need beyond this is only that the main thread runs.      *)
(***************************************************************************)

\* How far the loop over a request, or over the fleets of cleanup, is from its
\* next round.
Position ==
  [next |-> 7, cleanup |-> 7, term |-> 6, spawn |-> 6, wait |-> 5, check |-> 5,
   waitKilled |-> 4, register |-> 4, unlink |-> 3, stopped |-> 2, failed |-> 2,
   respond |-> 1]

Rounds == IF call.kind = "cleanup" THEN Cardinality(todo)
          ELSE Len(call.asked) - Len(call.answers)

\* The steps left to what is under way, at most.
WorkLeft ==
  IF pc \in {"idle", "down"} THEN 0
  ELSE IF pc = "sweep" THEN 2 * Cardinality(todo) + Cardinality(dead) + 2
  ELSE IF pc = "forget" THEN Cardinality(dead) + 1
  ELSE 8 * Rounds + Position[pc]

\* stop waits only for a process that was started and not reaped: it ends, or
\* the wait does.
WaitsForProcess ==
  pc \in {"wait", "waitKilled"} => process[mgr] \in Alive \union {"zombie"}

ActiveHasProcess == \A f \in Fleets : active[f] # None => process[active[f]] # "none"

CheckedHasProcess == pc \in {"check", "register"} => process[mgr] # "none"

\* cleanup stops the adapter of a fleet that it has still to visit.
CleanupVisits == call.kind = "cleanup" /\ pc \in Stopping => fleet[mgr] \in todo

WorkInv == WaitsForProcess /\ ActiveHasProcess /\ CheckedHasProcess /\ CleanupVisits

\* Every step of the spawner brings what is under way nearer to its end, and
\* nothing but a signal moves the end away.
WorkShrinks ==
  /\ SpawnerStep => WorkLeft \in Nat /\ WorkLeft' < WorkLeft
  /\ pc # "idle" /\ signals' = signals => WorkLeft' <= WorkLeft

Looping == Locations \ {"idle", "down", "sweep", "forget"}

LEMMA WorkInit == Init => WorkInv
  BY DEF Init, WorkInv, WaitsForProcess, ActiveHasProcess, CheckedHasProcess, CleanupVisits,
         NoCall, None

\* A process that was started stays started.
LEMMA StartedStays ==
  ASSUME IInv, [Next]_vars, NEW m \in Adapters, process[m] # "none"
  PROVE  process'[m] # "none"
<1> USE DEF IInv, TypeOK
<1>1. CASE UNCHANGED vars
  BY <1>1 DEF vars, adapters
<1>2. CASE Respond \/ StartStep
  BY <1>2
  DEF Respond, StartStep, AlreadyRunning, CreateManager, CreateFails, Spawn, SpawnFails,
      SpawnHalfFails, CheckAlive, Register, Poll, adapters
<1>3. CASE StopStep
  BY <1>3
  DEF StopStep, NotFound, StopManager, Terminate, WaitEnds, WaitTimesOut, KillTimesOut,
      UnlinkConfig, UnlinkFails, ServiceStopped, CleanupStopped, Poll, adapters
<1>4. CASE StatusStep
  BY <1>4 DEF StatusStep, SweepDone, Publish, SweepOne, ForgetDead, Poll, adapters
<1>5. CASE CleanupStep \/ Tick \/ Signal \/ Receive("start") \/ Receive("stop")
  BY <1>5 DEF CleanupStep, Exit, CleanupOne, Tick, Signal, Receive, adapters
<1>6. CASE \E n \in Adapters : AdapterEnds(n)
  BY <1>6 DEF AdapterEnds
<1> QED BY <1>1, <1>2, <1>3, <1>4, <1>5, <1>6 DEF Next, SpawnerStep

LEMMA WorkStep == IInv /\ WorkInv /\ [Next]_vars => WorkInv'
<1> SUFFICES ASSUME IInv, WorkInv, [Next]_vars PROVE WorkInv' OBVIOUS
<1> USE DEF IInv, TypeOK
<1>0. \A f \in Fleets : active[f] # None => active[f] \in Adapters
  BY BoundsAssumption DEF Adapters, None
<1>1. ActiveHasProcess'
  <2> SUFFICES ASSUME NEW f \in Fleets, active'[f] # None
               PROVE  process'[active'[f]] # "none"
    BY DEF ActiveHasProcess
  <2>1. CASE Register
    <3>1. mgr \in Adapters /\ process' = process /\ process[mgr] # "none"
      BY <2>1
      DEF Register, StartInHand, Starting, WorkInv, CheckedHasProcess, adapters
    <3>2. active'[f] \in {active[f], mgr}
      BY <2>1 DEF Register
    <3> QED BY <1>0, <3>1, <3>2 DEF WorkInv, ActiveHasProcess
  <2>2. CASE ~Register
    <3>1. active'[f] = active[f]
      BY <2>2
      DEF Next, SpawnerStep, Respond, StartStep, AlreadyRunning, CreateManager, CreateFails,
          Spawn, SpawnFails, SpawnHalfFails, CheckAlive, StopStep, NotFound, StopManager,
          Terminate, WaitEnds, WaitTimesOut, KillTimesOut, UnlinkConfig, UnlinkFails,
          ServiceStopped, CleanupStopped, StatusStep, SweepDone, Publish, SweepOne,
          ForgetDead, CleanupStep, Exit, CleanupOne, Tick, Signal, Receive, AdapterEnds,
          Forget, vars, adapters
    <3> QED BY <1>0, <3>1, StartedStays DEF WorkInv, ActiveHasProcess
  <2> QED BY <2>1, <2>2
<1>2. CheckedHasProcess'
  <2> SUFFICES ASSUME pc' \in {"check", "register"} PROVE process'[mgr'] # "none"
    BY DEF CheckedHasProcess
  <2>1. CASE Spawn
    BY <2>1 DEF Spawn, StartInHand, Starting
  <2>2. CASE ~Spawn
    <3>1. pc \in {"check", "register"} /\ mgr' = mgr
      BY <2>2
      DEF Next, SpawnerStep, Respond, StartStep, AlreadyRunning, CreateManager, CreateFails,
          SpawnFails, SpawnHalfFails, CheckAlive, Register, StopStep, NotFound, StopManager,
          Terminate, WaitEnds, WaitTimesOut, KillTimesOut, UnlinkConfig, UnlinkFails,
          ServiceStopped, CleanupStopped, StatusStep, SweepDone, Publish, SweepOne,
          ForgetDead, CleanupStep, Exit, CleanupOne, Tick, Signal, Receive, AdapterEnds, Answer, vars
    <3> QED BY <3>1, StartedStays DEF WorkInv, CheckedHasProcess, StartInHand, Starting
  <2> QED BY <2>1, <2>2
<1>3. WaitsForProcess'
  <2> SUFFICES ASSUME pc' \in {"wait", "waitKilled"}
               PROVE  process'[mgr'] \in Alive \union {"zombie"}
    BY DEF WaitsForProcess
  <2>1. CASE Terminate
    <3>1. mgr \in Adapters /\ fleet[mgr] \in Fleets /\ active[fleet[mgr]] = mgr /\ mgr # None
      BY <2>1 DEF Terminate, StopInHand, Stopping, Created, Adapters, None
    <3>2. process[mgr] \notin {"none", "reaped"} /\ process[mgr] \in ProcessState
      BY <2>1, <3>1 DEF Terminate, WorkInv, ActiveHasProcess
    <3> QED BY <2>1, <3>1, <3>2 DEF Terminate, ProcessState, Alive
  <2>2. CASE WaitTimesOut
    BY <2>2 DEF WaitTimesOut, StopInHand, Stopping, Alive
  <2>3. CASE \E m \in Adapters : AdapterEnds(m)
    BY <2>3 DEF AdapterEnds, WorkInv, WaitsForProcess
  <2>4. CASE ~Terminate /\ ~WaitTimesOut /\ ~\E m \in Adapters : AdapterEnds(m)
    <3>1. UNCHANGED <<pc, mgr, process>>
      BY <2>4
      DEF Next, SpawnerStep, Respond, StartStep, AlreadyRunning, CreateManager, CreateFails,
          Spawn, SpawnFails, SpawnHalfFails, CheckAlive, Register, StopStep, NotFound,
          StopManager, WaitEnds, KillTimesOut, UnlinkConfig, UnlinkFails,
          ServiceStopped, CleanupStopped, StatusStep, SweepDone, Publish, SweepOne,
          ForgetDead, CleanupStep, Exit, CleanupOne, Tick, Signal, Receive, Answer, vars,
          adapters
    <3> QED BY <3>1 DEF WorkInv, WaitsForProcess
  <2> QED BY <2>1, <2>2, <2>3, <2>4
<1>4. CleanupVisits'
  <2> SUFFICES ASSUME call'.kind = "cleanup", pc' \in Stopping
               PROVE  fleet'[mgr'] \in todo'
    BY DEF CleanupVisits
  <2>1. CASE \E f \in Fleets : CleanupOne(f)
    BY <2>1 DEF CleanupOne, VisitsAreActive, ActiveFleets, Created, adapters
  <2>2. CASE ~\E f \in Fleets : CleanupOne(f)
    <3>1. pc \in Stopping /\ UNCHANGED <<mgr, fleet, todo, call>>
      BY <2>2
      DEF Next, SpawnerStep, Respond, StartStep, AlreadyRunning, CreateManager, CreateFails,
          Spawn, SpawnFails, SpawnHalfFails, CheckAlive, Register, StopStep, NotFound,
          StopManager, Terminate, WaitEnds, WaitTimesOut, KillTimesOut, UnlinkConfig,
          UnlinkFails, ServiceStopped, CleanupStopped, StatusStep, SweepDone, Publish,
          SweepOne, ForgetDead, CleanupStep, Exit, Tick, Signal, Receive, AdapterEnds,
          Answer, AtNext, Stopping, vars, adapters
    <3> QED BY <3>1 DEF WorkInv, CleanupVisits
  <2> QED BY <2>1, <2>2
<1> QED BY <1>1, <1>2, <1>3, <1>4 DEF WorkInv

LEMMA PositionValues ==
  /\ Position["next"] = 7 /\ Position["cleanup"] = 7 /\ Position["term"] = 6
  /\ Position["spawn"] = 6 /\ Position["wait"] = 5 /\ Position["check"] = 5
  /\ Position["waitKilled"] = 4 /\ Position["register"] = 4 /\ Position["unlink"] = 3
  /\ Position["stopped"] = 2 /\ Position["failed"] = 2 /\ Position["respond"] = 1
  BY DEF Position

LEMMA PositionTyped == \A l \in Looping : Position[l] \in 1..7
  BY PositionValues DEF Looping, Locations, Starting, Stopping

\* Only fleets with an adapter are visited, so that a visit of them all ends
\* whatever names requests have used.
LEMMA VisitsFinite ==
  ASSUME IInv
  PROVE  IsFiniteSet(ActiveFleets) /\ IsFiniteSet(todo) /\ IsFiniteSet(dead)
<1> USE DEF IInv, TypeOK
<1> DEFINE D == {m \in Adapters : fleet[m] \in ActiveFleets}
           F == [m \in D |-> fleet[m]]
<1>1. IsFiniteSet(Adapters)
  <2>1. 1 \in Int /\ MaxAdapters \in Int
    BY BoundsAssumption
  <2> QED BY <2>1, FS_Interval DEF Adapters
<1>2. IsFiniteSet(D)
  BY <1>1, FS_Subset
<1>3. \A f \in ActiveFleets : active[f] \in D /\ F[active[f]] = f
  BY BoundsAssumption DEF Created, ActiveFleets, Adapters, None
<1>4. F \in Surjection(D, ActiveFleets)
  BY <1>3 DEF Surjection
<1>5. IsFiniteSet(ActiveFleets)
  BY <1>2, <1>4, FS_Surjection
<1>6. dead \subseteq ActiveFleets
  BY DEF VisitsAreActive, ActiveFleets
<1> QED BY <1>5, <1>6, FS_Subset DEF VisitsAreActive

LEMMA RoundsTyped ==
  ASSUME IInv
  PROVE  /\ Cardinality(todo) \in Nat /\ Cardinality(dead) \in Nat
         /\ Rounds \in Nat
<1>1. Cardinality(todo) \in Nat /\ Cardinality(dead) \in Nat
  BY VisitsFinite, FS_CardinalityType
<1>2. Len(call.answers) \in Nat /\ Len(call.asked) \in Nat /\ Len(call.answers) <= Len(call.asked)
  <2>1. call.asked \in Seq(Fleets) /\ call.answers \in Seq(BOOLEAN)
    BY AskedFleets DEF IInv, TypeOK, Calls
  <2> QED BY <2>1 DEF IInv, TypeOK
<1> DEFINE n == Len(call.asked)
           k == Len(call.answers)
<1>3. n - k \in Nat
  BY <1>2
<1>4. Rounds = IF call.kind = "cleanup" THEN Cardinality(todo) ELSE n - k
  BY DEF Rounds
<1> HIDE DEF n, k
<1> QED BY <1>1, <1>3, <1>4

\* Within a loop, a step comes nearer to the next round or begins it.
LEMMA RoundStep ==
  ASSUME IInv, pc \in Looping, pc' \in Looping,
         \/ Rounds' = Rounds /\ Position[pc'] < Position[pc]
         \/ Rounds' = Rounds - 1
  PROVE  WorkLeft \in Nat /\ WorkLeft' < WorkLeft
<1>1. /\ WorkLeft = 8 * Rounds + Position[pc]
      /\ WorkLeft' = 8 * Rounds' + Position[pc']
  BY DEF WorkLeft, Looping
<1>2. Rounds \in Nat
  BY RoundsTyped
<1>3. Position[pc] \in 1..7 /\ Position[pc'] \in 1..7
  BY PositionTyped
<1> QED BY <1>1, <1>2, <1>3

\* An answer is one round less.
LEMMA AnswerStep ==
  ASSUME IInv, NEW b \in BOOLEAN, Answer(b), ~Answered, pc \in Looping,
         call.kind \in {"start", "stop"}
  PROVE  WorkLeft \in Nat /\ WorkLeft' < WorkLeft
<1>1. /\ call'.kind = call.kind /\ call'.asked = call.asked
      /\ Len(call'.answers) = Len(call.answers) + 1
  BY AnswerTyped DEF IInv, TypeOK
<1>2. Len(call.answers) \in Nat /\ Len(call.asked) \in Nat
  <2>1. call.asked \in Seq(Fleets) /\ call.answers \in Seq(BOOLEAN)
    BY AskedFleets DEF IInv, TypeOK, Calls
  <2> QED BY <2>1
<1>3. Rounds' = Rounds - 1
  <2> DEFINE n == Len(call.asked)
             k == Len(call.answers)
  <2>1. Rounds = n - k /\ Rounds' = n - Len(call'.answers)
    BY <1>1 DEF Rounds
  <2>2. Len(call'.answers) = k + 1 /\ n \in Nat /\ k \in Nat
    BY <1>1, <1>2
  <2> HIDE DEF n, k
  <2> QED BY <2>1, <2>2
<1>4. pc' \in Looping
  BY DEF Answer, Looping, Locations
<1> QED BY <1>3, <1>4, RoundStep

LEMMA StartShrinks ==
  ASSUME IInv, StartStep \/ Respond
  PROVE  WorkLeft \in Nat /\ WorkLeft' < WorkLeft
<1> USE DEF IInv, TypeOK
<1>1. CASE Respond
  <2>1. pc \in {"next", "respond"} /\ pc' = "idle"
    BY <1>1 DEF Respond, Responding
  <2>2. WorkLeft = 8 * Rounds + Position[pc] /\ WorkLeft' = 0
    BY <2>1 DEF WorkLeft
  <2>3. Rounds \in Nat /\ Position[pc] \in 1..7
    BY <2>1, RoundsTyped, PositionTyped DEF Looping, Locations
  <2> QED BY <2>2, <2>3
<1>2. CASE AlreadyRunning \/ SpawnFails \/ SpawnHalfFails
  <2>1. Answer(FALSE) /\ ~Answered /\ call.kind = "start" /\ pc \in Looping
    BY <1>2
    DEF AlreadyRunning, SpawnFails, SpawnHalfFails, AtNext, StartInHand, Starting, Looping,
        Locations
  <2> QED BY <2>1, AnswerStep
<1>3. CASE Register
  <2>1. Answer(TRUE) /\ ~Answered /\ call.kind = "start" /\ pc \in Looping
    BY <1>3 DEF Register, StartInHand, Starting, Looping, Locations
  <2> QED BY <2>1, AnswerStep
<1>4. CASE CreateManager \/ Spawn
  <2>1. Rounds' = Rounds
    BY <1>4 DEF CreateManager, Spawn, Rounds
  <2>2. pc \in Looping /\ pc' \in Looping /\ Position[pc'] < Position[pc]
    BY <1>4, PositionValues
    DEF CreateManager, Spawn, AtNext, Looping, Locations, Starting
  <2> QED BY <2>1, <2>2, RoundStep
<1>5. CASE CheckAlive
  <2>1. CASE process[mgr] = "zombie"
    <3>1. Answer(FALSE) /\ ~Answered /\ call.kind = "start" /\ pc \in Looping
      BY <1>5, <2>1 DEF CheckAlive, StartInHand, Starting, Looping, Locations
    <3> QED BY <3>1, AnswerStep
  <2>2. CASE process[mgr] # "zombie"
    <3>1. Rounds' = Rounds
      BY <1>5, <2>2 DEF CheckAlive, Rounds
    <3>2. pc \in Looping /\ pc' \in Looping /\ Position[pc'] < Position[pc]
      BY <1>5, <2>2, PositionValues DEF CheckAlive, Looping, Locations, Starting
    <3> QED BY <3>1, <3>2, RoundStep
  <2> QED BY <2>1, <2>2
<1>6. CASE CreateFails
  <2>1. /\ pc = "next" /\ pc' = "respond" /\ call.kind = "start" /\ UNCHANGED todo
        /\ call' = [call EXCEPT !.answers = IF call.answers = <<>> THEN AllFalse
                                            ELSE call.answers]
    BY <1>6 DEF CreateFails, AtNext
  <2>2. call'.kind = call.kind /\ call'.asked = call.asked
        /\ call'.answers = IF call.answers = <<>> THEN AllFalse ELSE call.answers
    BY <2>1 DEF Calls
  <2>3. /\ call.asked \in Seq(Fleets) /\ call.answers \in Seq(BOOLEAN)
        /\ Len(AllFalse) = Len(call.asked)
    BY AskedFleets, AllFalseTyped DEF Calls
  <2>4. /\ Rounds = Len(call.asked) - Len(call.answers)
        /\ Rounds' = Len(call.asked) - Len(call'.answers)
    BY <2>1, <2>2 DEF Rounds
  <2>5. Len(call.asked) \in Nat
    BY <2>3
  <2>6. CASE call.answers = <<>>
    <3>1. Len(call.answers) = 0 /\ Len(call'.answers) = Len(call.asked)
      BY <2>2, <2>3, <2>6
    <3>2. Rounds = Len(call.asked) /\ Rounds' = 0
      BY <2>4, <2>5, <3>1
    <3>3. WorkLeft = 8 * Rounds + 7 /\ WorkLeft' = 8 * Rounds' + 1
      BY <2>1, PositionValues DEF WorkLeft
    <3> QED BY <2>5, <3>2, <3>3
  <2>7. CASE call.answers # <<>>
    <3>1. Rounds' = Rounds
      BY <2>2, <2>7, <2>4
    <3>2. pc \in Looping /\ pc' \in Looping /\ Position[pc'] < Position[pc]
      BY <2>1, PositionValues DEF Looping, Locations
    <3> QED BY <3>1, <3>2, RoundStep
  <2> QED BY <2>6, <2>7
<1> QED BY <1>1, <1>2, <1>3, <1>4, <1>5, <1>6 DEF StartStep

LEMMA StopShrinks ==
  ASSUME IInv, WorkInv, StopStep
  PROVE  WorkLeft \in Nat /\ WorkLeft' < WorkLeft
<1> USE DEF IInv, TypeOK
<1>1. CASE NotFound
  <2>1. Answer(FALSE) /\ ~Answered /\ call.kind = "stop" /\ pc \in Looping
    BY <1>1 DEF NotFound, AtNext, Looping, Locations
  <2> QED BY <2>1, AnswerStep
<1>2. CASE StopManager \/ Terminate \/ WaitEnds
  <2>1. Rounds' = Rounds
    BY <1>2 DEF StopManager, Terminate, WaitEnds, Rounds
  <2>2. pc \in Looping /\ pc' \in Looping /\ Position[pc'] < Position[pc]
    BY <1>2, PositionValues
    DEF StopManager, Terminate, WaitEnds, AtNext, Looping, Locations, Stopping
  <2> QED BY <2>1, <2>2, RoundStep
<1>3. CASE WaitTimesOut \/ KillTimesOut \/ UnlinkConfig \/ UnlinkFails
  <2>1. Rounds' = Rounds
    BY <1>3 DEF WaitTimesOut, KillTimesOut, UnlinkConfig, UnlinkFails, Rounds
  <2>2. pc \in Looping /\ pc' \in Looping /\ Position[pc'] < Position[pc]
    BY <1>3, PositionValues
    DEF WaitTimesOut, KillTimesOut, UnlinkConfig, UnlinkFails, Looping, Locations, Stopping
  <2> QED BY <2>1, <2>2, RoundStep
<1>4. CASE ServiceStopped
  <2>1. PICK b \in BOOLEAN : Answer(b)
    BY <1>4 DEF ServiceStopped
  <2>2. ~Answered /\ call.kind = "stop" /\ pc \in Looping
    BY <1>4 DEF ServiceStopped, StopInHand, Stopping, Looping, Locations
  <2> QED BY <2>1, <2>2, AnswerStep
<1>5. CASE CleanupStopped
  <2>1. /\ call.kind = "cleanup" /\ call' = call /\ fleet[mgr] \in todo
        /\ todo' = todo \ {fleet[mgr]}
    BY <1>5 DEF CleanupStopped, WorkInv, CleanupVisits, Stopping
  <2>2. Cardinality(todo') = Cardinality(todo) - 1
    BY <2>1, VisitsFinite, FS_RemoveElement
  <2>3. Rounds' = Rounds - 1
    BY <2>1, <2>2 DEF Rounds
  <2>4. pc \in Looping /\ pc' \in Looping
    BY <1>5 DEF CleanupStopped, Looping, Locations, Stopping
  <2> QED BY <2>3, <2>4, RoundStep
<1> QED BY <1>1, <1>2, <1>3, <1>4, <1>5 DEF StopStep

LEMMA VisitShrinks ==
  ASSUME IInv, StatusStep \/ CleanupStep
  PROVE  WorkLeft \in Nat /\ WorkLeft' < WorkLeft
<1> USE DEF IInv, TypeOK
<1>0. Cardinality(todo) \in Nat /\ Cardinality(dead) \in Nat /\ Rounds \in Nat
  BY RoundsTyped
<1>1. CASE \E f \in Fleets : SweepOne(f)
  <2> PICK f \in Fleets : SweepOne(f)
    BY <1>1
  <2>1. /\ pc = "sweep" /\ pc' = "sweep" /\ f \in todo /\ todo' = todo \ {f}
        /\ dead' \in {dead, dead \union {f}}
    BY DEF SweepOne
  <2>2. Cardinality(todo') = Cardinality(todo) - 1
    BY <2>1, VisitsFinite, FS_RemoveElement
  <2>3. Cardinality(dead') \in {Cardinality(dead), Cardinality(dead) + 1}
    BY <2>1, VisitsFinite, FS_AddElement
  <2> QED BY <1>0, <2>1, <2>2, <2>3 DEF WorkLeft
<1>2. CASE \E f \in Fleets : ForgetDead(f)
  <2> PICK f \in Fleets : ForgetDead(f)
    BY <1>2
  <2>1. pc = "forget" /\ pc' = "forget" /\ f \in dead /\ dead' = dead \ {f}
    BY DEF ForgetDead
  <2>2. Cardinality(dead') = Cardinality(dead) - 1
    BY <2>1, VisitsFinite, FS_RemoveElement
  <2> QED BY <1>0, <2>1, <2>2 DEF WorkLeft
<1>3. CASE SweepDone \/ Publish
  <2>1. CASE SweepDone
    BY <1>0, <2>1 DEF SweepDone, WorkLeft
  <2>2. CASE Publish
    BY <1>0, <2>2 DEF Publish, WorkLeft
  <2> QED BY <1>3, <2>1, <2>2
<1>4. CASE Exit
  <2>1. WorkLeft = 8 * Rounds + 7 /\ WorkLeft' = 0
    BY <1>4, PositionValues DEF Exit, WorkLeft
  <2> QED BY <1>0, <2>1
<1>5. CASE \E f \in Fleets : CleanupOne(f)
  <2>1. Rounds' = Rounds
    BY <1>5 DEF CleanupOne, Rounds
  <2>2. pc \in Looping /\ pc' \in Looping /\ Position[pc'] < Position[pc]
    BY <1>5, PositionValues DEF CleanupOne, Looping, Locations, Stopping
  <2> QED BY <2>1, <2>2, RoundStep
<1> QED BY <1>1, <1>2, <1>3, <1>4, <1>5 DEF StatusStep, CleanupStep

LEMMA WorkLeftTyped == IInv => WorkLeft \in Nat
<1> SUFFICES ASSUME IInv PROVE WorkLeft \in Nat OBVIOUS
<1>1. Cardinality(todo) \in Nat /\ Cardinality(dead) \in Nat /\ Rounds \in Nat
  BY RoundsTyped
<1>2. pc \in Looping => Position[pc] \in 1..7
  BY PositionTyped
<1>3. pc \in Looping \union {"idle", "down", "sweep", "forget"}
  BY DEF Looping, IInv, TypeOK
<1> QED BY <1>1, <1>2, <1>3 DEF WorkLeft

\* Whatever adapters refuse to stop and whatever signals come, the spawner comes
\* nearer to the end of what it is doing with each of its steps, and it waits for
\* no process that can neither end nor be given up (stop, cleanup,
\* publish_status): the safety half of CallsReturn and SignalsEnd.
THEOREM WorkComesToAnEnd == Spec => [][WorkShrinks]_vars /\ []WaitsForProcess
<1>0. (IInv => WorkLeft \in Nat)'
  BY WorkLeftTyped, PTL
<1>1. IInv /\ WorkInv /\ [Next]_vars => [WorkShrinks]_vars
  <2> SUFFICES ASSUME IInv, WorkInv, Next PROVE WorkShrinks
    OBVIOUS
  <2>1. SpawnerStep => WorkLeft \in Nat /\ WorkLeft' < WorkLeft
    BY StartShrinks, StopShrinks, VisitShrinks DEF SpawnerStep
  <2>2. ASSUME pc # "idle", signals' = signals PROVE WorkLeft' <= WorkLeft
    <3>1. CASE SpawnerStep
      <4>1. WorkLeft' \in Nat
        BY <1>0, NextIInv
      <4> QED BY <2>1, <3>1, <4>1
    <3>2. CASE \E m \in Adapters : AdapterEnds(m)
      <4>1. WorkLeft' = WorkLeft
        BY <3>2 DEF AdapterEnds, WorkLeft, Rounds
      <4> QED BY <4>1, WorkLeftTyped
    <3>3. CASE Signal
      BY <2>2, <3>3 DEF Signal, IInv, TypeOK
    <3> QED BY <2>2, <3>1, <3>2, <3>3 DEF Next, Tick, Receive
  <2> QED BY <2>1, <2>2 DEF WorkShrinks
<1>2. WorkInv => WaitsForProcess
  BY DEF WorkInv
<1> QED BY <1>1, <1>2, InitIInv, NextIInv, WorkInit, WorkStep, PTL DEF Spec
=============================================================================
