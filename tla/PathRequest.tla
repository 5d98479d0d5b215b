---------------------------- MODULE PathRequest ----------------------------
(***************************************************************************)
(* What one robot's command handle promises RMF, without sessions, threads *)
(* or callbacks: what may be sent to the robot for a request, when RMF is  *)
(* told that it is finished, and when RMF is asked to replan.              *)
(*                                                                         *)
(* A request ends in exactly one of these ways, as far as RMF can tell:    *)
(* it is reported finished, a replan is asked for, or RMF withdraws it.    *)
(* The promise is weaker than one would like in two places, and exactly    *)
(* there: a request whose goal was given up without an answer may be       *)
(* reported a second time when the robot reaches its end after all, and    *)
(* a replan that is due for an old request may hit a newer one.            *)
(***************************************************************************)
EXTENDS Naturals, FiniteSets

CONSTANTS
  Requests,  \* the numbers requests can have, from 1 on
  None       \* no request

VARIABLES
  asked,       \* how many requests RMF has made
  waiting,     \* the request RMF waits for, or None
  result,      \* what the robot made of each request
  unanswered,  \* requests whose goal was given up for want of an acceptance
  told,        \* how often RMF was told that a request is finished
  replans      \* how often RMF was asked to replan

vars == <<asked, waiting, result, unanswered, told, replans>>

Init ==
  /\ asked = 0
  /\ waiting = None
  /\ result = [r \in Requests |-> "nothing"]
  /\ unanswered = [r \in Requests |-> FALSE]
  /\ told = [r \in Requests |-> 0]
  /\ replans = 0

\* RMF asks for a motion and waits; an older request may be replaced by it.
Ask ==
  /\ asked + 1 \in Requests
  /\ asked' = asked + 1
  /\ waiting' = asked + 1
  /\ UNCHANGED <<result, unanswered, told, replans>>

\* A request that needs no motion is finished within the call; it replaces an
\* older one like any other.
AskForNothing ==
  /\ asked + 1 \in Requests
  /\ asked' = asked + 1
  /\ waiting' = None
  /\ told' = [told EXCEPT ![asked + 1] = 1]
  /\ UNCHANGED <<result, unanswered, replans>>

Withdraw ==
  /\ waiting # None
  /\ waiting' = None
  /\ UNCHANGED <<asked, result, unanswered, told, replans>>

\* A goal goes out once, for the newest request, and never after RMF was told
\* that the request is finished.
Send(r) ==
  /\ r = asked
  /\ result[r] = "nothing" /\ told[r] = 0
  /\ result' = [result EXCEPT ![r] = "sent"]
  /\ UNCHANGED <<asked, waiting, unanswered, told, replans>>

\* The robot refuses the goal, reaches its end, or gives it up.
RobotAnswers(r) ==
  /\ result[r] = "sent"
  /\ \E a \in {"refused", "arrived", "gaveUp"} :
       result' = [result EXCEPT ![r] = a]
  /\ UNCHANGED <<asked, waiting, unanswered, told, replans>>

\* The goal is not known to be accepted; perhaps it never reached the robot.
GiveUp(r) ==
  /\ result[r] # "nothing"
  /\ ~unanswered[r]
  /\ unanswered' = [unanswered EXCEPT ![r] = TRUE]
  /\ result' \in {result, [result EXCEPT ![r] = "refused"]}
  /\ result' # result => result[r] = "sent"
  /\ UNCHANGED <<asked, waiting, told, replans>>

MayTell(r) ==
  /\ r <= asked
  /\ result[r] \in {"nothing", "arrived"} \/ unanswered[r]
  /\ told[r] < IF unanswered[r] /\ result[r] # "refused" THEN 2 ELSE 1

\* RMF stops waiting for r, and for no other request.
Tell(r) ==
  /\ MayTell(r)
  /\ told' = [told EXCEPT ![r] = @ + 1]
  /\ waiting' = IF waiting = r THEN None ELSE waiting
  /\ UNCHANGED <<asked, result, unanswered, replans>>

GivenUpByRobot == {r \in Requests : result[r] = "gaveUp"}

\* At most one replan for each goal the robot gave up.
Replan ==
  /\ replans < Cardinality(GivenUpByRobot)
  /\ replans' = replans + 1
  /\ waiting' = None
  /\ UNCHANGED <<asked, result, unanswered, told>>

Next ==
  \/ Ask \/ AskForNothing \/ Withdraw \/ Replan
  \/ \E r \in Requests : Send(r) \/ RobotAnswers(r) \/ GiveUp(r) \/ Tell(r)

Spec == Init /\ [][Next]_vars
=============================================================================
