-------------------------- MODULE DeadlockRecovery --------------------------
(***************************************************************************)
(* RobotState::check_deadlock_recovery: a robot whose controller keeps     *)
(* reporting that its goal cannot be reached is taken out of RMF's plan    *)
(* for a while (an interruption with a declared hold), so that the robots  *)
(* that wait for each other are planned anew; then it is left in peace     *)
(* for a while.                                                            *)
(*                                                                         *)
(* The code keeps points in time; they are kept here as distances from     *)
(* now, in a unit of one second, and a distance stops growing once no      *)
(* comparison can tell it from a longer one.  The clock needs no bound.    *)
(***************************************************************************)
EXTENDS Integers

CONSTANTS
  HoldFor,      \* how long an interruption is held, 10 s
  BlockedFor,   \* how long a robot must have been blocked, 8 s
  CooldownFor   \* how long no new interruption follows, 15 s

ASSUME DurationsAssumption ==
  /\ HoldFor \in Nat \ {0} /\ BlockedFor \in Nat \ {0} /\ CooldownFor \in Nat \ {0}

VARIABLES
  blocked,       \* the active session is not done and has a failure reason
  holding,       \* holding_
  interruption,  \* deadlock_interruption_ is set, and RMF's is not resumed
  holdLeft,      \* hold_until_ - now, or Unset
  blockedSince,  \* now - blocked_since_, or Unset
  coolLeft,      \* cooldown_until_ - now; zero is as good as unset
  sinceClear,    \* history: now - the last tick that saw it not blocked
  sinceHold,     \* history: now - the last interruption
  sinceResume    \* history: now - the last resumption

code == <<holding, interruption, holdLeft, blockedSince, coolLeft>>
history == <<sinceClear, sinceHold, sinceResume>>
vars == <<blocked, code, history>>

Unset == -1
LongAgo == HoldFor + BlockedFor + CooldownFor
Upto(n) == Unset..n

TypeOK ==
  /\ blocked \in BOOLEAN /\ holding \in BOOLEAN /\ interruption \in BOOLEAN
  /\ holdLeft \in Upto(HoldFor)
  /\ blockedSince \in Upto(BlockedFor)
  /\ coolLeft \in 0..CooldownFor
  /\ sinceClear \in 0..LongAgo /\ sinceHold \in 0..LongAgo /\ sinceResume \in 0..LongAgo

Init ==
  /\ blocked = FALSE /\ holding = FALSE /\ interruption = FALSE
  /\ holdLeft = Unset /\ blockedSince = Unset /\ coolLeft = 0
  /\ sinceClear = 0 /\ sinceHold = LongAgo /\ sinceResume = LongAgo

(***************************************************************************)
(* The environment: a second passes; feedback, a new path, a stop or an    *)
(* end of the navigation changes what the active session says.             *)
(***************************************************************************)
Later(n, cap) == IF n = Unset \/ n = cap THEN n ELSE n + 1
Sooner(n) == IF n <= 0 THEN n ELSE n - 1

SecondPasses ==
  /\ holdLeft' = Sooner(holdLeft)
  /\ coolLeft' = Sooner(coolLeft)
  /\ blockedSince' = Later(blockedSince, BlockedFor)
  /\ sinceClear' = Later(sinceClear, LongAgo)
  /\ sinceHold' = Later(sinceHold, LongAgo)
  /\ sinceResume' = Later(sinceResume, LongAgo)
  /\ UNCHANGED <<blocked, holding, interruption>>

Reported ==
  /\ blocked' = ~blocked
  /\ UNCHANGED <<code, history>>

(***************************************************************************)
(* One call of check_deadlock_recovery, from RobotState::update; each      *)
(* action is one way through it.                                           *)
(***************************************************************************)
KeepHolding ==
  /\ holding
  /\ holdLeft > 0
  /\ UNCHANGED vars

\* Mutant: the cooldown is not set.
ResumeWithoutCooldown ==
  /\ holding
  /\ holdLeft = 0
  /\ interruption' = FALSE /\ holding' = FALSE
  /\ holdLeft' = Unset /\ blockedSince' = Unset
  /\ sinceResume' = 0
  /\ UNCHANGED <<blocked, coolLeft, sinceClear, sinceHold>>

\* Mutant: the hold's end is not cleared together with the interruption.
ResumeAndStay ==
  /\ holding
  /\ holdLeft = 0
  /\ interruption' = FALSE
  /\ blockedSince' = Unset
  /\ coolLeft' = CooldownFor
  /\ sinceResume' = 0
  /\ UNCHANGED <<blocked, holding, holdLeft, sinceClear, sinceHold>>

Resume ==
  /\ holding
  /\ holdLeft = 0
  /\ interruption' = FALSE /\ holding' = FALSE
  /\ holdLeft' = Unset /\ blockedSince' = Unset
  /\ coolLeft' = CooldownFor
  /\ sinceResume' = 0
  /\ UNCHANGED <<blocked, sinceClear, sinceHold>>

NotBlocked ==
  /\ ~holding /\ ~blocked
  /\ blockedSince' = Unset
  /\ sinceClear' = 0
  /\ UNCHANGED <<blocked, holding, interruption, holdLeft, coolLeft, sinceHold, sinceResume>>

CoolingDown ==
  /\ ~holding /\ blocked
  /\ coolLeft > 0
  /\ UNCHANGED vars

\* Mutant: every tick starts the time anew.
NoteBlockedAgain ==
  /\ ~holding /\ blocked
  /\ coolLeft = 0
  /\ blockedSince < BlockedFor
  /\ blockedSince' = 0
  /\ UNCHANGED <<blocked, holding, interruption, holdLeft, coolLeft, history>>

NoteBlocked ==
  /\ ~holding /\ blocked
  /\ coolLeft = 0
  /\ blockedSince = Unset
  /\ blockedSince' = 0
  /\ UNCHANGED <<blocked, holding, interruption, holdLeft, coolLeft, history>>

StillWaiting ==
  /\ ~holding /\ blocked
  /\ coolLeft = 0
  /\ blockedSince \in 0..(BlockedFor - 1)
  /\ UNCHANGED vars

\* Mutant: the end of the hold is not set, as if it were already over.
InterruptWithoutEnd ==
  /\ ~holding /\ blocked
  /\ coolLeft = 0
  /\ blockedSince = BlockedFor
  /\ interruption' = TRUE /\ holding' = TRUE
  /\ sinceHold' = 0
  /\ UNCHANGED <<blocked, holdLeft, blockedSince, coolLeft, sinceClear, sinceResume>>

\* Mutant: the cooldown is added to the hold.
InterruptTooLong ==
  /\ ~holding /\ blocked
  /\ coolLeft = 0
  /\ blockedSince = BlockedFor
  /\ interruption' = TRUE /\ holding' = TRUE
  /\ holdLeft' = HoldFor + CooldownFor
  /\ sinceHold' = 0
  /\ UNCHANGED <<blocked, blockedSince, coolLeft, sinceClear, sinceResume>>

Interrupt ==
  /\ ~holding /\ blocked
  /\ coolLeft = 0
  /\ blockedSince = BlockedFor
  /\ interruption' = TRUE /\ holding' = TRUE
  /\ holdLeft' = HoldFor
  /\ sinceHold' = 0
  /\ UNCHANGED <<blocked, blockedSince, coolLeft, sinceClear, sinceResume>>

Tick ==
  \/ KeepHolding \/ Resume \/ NotBlocked
  \/ CoolingDown \/ NoteBlocked \/ StillWaiting \/ Interrupt

Next == SecondPasses \/ Reported \/ Tick

Spec == Init /\ [][Next]_vars

\* The clock runs and update comes to the check, however often the session
\* changes in between.
FairSpec ==
  /\ Spec
  /\ WF_vars(SecondPasses) /\ WF_vars(Tick)
-----------------------------------------------------------------------------
(***************************************************************************)
(* Properties.                                                             *)
(***************************************************************************)
\* There is an interruption exactly while the code holds the robot, and then it
\* knows when the hold ends: none is leaked, and none resumed twice.
HoldIsInterruption == (holding <=> interruption) /\ (holding <=> holdLeft # Unset)

\* RMF is interrupted only for a robot that every tick of the last BlockedFor
\* seconds saw blocked, and that has been left alone for CooldownFor seconds
\* after the last hold; and a hold lasts at least HoldFor seconds.
RecoveryPaced ==
  [][/\ interruption' /\ ~interruption =>
          sinceClear >= BlockedFor /\ sinceResume >= CooldownFor + BlockedFor
     /\ interruption /\ ~interruption' => sinceHold >= HoldFor]_vars

\* An interruption is resumed: the robot is not held for ever.
HoldEnds == interruption ~> ~interruption

\* A robot that stays blocked is interrupted again and again.
BlockedIsRecovered == <>[]blocked => []<>interruption
=============================================================================
