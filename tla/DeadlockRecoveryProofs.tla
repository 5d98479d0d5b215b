----------------------- MODULE DeadlockRecoveryProofs -----------------------
(***************************************************************************)
(* Theorems about DeadlockRecovery, for every choice of the durations.     *)
(***************************************************************************)
EXTENDS DeadlockRecovery, TLAPS

\* While held, the hold is as old as it must be for what is left of it.
HoldAge == holding => sinceHold + holdLeft >= HoldFor

\* What is left of the cooldown covers the time since the last resumption.
CooldownAge == ~holding => sinceResume + coolLeft >= CooldownFor

\* A time of being blocked is measured only outside the cooldown, and no tick
\* saw the robot clear in it.
BlockedAge ==
  ~holding /\ blockedSince # Unset =>
    /\ coolLeft = 0
    /\ sinceClear >= blockedSince
    /\ sinceResume >= CooldownFor + blockedSince

RecoveryInv == TypeOK /\ HoldIsInterruption /\ HoldAge /\ CooldownAge /\ BlockedAge

LEMMA RecoveryInit == Init => RecoveryInv
<1> SUFFICES ASSUME Init
             PROVE  RecoveryInv
  OBVIOUS
<1> USE DurationsAssumption DEF Init, Unset, LongAgo
<1>1. /\ blocked \in BOOLEAN /\ holding \in BOOLEAN /\ interruption \in BOOLEAN
      /\ holdLeft \in Upto(HoldFor) /\ blockedSince \in Upto(BlockedFor)
      /\ coolLeft \in 0..CooldownFor
      /\ sinceClear \in 0..LongAgo /\ sinceHold \in 0..LongAgo
      /\ sinceResume \in 0..LongAgo
  <2>1. /\ holdLeft \in Upto(HoldFor) /\ blockedSince \in Upto(BlockedFor)
        /\ coolLeft \in 0..CooldownFor
    BY DEF Upto
  <2>2. sinceClear \in 0..LongAgo /\ sinceHold \in 0..LongAgo /\ sinceResume \in 0..LongAgo
    OBVIOUS
  <2>3. blocked \in BOOLEAN /\ holding \in BOOLEAN /\ interruption \in BOOLEAN
    BY Zenon
  <2>4. QED
    BY <2>1, <2>2, <2>3
<1>2. HoldIsInterruption
  BY DEF HoldIsInterruption
<1>3. HoldAge /\ CooldownAge /\ BlockedAge
  BY DEF HoldAge, CooldownAge, BlockedAge
<1>4. QED
  BY <1>1, <1>2, <1>3 DEF RecoveryInv, TypeOK

LEMMA RecoveryStep == RecoveryInv /\ [Next]_vars => RecoveryInv'
<1> SUFFICES ASSUME RecoveryInv, [Next]_vars
             PROVE  RecoveryInv'
  OBVIOUS
<1> USE DurationsAssumption
    DEF RecoveryInv, TypeOK, HoldIsInterruption, HoldAge, CooldownAge,
        BlockedAge, Upto, Unset, LongAgo, code, history
<1>1. CASE SecondPasses
  <2>1. /\ holdLeft' \in Upto(HoldFor) /\ blockedSince' \in Upto(BlockedFor)
        /\ coolLeft' \in 0..CooldownFor
        /\ sinceClear' \in 0..LongAgo /\ sinceHold' \in 0..LongAgo
        /\ sinceResume' \in 0..LongAgo
    BY <1>1 DEF SecondPasses, Later, Sooner
  <2>2. HoldIsInterruption' /\ HoldAge'
    BY <1>1 DEF SecondPasses, Later, Sooner
  <2>3. CooldownAge'
    BY <1>1 DEF SecondPasses, Later, Sooner
  <2>4. BlockedAge'
    BY <1>1 DEF SecondPasses, Later, Sooner
  <2>5. QED
    BY <1>1, <2>1, <2>2, <2>3, <2>4 DEF SecondPasses
<1>2. CASE Reported
  BY <1>2 DEF Reported
<1>3. CASE Tick
  <2>1. CASE KeepHolding
    BY <2>1 DEF KeepHolding, vars
  <2>2. CASE Resume
    <3>1. TypeOK'
      <4>1. /\ holdLeft' \in Upto(HoldFor) /\ blockedSince' \in Upto(BlockedFor)
            /\ coolLeft' \in 0..CooldownFor
            /\ sinceClear' \in 0..LongAgo /\ sinceHold' \in 0..LongAgo
            /\ sinceResume' \in 0..LongAgo
        BY <2>2 DEF Resume
      <4>2. blocked' \in BOOLEAN /\ holding' \in BOOLEAN /\ interruption' \in BOOLEAN
        BY <2>2, Zenon DEF Resume
      <4>3. QED
        BY <4>1, <4>2
    <3>2. HoldIsInterruption'
      BY <2>2 DEF Resume
    <3>3. HoldAge' /\ CooldownAge' /\ BlockedAge'
      BY <2>2 DEF Resume
    <3>4. QED
      BY <3>1, <3>2, <3>3
  <2>3. CASE NotBlocked
    <3>1. TypeOK' /\ HoldIsInterruption'
      BY <2>3 DEF NotBlocked
    <3>2. HoldAge' /\ CooldownAge' /\ BlockedAge'
      BY <2>3 DEF NotBlocked
    <3>3. QED
      BY <3>1, <3>2
  <2>4. CASE CoolingDown
    BY <2>4 DEF CoolingDown, vars
  <2>5. CASE NoteBlocked
    <3>1. TypeOK' /\ HoldIsInterruption'
      BY <2>5 DEF NoteBlocked
    <3>2. HoldAge' /\ CooldownAge' /\ BlockedAge'
      BY <2>5 DEF NoteBlocked
    <3>3. QED
      BY <3>1, <3>2
  <2>6. CASE StillWaiting
    BY <2>6 DEF StillWaiting, vars
  <2>7. CASE Interrupt
    BY <2>7 DEF Interrupt
  <2>8. QED
    BY <1>3, <2>1, <2>2, <2>3, <2>4, <2>5, <2>6, <2>7 DEF Tick
<1>4. CASE UNCHANGED vars
  BY <1>4 DEF vars
<1>5. QED
  BY <1>1, <1>2, <1>3, <1>4 DEF Next

\* The recovery never loses an interruption or the end of a hold, whatever the
\* durations and however ticks and reports interleave.
THEOREM HoldIsTracked == Spec => [](TypeOK /\ HoldIsInterruption)
<1>1. RecoveryInv => TypeOK /\ HoldIsInterruption
  BY DEF RecoveryInv
<1>2. QED
  BY <1>1, RecoveryInit, RecoveryStep, PTL DEF Spec

LEMMA StepPaced ==
  ASSUME RecoveryInv, [Next]_vars
  PROVE  /\ interruption' /\ ~interruption =>
              sinceClear >= BlockedFor /\ sinceResume >= CooldownFor + BlockedFor
         /\ interruption /\ ~interruption' => sinceHold >= HoldFor
<1>1. CASE Interrupt
  BY <1>1, DurationsAssumption
  DEF Interrupt, RecoveryInv, TypeOK, BlockedAge, HoldIsInterruption, Unset
<1>2. CASE Resume
  BY <1>2, DurationsAssumption DEF Resume, RecoveryInv, TypeOK, HoldAge, Upto
<1>3. CASE UNCHANGED interruption
  BY <1>3
<1>4. QED
  BY <1>1, <1>2, <1>3
  DEF Next, SecondPasses, Reported, Tick, KeepHolding, NotBlocked, CoolingDown,
      NoteBlocked, StillWaiting, vars, code

\* RMF is interrupted only for a robot that was seen blocked by every tick of the
\* last BlockedFor seconds and left alone long enough before, and no hold is cut
\* short: for every choice of the three durations.
THEOREM RecoveryIsPaced == Spec => RecoveryPaced
<1>1. RecoveryInv /\ [Next]_vars =>
        [/\ interruption' /\ ~interruption =>
              sinceClear >= BlockedFor /\ sinceResume >= CooldownFor + BlockedFor
         /\ interruption /\ ~interruption' => sinceHold >= HoldFor]_vars
  BY StepPaced
<1>2. QED
  BY <1>1, RecoveryInit, RecoveryStep, PTL DEF Spec, RecoveryPaced

\* The types of the module: each timer stays within its duration, whatever the
\* durations.
THEOREM RecoveryTypes == Spec => []TypeOK
<1>1. RecoveryInv => TypeOK
  BY DEF RecoveryInv
<1>2. QED
  BY <1>1, RecoveryInit, RecoveryStep, PTL DEF Spec

-----------------------------------------------------------------------------
(***************************************************************************)
(* What keeps the promises of HoldEnds and BlockedIsRecovered, apart from  *)
(* the clock and the ticks going on.                                       *)
(***************************************************************************)
\* The end of a hold comes nearer with each second and never moves away; at the
\* end the next tick resumes.
HoldRunsOut ==
  interruption =>
    /\ holdLeft \in Nat
    /\ ~interruption' \/ holdLeft' <= holdLeft
    /\ SecondPasses /\ holdLeft > 0 => holdLeft' < holdLeft
    /\ Tick /\ holdLeft = 0 => ~interruption'

\* How far a blocked robot is from its interruption.
NotNoted == coolLeft = 0 /\ blockedSince = Unset
WaitLeft ==
  coolLeft + (IF blockedSince = Unset THEN BlockedFor + 1 ELSE BlockedFor - blockedSince)

\* While a robot stays blocked its interruption comes nearer with each second,
\* or with the tick that notes it, and never moves away; when nothing is left
\* to wait for, the next tick interrupts.
InterruptionNears ==
  ~interruption /\ blocked /\ blocked' =>
    /\ WaitLeft \in Nat
    /\ interruption' \/ WaitLeft' <= WaitLeft
    /\ SecondPasses /\ ~NotNoted /\ WaitLeft > 0 => WaitLeft' < WaitLeft
    /\ Tick /\ NotNoted => WaitLeft' < WaitLeft
    /\ Tick /\ WaitLeft = 0 => interruption'

LEMMA HoldRunsOutStep ==
  ASSUME RecoveryInv, [Next]_vars
  PROVE  [HoldRunsOut]_vars
<1> SUFFICES ASSUME interruption, Next
             PROVE  /\ holdLeft \in Nat
                    /\ ~interruption' \/ holdLeft' <= holdLeft
                    /\ SecondPasses /\ holdLeft > 0 => holdLeft' < holdLeft
                    /\ Tick /\ holdLeft = 0 => ~interruption'
  BY DEF HoldRunsOut
<1>1. holding /\ holdLeft \in Nat
  BY DurationsAssumption DEF RecoveryInv, TypeOK, HoldIsInterruption, Upto, Unset
<1>2. SecondPasses => holdLeft' <= holdLeft /\ (holdLeft > 0 => holdLeft' < holdLeft)
  BY <1>1 DEF SecondPasses, Sooner
<1>3. Reported => holdLeft' = holdLeft
  BY DEF Reported, code
<1>4. Tick => (KeepHolding /\ holdLeft > 0 /\ holdLeft' = holdLeft) \/ (Resume /\ ~interruption')
  BY <1>1 DEF Tick, KeepHolding, Resume, NotBlocked, CoolingDown, NoteBlocked,
              StillWaiting, Interrupt, vars, code
<1>5. Tick => (holdLeft > 0 /\ holdLeft' = holdLeft) \/ ~interruption'
  BY <1>4
<1>6. Tick /\ holdLeft = 0 => ~interruption'
  BY <1>5
<1>7. ~interruption' \/ holdLeft' <= holdLeft
  BY <1>1, <1>2, <1>3, <1>5 DEF Next
<1> QED BY <1>1, <1>2, <1>6, <1>7

LEMMA InterruptionNearsStep ==
  ASSUME RecoveryInv, [Next]_vars
  PROVE  [InterruptionNears]_vars
<1> SUFFICES ASSUME ~interruption, blocked, blocked', Next
             PROVE  /\ WaitLeft \in Nat
                    /\ interruption' \/ WaitLeft' <= WaitLeft
                    /\ SecondPasses /\ ~NotNoted /\ WaitLeft > 0 => WaitLeft' < WaitLeft
                    /\ Tick /\ NotNoted => WaitLeft' < WaitLeft
                    /\ Tick /\ WaitLeft = 0 => interruption'
  BY DEF InterruptionNears
<1>1. /\ ~holding
      /\ coolLeft \in Nat /\ blockedSince \in Unset..BlockedFor
      /\ blockedSince # Unset => coolLeft = 0
  BY DurationsAssumption DEF RecoveryInv, TypeOK, HoldIsInterruption, BlockedAge, Upto
<1>2. WaitLeft \in Nat
  BY <1>1, DurationsAssumption DEF WaitLeft, Unset
<1>3. WaitLeft = 0 <=> coolLeft = 0 /\ blockedSince = BlockedFor
  BY <1>1, DurationsAssumption DEF WaitLeft, Unset
<1>4. ASSUME SecondPasses
      PROVE  WaitLeft' <= WaitLeft /\ (~NotNoted /\ WaitLeft > 0 => WaitLeft' < WaitLeft)
  <2>1. /\ coolLeft' = (IF coolLeft <= 0 THEN coolLeft ELSE coolLeft - 1)
        /\ blockedSince' = (IF blockedSince = Unset \/ blockedSince = BlockedFor
                            THEN blockedSince ELSE blockedSince + 1)
    BY <1>4 DEF SecondPasses, Sooner, Later
  <2>2. WaitLeft' <= WaitLeft
    BY <1>1, <2>1, DurationsAssumption DEF WaitLeft, Unset
  <2>3. ~NotNoted /\ WaitLeft > 0 => WaitLeft' < WaitLeft
    BY <1>1, <1>3, <2>1, DurationsAssumption DEF WaitLeft, NotNoted, Unset
  <2> QED BY <2>2, <2>3
<1>5. Tick => \/ CoolingDown \/ NoteBlocked \/ StillWaiting \/ Interrupt
  BY <1>1 DEF Tick, KeepHolding, Resume, NotBlocked
<1>6. CoolingDown => ~NotNoted /\ WaitLeft # 0 /\ WaitLeft' = WaitLeft
  BY <1>3 DEF CoolingDown, NotNoted, WaitLeft, vars, code
<1>7. StillWaiting => ~NotNoted /\ WaitLeft # 0 /\ WaitLeft' = WaitLeft
  BY <1>3, DurationsAssumption DEF StillWaiting, NotNoted, WaitLeft, Unset, vars, code
<1>8. NoteBlocked => WaitLeft # 0 /\ WaitLeft' < WaitLeft
  BY <1>3, DurationsAssumption DEF NoteBlocked, WaitLeft, Unset
<1>9. Interrupt => ~NotNoted /\ interruption'
  BY DurationsAssumption DEF Interrupt, NotNoted, Unset
<1>10. Reported => WaitLeft' = WaitLeft
  BY DEF Reported, code, WaitLeft
<1>11. Tick /\ NotNoted => WaitLeft' < WaitLeft
  BY <1>5, <1>6, <1>7, <1>8, <1>9
<1>12. Tick /\ WaitLeft = 0 => interruption'
  BY <1>5, <1>6, <1>7, <1>8, <1>9
<1>13. WaitLeft' <= WaitLeft \/ interruption'
  <2>1. CASE SecondPasses
    BY <1>4, <2>1
  <2>2. CASE Reported
    BY <1>2, <1>10, <2>2
  <2>3. CASE CoolingDown \/ StillWaiting
    BY <1>2, <1>6, <1>7, <2>3
  <2>4. CASE NoteBlocked
    <3>1. WaitLeft' \in Int
      BY <1>1, <2>4, DurationsAssumption DEF NoteBlocked, WaitLeft, Unset
    <3> QED BY <1>2, <1>8, <2>4, <3>1
  <2>5. CASE Interrupt
    BY <1>9, <2>5
  <2> QED BY <1>5, <2>1, <2>2, <2>3, <2>4, <2>5 DEF Next
<1> QED BY <1>2, <1>4, <1>11, <1>12, <1>13

\* An interruption is resumed: what is left of the hold runs out with the clock,
\* nothing prolongs it, and the tick that finds it over resumes
\* (check_deadlock_recovery, hold_until_).
THEOREM HoldIsLimited == Spec => [][HoldRunsOut]_vars
<1>1. RecoveryInv /\ [Next]_vars => [HoldRunsOut]_vars
  BY HoldRunsOutStep
<1> QED BY <1>1, RecoveryInit, RecoveryStep, PTL DEF Spec

\* A robot that stays blocked gets its interruption: neither the cooldown nor the
\* time it must have been blocked starts anew while it is
\* (check_deadlock_recovery, blocked_since_ and cooldown_until_).
THEOREM BlockedIsNoted == Spec => [][InterruptionNears]_vars
<1>1. RecoveryInv /\ [Next]_vars => [InterruptionNears]_vars
  BY InterruptionNearsStep
<1> QED BY <1>1, RecoveryInit, RecoveryStep, PTL DEF Spec

-----------------------------------------------------------------------------
(***************************************************************************)
(* How often a robot can be taken out of RMF's plan.                       *)
(***************************************************************************)
\* The last hold was over before the cooldown that followed it began.
HoldBeforeResume ==
  ~holding => sinceHold >= sinceResume + HoldFor \/ sinceHold = LongAgo

InterruptionsApart == interruption' /\ ~interruption => sinceHold = LongAgo

LEMMA ApartStep ==
  ASSUME RecoveryInv, HoldBeforeResume, [Next]_vars
  PROVE  HoldBeforeResume' /\ InterruptionsApart
<1> USE DurationsAssumption
<1>1. /\ sinceHold \in 0..LongAgo /\ sinceResume \in 0..LongAgo
      /\ LongAgo = HoldFor + BlockedFor + CooldownFor
      /\ holding <=> interruption
  BY DEF RecoveryInv, TypeOK, HoldIsInterruption, LongAgo
<1>2. CASE SecondPasses
  <2>1. /\ sinceHold' = (IF sinceHold = LongAgo THEN sinceHold ELSE sinceHold + 1)
        /\ sinceResume' = (IF sinceResume = LongAgo THEN sinceResume ELSE sinceResume + 1)
        /\ holding' = holding /\ interruption' = interruption
    BY <1>1, <1>2 DEF SecondPasses, Later, Unset
  <2>2. LongAgo' = LongAgo
    BY DEF LongAgo
  <2> QED BY <1>1, <2>1, <2>2 DEF HoldBeforeResume, InterruptionsApart
<1>3. CASE Resume
  <2>1. sinceHold >= HoldFor /\ sinceHold' = sinceHold /\ sinceResume' = 0 /\ ~interruption'
    BY <1>3 DEF Resume, RecoveryInv, TypeOK, HoldAge, Upto
  <2> QED BY <1>1, <2>1 DEF HoldBeforeResume, InterruptionsApart, LongAgo
<1>4. CASE Interrupt
  <2>1. ~holding /\ sinceResume >= CooldownFor + BlockedFor /\ holding'
    BY <1>4 DEF Interrupt, RecoveryInv, TypeOK, BlockedAge, Unset
  <2> QED BY <1>1, <2>1 DEF HoldBeforeResume, InterruptionsApart
<1>5. CASE UNCHANGED <<holding, interruption, sinceHold, sinceResume>>
  BY <1>5 DEF HoldBeforeResume, InterruptionsApart, LongAgo
<1> QED
  BY <1>2, <1>3, <1>4, <1>5
  DEF Next, Reported, Tick, KeepHolding, NotBlocked, CoolingDown, NoteBlocked,
      StillWaiting, vars, code, history

\* Two interruptions of one robot are at least a hold, a cooldown and a time of
\* being blocked apart, 33 seconds with the code's durations: the recovery cannot
\* keep a robot out of RMF's plan (check_deadlock_recovery).
THEOREM InterruptionsAreApart == Spec => [][InterruptionsApart]_vars
<1>1. Init => HoldBeforeResume
  BY DEF Init, HoldBeforeResume
<1>2. RecoveryInv /\ HoldBeforeResume /\ [Next]_vars
        => HoldBeforeResume' /\ [InterruptionsApart]_vars
  BY ApartStep
<1> QED BY <1>1, <1>2, RecoveryInit, RecoveryStep, PTL DEF Spec
=============================================================================
